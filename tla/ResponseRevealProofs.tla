------------------------ MODULE ResponseRevealProofs ------------------------
(***************************************************************************)
(* Proofs about ZkSlices and ResponseReveal, for every size of a chunk and *)
(* of a cipher block, every response, its records, and any requests:       *)
(*   - the ZK slices of a record tile it, and the attestor gets back the   *)
(*     text the client proved (SlicesTile, AttestorSeesRecord, ...);       *)
(*   - the attestor sees what the client redacted                          *)
(*     (AttestorSeesClientsView), in which only what is to be shown is in  *)
(*     the clear (OnlySelectedShown) and all that is selected is shown     *)
(*     (SelectedShown).                                                    *)
(***************************************************************************)
EXTENDS HttpParserProofs

-----------------------------------------------------------------------------
(* The ZK slices of one record (addPacketToProve), for every cipher and     *)
(* size of a chunk.                                                         *)

(* Division with a remainder *)
LEMMA DivMod ==
  ASSUME NEW a \in Nat, NEW c \in Nat \ {0}
  PROVE  /\ a \div c \in Nat /\ a % c \in 0 .. c - 1
         /\ a = (a \div c) * c + (a % c)
OBVIOUS

(* A multiple of c leaves no remainder. *)
LEMMA Multiple ==
  ASSUME NEW k \in Nat, NEW c \in Nat \ {0}
  PROVE  k * c \in Nat /\ (k * c) % c = 0
OBVIOUS

(* Two multiples of c are at least c apart. *)
LEMMA MultipleMinus ==
  ASSUME NEW a \in Nat, NEW b \in Nat, NEW c \in Nat \ {0}, a < b, a % c = 0, b % c = 0
  PROVE  a + c <= b
<1>1. a = (a \div c) * c /\ b = (b \div c) * c /\ a \div c \in Nat /\ b \div c \in Nat
  BY DivMod
<1>2. a \div c < b \div c
  BY <1>1
<1>3. (a \div c + 1) * c <= (b \div c) * c
  BY <1>1, <1>2
<1>. QED
  BY <1>1, <1>3

-----------------------------------------------------------------------------

(* The sizes of a chunk and of a cipher block, as assumed. *)
LEMMA Sizes ==
  /\ ChunkSize \in Nat \ {0} /\ BlockSize \in Nat \ {0} /\ ChunkSize % BlockSize = 0
BY SizesAssumption DEF SizesAssumption

(* A part of a record in pieces: they lie in it, no two overlap, and       *)
(* nothing is left out.                                                    *)
LEMMA PiecesLieInside ==
  ASSUME NEW size \in Nat, NEW f \in 0 .. size, NEW t \in 0 .. size,
         NEW s \in Pieces(f, t)
  PROVE  /\ s \in Slices(size) /\ f <= s.fromIndex /\ s.toIndex <= t
         /\ s.toIndex <= s.fromIndex + ChunkSize
         /\ (s.fromIndex - f) % ChunkSize = 0
         /\ s.toIndex = t \/ s.toIndex = s.fromIndex + ChunkSize
<1>1. PICK i \in f .. t - 1 : /\ (i - f) % ChunkSize = 0
                              /\ s = [fromIndex |-> i, toIndex |-> Least(i + ChunkSize, t)]
  BY DEF Pieces
<1>2. /\ Least(i + ChunkSize, t) \in 0 .. size /\ i < Least(i + ChunkSize, t)
      /\ Least(i + ChunkSize, t) <= t /\ Least(i + ChunkSize, t) <= i + ChunkSize
      /\ Least(i + ChunkSize, t) \in {t, i + ChunkSize}
  BY Sizes DEF Least
<1>. QED
  BY <1>1, <1>2 DEF Slices

(* No two pieces of a part of a record overlap. *)
LEMMA PiecesApart ==
  ASSUME NEW size \in Nat, NEW f \in 0 .. size, NEW t \in 0 .. size
  PROVE  Apart(Pieces(f, t))
<1>. SUFFICES ASSUME NEW s \in Pieces(f, t), NEW u \in Pieces(f, t),
                     s.fromIndex < u.fromIndex
              PROVE  ~Overlap(s, u) /\ ~Overlap(u, s)
  <2>1. ASSUME NEW s \in Pieces(f, t), NEW u \in Pieces(f, t), s # u
        PROVE  s.fromIndex < u.fromIndex \/ u.fromIndex < s.fromIndex
    <3>1. PICK i \in f .. t - 1 :
            s = [fromIndex |-> i, toIndex |-> Least(i + ChunkSize, t)]
      BY DEF Pieces
    <3>2. PICK j \in f .. t - 1 :
            u = [fromIndex |-> j, toIndex |-> Least(j + ChunkSize, t)]
      BY DEF Pieces
    <3>. QED
      BY <2>1, <3>1, <3>2
  <2>. QED
    BY <2>1 DEF Apart
<1>1. /\ s \in Slices(size) /\ s.toIndex <= s.fromIndex + ChunkSize
      /\ f <= s.fromIndex /\ (s.fromIndex - f) % ChunkSize = 0
      /\ u \in Slices(size)
      /\ f <= u.fromIndex /\ (u.fromIndex - f) % ChunkSize = 0
  BY PiecesLieInside
<1>2. /\ s.fromIndex \in Nat /\ s.toIndex \in Nat /\ u.fromIndex \in Nat /\ u.toIndex \in Nat
  BY <1>1 DEF Slices
<1>3. PICK a \in Nat, b \in Nat : a = s.fromIndex - f /\ b = u.fromIndex - f
  BY <1>1, <1>2
<1>4. a < b /\ a % ChunkSize = 0 /\ b % ChunkSize = 0
  BY <1>1, <1>2, <1>3
<1>5. a + ChunkSize <= b
  BY <1>4, Sizes, MultipleMinus, Zenon
<1>6. s.toIndex <= u.fromIndex
  BY <1>1, <1>2, <1>3, <1>5, Sizes
<1>. QED
  BY <1>2, <1>6 DEF Overlap

(* Every byte of a part of a record is in one of its pieces. *)
LEMMA PiecesCover ==
  ASSUME NEW f \in Nat, NEW t \in Nat, NEW x \in f .. t - 1
  PROVE  \E s \in Pieces(f, t) : Holds(s, x)
<1>0. PICK a \in Nat : a = x - f
  OBVIOUS
<1>. DEFINE k == a \div ChunkSize
            m == k * ChunkSize
            i == f + m
<1>1. k \in Nat /\ a % ChunkSize \in 0 .. ChunkSize - 1 /\ a = m + (a % ChunkSize)
  BY Sizes, DivMod, Zenon
<1>2. m \in Nat /\ m % ChunkSize = 0
  BY <1>1, Sizes, Multiple, Zenon
<1>. HIDE DEF k, m
<1>3. i \in f .. t - 1 /\ i <= x /\ x < i + ChunkSize
  BY <1>0, <1>1, <1>2, Sizes
<1>4. (i - f) % ChunkSize = 0
  BY <1>2
<1>. DEFINE s == [fromIndex |-> i, toIndex |-> Least(i + ChunkSize, t)]
<1>5. s \in Pieces(f, t)
  BY <1>3, <1>4 DEF Pieces
<1>6. Holds(s, x)
  BY <1>3 DEF Holds, Least
<1>. QED
  BY <1>5, <1>6

-----------------------------------------------------------------------------

(* Rest cuts every such part into pieces. *)
LEMMA RestIsGaps ==
  ASSUME NEW done, NEW size
  PROVE  Rest(done, size) = UNION {Pieces(f, Stop(done, size, f)) : f \in Starts(done)}
BY DEF Rest, Starts, Stops, Stop

(* The stop of a part is the least one behind its start. *)
LEMMA StopIsNext ==
  ASSUME NEW size \in Nat, NEW done \in SUBSET Slices(size), NEW f \in Starts(done)
  PROVE  /\ f \in 0 .. size
         /\ Stop(done, size, f) \in Stops(done, size) /\ Stop(done, size, f) \in f .. size
         /\ \A u \in Stops(done, size) : u >= f => Stop(done, size, f) <= u
<1>1. f \in 0 .. size
  BY DEF Starts, Slices
<1>2. Stops(done, size) \subseteq 0 .. size /\ size \in Stops(done, size)
  BY DEF Stops, Slices
<1>. DEFINE T == {t \in Stops(done, size) : t >= f}
<1>3. T \in SUBSET Nat /\ T # {}
  BY <1>1, <1>2
<1>4. \E x \in T : \A y \in T : x <= y
  BY <1>3, LeastOf, Zenon
<1>5. \E t \in Stops(done, size) :
        t >= f /\ \A u \in Stops(done, size) : u >= f => t <= u
  BY <1>4
<1>6. /\ Stop(done, size, f) \in Stops(done, size) /\ Stop(done, size, f) >= f
      /\ \A u \in Stops(done, size) : u >= f => Stop(done, size, f) <= u
  BY <1>5, Zenon DEF Stop
<1>. QED
  BY <1>1, <1>2, <1>6

(* The fields of a slice of a record. *)
LEMMA SliceFields ==
  ASSUME NEW size \in Nat, NEW s \in Slices(size)
  PROVE  /\ s.fromIndex \in 0 .. size /\ s.toIndex \in 0 .. size
         /\ s.fromIndex < s.toIndex
BY DEF Slices

(* A slice in `done' does not reach into such a part. *)
LEMMA PartIsFree ==
  ASSUME NEW size \in Nat, NEW done \in SUBSET Slices(size), Apart(done),
         NEW f \in Starts(done), NEW s \in done
  PROVE  s.toIndex <= f \/ s.fromIndex >= Stop(done, size, f)
<1>. SUFFICES ASSUME s.fromIndex < f, f < s.toIndex PROVE FALSE
  <2>1. f \in 0 .. size /\ Stop(done, size, f) \in f .. size
    BY StopIsNext
  <2>2. s.fromIndex \in Stops(done, size)
    BY DEF Stops
  <2>3. s.fromIndex >= f => Stop(done, size, f) <= s.fromIndex
    BY <2>2, StopIsNext
  <2>. QED
    BY <2>1, <2>3, SliceFields
<1>1. f # 0
  BY SliceFields
<1>2. PICK u \in done : f = u.toIndex
  BY <1>1 DEF Starts
<1>3. u # s
  BY <1>2, SliceFields
<1>4. ~Overlap(s, u)
  BY <1>3 DEF Apart
<1>. QED
  BY <1>2, <1>4, SliceFields DEF Overlap

(* Two such parts are apart. *)
LEMMA PartsInOrder ==
  ASSUME NEW size \in Nat, NEW done \in SUBSET Slices(size), Apart(done),
         NEW f \in Starts(done), NEW g \in Starts(done), f < g
  PROVE  Stop(done, size, f) <= g
<1>1. f \in 0 .. size /\ g \in 0 .. size /\ Stop(done, size, f) \in f .. size
  BY StopIsNext
<1>2. PICK u \in done : g = u.toIndex
  BY <1>1 DEF Starts
<1>3. u.fromIndex >= Stop(done, size, f)
  BY <1>1, <1>2, PartIsFree, SliceFields
<1>. QED
  BY <1>1, <1>2, <1>3, SliceFields

(* Every byte outside the slices is in one of the parts. *)
LEMMA PartsCover ==
  ASSUME NEW size \in Nat, NEW done \in SUBSET Slices(size),
         NEW x \in 0 .. size - 1, \A s \in done : ~Holds(s, x)
  PROVE  \E f \in Starts(done) : x \in f .. Stop(done, size, f) - 1
<1>. DEFINE T == {d \in 0 .. x : x - d \in Starts(done)}
<1>1. T \in SUBSET Nat /\ x \in T
  BY DEF Starts
<1>2. PICK d \in T : \A e \in T : d <= e
  BY <1>1, LeastOf
<1>. DEFINE f == x - d
<1>3. f \in Starts(done) /\ f <= x /\ d \in 0 .. x
  BY <1>2
<1>4. /\ f \in 0 .. size
      /\ Stop(done, size, f) \in Stops(done, size) /\ Stop(done, size, f) \in f .. size
  BY <1>3, StopIsNext
<1>5. ASSUME Stop(done, size, f) <= x PROVE FALSE
  <2>1. PICK s \in done : s.fromIndex = Stop(done, size, f)
    BY <1>4, <1>5 DEF Stops
  <2>2. s.toIndex <= x /\ s.toIndex > f /\ s.toIndex \in Nat
    BY <1>3, <1>4, <1>5, <2>1, SliceFields DEF Holds
  <2>3. x - s.toIndex \in 0 .. x /\ x - (x - s.toIndex) = s.toIndex
    BY <2>2
  <2>4. s.toIndex \in Starts(done)
    BY DEF Starts
  <2>5. x - s.toIndex \in T
    BY <2>3, <2>4
  <2>. QED
    BY <1>2, <1>3, <2>2, <2>5
<1>. QED
  BY <1>3, <1>4, <1>5

(* A piece of the rest is a piece of one of the parts. *)
LEMMA PieceOfRest ==
  ASSUME NEW size \in Nat, NEW done \in SUBSET Slices(size), NEW s \in Rest(done, size)
  PROVE  \E f \in Starts(done) : s \in Pieces(f, Stop(done, size, f))
BY RestIsGaps

(* addPacketToProve cuts a record without loss or overlap: whatever slices *)
(* the hashes took, as long as these are apart, the pieces of the rest and *)
(* these slices are not empty, no two of them overlap, and every byte of   *)
(* the record is in one of them.                                           *)
THEOREM SlicesTile ==
  ASSUME NEW size \in Nat, NEW done \in SUBSET Slices(size), Apart(done)
  PROVE  /\ Rest(done, size) \subseteq Slices(size)
         /\ Apart(done \cup Rest(done, size)) /\ done \cap Rest(done, size) = {}
         /\ \A x \in 0 .. size - 1 :
              \E s \in done \cup Rest(done, size) : Holds(s, x)
<1>1. Rest(done, size) \subseteq Slices(size)
  BY PieceOfRest, StopIsNext, PiecesLieInside
<1>2. ASSUME NEW s \in done, NEW u \in Rest(done, size)
      PROVE  ~Overlap(s, u) /\ ~Overlap(u, s) /\ s # u
  <2>1. PICK f \in Starts(done) : u \in Pieces(f, Stop(done, size, f))
    BY PieceOfRest
  <2>2. f \in 0 .. size /\ Stop(done, size, f) \in 0 .. size
    BY StopIsNext
  <2>3. f <= u.fromIndex /\ u.toIndex <= Stop(done, size, f)
    BY <2>1, <2>2, PiecesLieInside
  <2>4. s.toIndex <= f \/ s.fromIndex >= Stop(done, size, f)
    BY PartIsFree
  <2>5. /\ s.fromIndex \in Nat /\ s.toIndex \in Nat /\ s.fromIndex < s.toIndex
        /\ u.fromIndex \in Nat /\ u.toIndex \in Nat /\ u.fromIndex < u.toIndex
    BY <1>1, SliceFields
  <2>. QED
    BY <2>2, <2>3, <2>4, <2>5 DEF Overlap
<1>3. ASSUME NEW s \in Rest(done, size), NEW u \in Rest(done, size), s # u
      PROVE  ~Overlap(s, u)
  <2>1. PICK f \in Starts(done) : s \in Pieces(f, Stop(done, size, f))
    BY PieceOfRest
  <2>2. PICK g \in Starts(done) : u \in Pieces(g, Stop(done, size, g))
    BY PieceOfRest
  <2>3. /\ f \in 0 .. size /\ Stop(done, size, f) \in 0 .. size
        /\ g \in 0 .. size /\ Stop(done, size, g) \in 0 .. size
    BY StopIsNext
  <2>4. CASE f = g
    BY <1>3, <2>1, <2>2, <2>3, <2>4, PiecesApart DEF Apart
  <2>5. /\ f <= s.fromIndex /\ s.toIndex <= Stop(done, size, f)
        /\ g <= u.fromIndex /\ u.toIndex <= Stop(done, size, g)
    BY <2>1, <2>2, <2>3, PiecesLieInside
  <2>6. /\ f < g => Stop(done, size, f) <= g
        /\ g < f => Stop(done, size, g) <= f
    BY PartsInOrder
  <2>7. /\ s.fromIndex \in Nat /\ s.toIndex \in Nat
        /\ u.fromIndex \in Nat /\ u.toIndex \in Nat
    BY <1>1, SliceFields
  <2>8. CASE f # g
    BY <2>3, <2>5, <2>6, <2>7, <2>8 DEF Overlap
  <2>. QED
    BY <2>4, <2>8
<1>4. Apart(done \cup Rest(done, size)) /\ done \cap Rest(done, size) = {}
  BY <1>2, <1>3 DEF Apart
<1>5. ASSUME NEW x \in 0 .. size - 1, \A s \in done : ~Holds(s, x)
      PROVE  \E s \in Rest(done, size) : Holds(s, x)
  <2>1. PICK f \in Starts(done) : x \in f .. Stop(done, size, f) - 1
    BY <1>5, PartsCover
  <2>2. f \in Nat /\ Stop(done, size, f) \in Nat
    BY StopIsNext
  <2>3. PICK s \in Pieces(f, Stop(done, size, f)) : Holds(s, x)
    BY <2>1, <2>2, PiecesCover
  <2>. QED
    BY <2>3, RestIsGaps
<1>. QED
  BY <1>1, <1>4, <1>5
-----------------------------------------------------------------------------
(* The slices with a hash *)

(* A multiple of the chunk's size is one of the cipher block's. *)
LEMMA MultipleOfBlock ==
  ASSUME NEW k \in Nat
  PROVE  k * ChunkSize \in Nat /\ (k * ChunkSize) % BlockSize = 0
<1>. DEFINE q == ChunkSize \div BlockSize
<1>1. q \in Nat /\ ChunkSize = q * BlockSize
  BY Sizes, DivMod
<1>. HIDE DEF q
<1>2. k * ChunkSize = (k * q) * BlockSize /\ k * q \in Nat
  BY <1>1, Sizes
<1>3. (k * q) * BlockSize \in Nat /\ ((k * q) * BlockSize) % BlockSize = 0
  BY <1>2, Sizes, Multiple, Zenon
<1>. QED
  BY <1>2, <1>3

(* A proof with a hash starts on a block of the cipher, not behind the     *)
(* hashed bytes.                                                           *)
LEMMA OffsetFacts ==
  ASSUME NEW t, t.fromIndex \in Nat, t.length \in Nat
  PROVE  /\ getIdealOffsetForToprfBlock(t) \in 0 .. t.fromIndex
         /\ getIdealOffsetForToprfBlock(t) % BlockSize = 0
<1>. DEFINE c == t.fromIndex \div ChunkSize
            b == t.fromIndex \div BlockSize
<1>1. /\ c \in Nat /\ t.fromIndex % ChunkSize \in 0 .. ChunkSize - 1
      /\ t.fromIndex = c * ChunkSize + (t.fromIndex % ChunkSize)
      /\ b \in Nat /\ t.fromIndex % BlockSize \in 0 .. BlockSize - 1
      /\ t.fromIndex = b * BlockSize + (t.fromIndex % BlockSize)
  BY Sizes, DivMod, Zenon
<1>2. getIdealOffsetForToprfBlock(t) \in {c * ChunkSize, b * BlockSize}
  BY Zenon DEF getIdealOffsetForToprfBlock
<1>. HIDE DEF c, b
<1>3. c * ChunkSize \in Nat /\ (c * ChunkSize) % BlockSize = 0
  BY <1>1, MultipleOfBlock
<1>4. b * BlockSize \in Nat /\ (b * BlockSize) % BlockSize = 0
  BY <1>1, Sizes, Multiple, Zenon
<1>5. PICK m \in Nat, n \in Nat : m = c * ChunkSize /\ n = b * BlockSize
  BY <1>3, <1>4
<1>6. m \in 0 .. t.fromIndex /\ n \in 0 .. t.fromIndex
  BY <1>1, <1>5, Sizes
<1>. QED
  BY <1>2, <1>3, <1>4, <1>5, <1>6

(* The slices with a hash that addPacketToProve accepts lie in the record,  *)
(* apart.                                                                   *)
LEMMA ToprfSlices ==
  ASSUME NEW size \in Nat, NEW ts, Placed(ts), ~CannotProve(ts, size)
  PROVE  /\ Done(ts, size) \in SUBSET Slices(size) /\ Apart(Done(ts, size))
         /\ \A i, j \in DOMAIN ts : i # j => ToprfSlice(ts[i], size) # ToprfSlice(ts[j], size)
<1>1. ASSUME NEW i \in DOMAIN ts PROVE ToprfSlice(ts[i], size) \in Slices(size)
  <2>1. ts[i].fromIndex \in Nat /\ ts[i].length \in Nat \ {0}
    BY DEF Placed
  <2>2. ts[i].fromIndex + ts[i].length <= size
    BY <2>1 DEF CannotProve
  <2>3. getIdealOffsetForToprfBlock(ts[i]) \in 0 .. ts[i].fromIndex
    BY <2>1, OffsetFacts
  <2>. QED
    BY <2>1, <2>2, <2>3, Sizes DEF ToprfSlice, Slices, Least
<1>2. ASSUME NEW i \in DOMAIN ts, NEW j \in DOMAIN ts, i # j
      PROVE  ~Overlap(ToprfSlice(ts[i], size), ToprfSlice(ts[j], size))
  BY <1>2 DEF CannotProve
<1>3. Done(ts, size) \in SUBSET Slices(size) /\ Apart(Done(ts, size))
  BY <1>1, <1>2 DEF Done, Apart
<1>4. ASSUME NEW s \in Slices(size) PROVE Overlap(s, s)
  BY <1>4, SliceFields DEF Overlap
<1>. QED
  BY <1>1, <1>2, <1>3, <1>4

-----------------------------------------------------------------------------
(* The proofs of a record *)

(* generateProofs leaves out the fully redacted slices, and nothing else. *)
LEMMA ProofsAreOfAll ==
  ASSUME NEW text, NEW ts
  PROVE  Proofs(text, ts) = {p \in All(text, ts) : ~FullyRedacted(p.redacted)}
BY DEF Proofs, All, Done

(* There is a proof for every slice and a slice for every proof. *)
LEMMA ProofsOfSlices ==
  ASSUME NEW text, NEW ts
  PROVE  LET S == Done(ts, Len(text)) \cup Rest(Done(ts, Len(text)), Len(text)) IN
         /\ \A p \in All(text, ts) : \E s \in S : OfSlice(text, p, s)
         /\ \A s \in S : \E p \in All(text, ts) : OfSlice(text, p, s)
<1>1. ASSUME NEW i \in DOMAIN ts
      PROVE  OfSlice(text, ToprfProof(text, ts[i]), ToprfSlice(ts[i], Len(text)))
  BY DEF OfSlice, ToprfProof, Proof
<1>2. ASSUME NEW s PROVE OfSlice(text, Proof(text, s, NoToprf), s)
  BY DEF OfSlice, Proof
<1>. QED
  BY <1>1, <1>2 DEF All, Done

(* The byte of a record at place i, in a proof of a slice that holds it. *)
LEMMA ByteOfProof ==
  ASSUME NEW C, NEW text \in Seq(C), NEW s \in Slices(Len(text)), NEW p,
         OfSlice(text, p, s), NEW i \in 1 .. Len(text), p.fromIndex < i, i <= p.toIndex
  PROVE  i - p.fromIndex \in DOMAIN p.redacted /\ p.redacted[i - p.fromIndex] = text[i]
<1>1. s.fromIndex \in Nat /\ s.toIndex \in Nat /\ s.toIndex <= Len(text)
  BY SliceFields
<1>2. /\ DOMAIN SubSeq(text, s.fromIndex + 1, s.toIndex) = 1 .. s.toIndex - s.fromIndex
      /\ \A k \in 1 .. s.toIndex - s.fromIndex :
            SubSeq(text, s.fromIndex + 1, s.toIndex)[k] = text[s.fromIndex + k]
  BY <1>1, SMTT(40)
<1>3. i - s.fromIndex \in 1 .. s.toIndex - s.fromIndex /\ s.fromIndex + (i - s.fromIndex) = i
  BY <1>1 DEF OfSlice
<1>. QED
  BY <1>2, <1>3 DEF OfSlice

(* verifyZkPacket puts together what the client redacted: for every cipher *)
(* and size of a chunk, any record and any hashes addPacketToProve accepts *)
(* in it, the attestor's text of the record is the client's, byte by byte, *)
(* and with it the asterisks of slices that have no proof.                 *)
THEOREM AttestorSeesRecord ==
  ASSUME NEW C, NEW text \in Seq(C), NEW ts, Placed(ts), ~CannotProve(ts, Len(text)),
         NEW size \in 0 .. Len(text)
  PROVE  Decrypted(Proofs(text, ts), size) = [i \in 1 .. size |-> text[i]]
<1>. DEFINE done == Done(ts, Len(text))
            S == done \cup Rest(done, Len(text))
<1>0. Len(text) \in Nat
  OBVIOUS
<1>1. /\ S \subseteq Slices(Len(text))
      /\ \A x \in 0 .. Len(text) - 1 : \E s \in S : Holds(s, x)
  BY <1>0, ToprfSlices, SlicesTile
<1>2. /\ \A p \in All(text, ts) : \E s \in S : OfSlice(text, p, s)
      /\ \A s \in S : \E p \in All(text, ts) : OfSlice(text, p, s)
  BY ProofsOfSlices
<1>. HIDE DEF S, done
<1>. SUFFICES ASSUME NEW i \in 1 .. size
              PROVE  LET ps == {p \in Proofs(text, ts) : p.fromIndex < i /\ i <= p.toIndex}
                     IN  (IF ps = {} THEN Star
                          ELSE LET p == CHOOSE x \in ps : TRUE
                               IN  p.redacted[i - p.fromIndex]) = text[i]
  BY DEF Decrypted
<1>. DEFINE ps == {p \in Proofs(text, ts) : p.fromIndex < i /\ i <= p.toIndex}
<1>3. i \in 1 .. Len(text) /\ i - 1 \in 0 .. Len(text) - 1
  BY <1>0
<1>4. ASSUME NEW p \in All(text, ts), p.fromIndex < i, i <= p.toIndex
      PROVE  /\ i - p.fromIndex \in DOMAIN p.redacted
             /\ p.redacted[i - p.fromIndex] = text[i]
  <2>1. PICK s \in Slices(Len(text)) : OfSlice(text, p, s)
    BY <1>1, <1>2
  <2>. QED
    BY <1>3, <1>4, <2>1, ByteOfProof
<1>5. CASE ps = {}
  <2>1. PICK s \in S : Holds(s, i - 1)
    BY <1>1, <1>3
  <2>2. PICK p \in All(text, ts) : OfSlice(text, p, s)
    BY <1>2
  <2>3. s.fromIndex \in Nat /\ s.toIndex \in Nat
    BY <1>0, <1>1, SliceFields
  <2>4. p.fromIndex < i /\ i <= p.toIndex
    BY <1>3, <2>1, <2>2, <2>3 DEF Holds, OfSlice
  <2>5. FullyRedacted(p.redacted)
    BY <1>5, <2>4, ProofsAreOfAll
  <2>6. text[i] = Star
    BY <1>4, <2>4, <2>5 DEF FullyRedacted
  <2>. QED
    BY <1>5, <2>6
<1>6. CASE ps # {}
  <2>1. (CHOOSE x \in ps : TRUE) \in ps
    BY <1>6
  <2>2. \A p \in ps : p.redacted[i - p.fromIndex] = text[i]
    BY <1>4, ProofsAreOfAll
  <2>. QED
    BY <1>6, <2>1, <2>2
<1>. QED
  BY <1>5, <1>6

(* The proofs of a record may be verified in any order (Promise.all in     *)
(* verifyZkPacket): no two of them write to the same byte.                 *)
THEOREM ProofsApart ==
  ASSUME NEW C, NEW text \in Seq(C), NEW ts, Placed(ts), ~CannotProve(ts, Len(text)),
         NEW p \in Proofs(text, ts), NEW q \in Proofs(text, ts), p # q
  PROVE  ~Overlap(p, q)
<1>. DEFINE done == Done(ts, Len(text))
            S == done \cup Rest(done, Len(text))
<1>0. Len(text) \in Nat
  OBVIOUS
<1>1. Apart(S) /\ done \cap Rest(done, Len(text)) = {}
  BY <1>0, ToprfSlices, SlicesTile
<1>2. p \in All(text, ts) /\ q \in All(text, ts)
  BY ProofsAreOfAll
<1>3. \A i \in DOMAIN ts : ToprfSlice(ts[i], Len(text)) \in done
  BY DEF Done
<1>4. ASSUME NEW s \in S, NEW u \in S, s # u, OfSlice(text, p, s), OfSlice(text, q, u)
      PROVE  ~Overlap(p, q)
  BY <1>1, <1>4 DEF Apart, OfSlice, Overlap
<1>5. ASSUME NEW i \in DOMAIN ts
      PROVE  OfSlice(text, ToprfProof(text, ts[i]), ToprfSlice(ts[i], Len(text)))
  BY DEF OfSlice, ToprfProof, Proof
<1>6. ASSUME NEW s PROVE OfSlice(text, Proof(text, s, NoToprf), s)
  BY DEF OfSlice, Proof
<1>. HIDE DEF S
<1>7. done \subseteq S /\ Rest(done, Len(text)) \subseteq S
  BY DEF S
<1>8. CASE /\ p \in {ToprfProof(text, ts[i]) : i \in DOMAIN ts}
           /\ q \in {ToprfProof(text, ts[i]) : i \in DOMAIN ts}
  <2>1. PICK i \in DOMAIN ts, j \in DOMAIN ts :
          p = ToprfProof(text, ts[i]) /\ q = ToprfProof(text, ts[j])
    BY <1>8
  <2>2. ToprfSlice(ts[i], Len(text)) # ToprfSlice(ts[j], Len(text))
    BY <1>0, <2>1, ToprfSlices
  <2>. QED
    BY <1>3, <1>4, <1>5, <1>7, <2>1, <2>2
<1>9. ASSUME p \notin {ToprfProof(text, ts[i]) : i \in DOMAIN ts}
             \/ q \notin {ToprfProof(text, ts[i]) : i \in DOMAIN ts}
      PROVE  \E s \in S, u \in S : s # u /\ OfSlice(text, p, s) /\ OfSlice(text, q, u)
  <2>1. ASSUME NEW x \in All(text, ts)
        PROVE  \/ \E i \in DOMAIN ts : x = ToprfProof(text, ts[i])
               \/ \E s \in Rest(done, Len(text)) : x = Proof(text, s, NoToprf)
    BY DEF All
  <2>2. CASE \E s \in Rest(done, Len(text)) : p = Proof(text, s, NoToprf)
    BY <1>1, <1>2, <1>3, <1>5, <1>6, <1>7, <2>1, <2>2
  <2>3. CASE \E s \in Rest(done, Len(text)) : q = Proof(text, s, NoToprf)
    BY <1>1, <1>2, <1>3, <1>5, <1>6, <1>7, <2>1, <2>3
  <2>. QED
    BY <1>2, <1>9, <2>1, <2>2, <2>3
<1>. QED
  BY <1>4, <1>8, <1>9

-----------------------------------------------------------------------------
(* What the circuit asks for *)

(* The sum of two multiples is a multiple. *)
LEMMA AlignedSum ==
  ASSUME NEW a \in Nat, NEW b \in Nat, NEW c \in Nat \ {0}, a % c = 0, b % c = 0
  PROVE  (a + b) % c = 0
<1>1. a = (a \div c) * c /\ b = (b \div c) * c /\ a \div c \in Nat /\ b \div c \in Nat
  BY DivMod
<1>2. a + b = (a \div c + b \div c) * c /\ a \div c + b \div c \in Nat
  BY <1>1
<1>3. ((a \div c + b \div c) * c) % c = 0
  BY <1>2, Multiple, Zenon
<1>. QED
  BY <1>2, <1>3

(* All pieces start on a block of the cipher: a chunk is made of blocks,   *)
(* and a slice with a hash ends a chunk after the block it starts on, or   *)
(* at the end of the record.                                               *)
LEMMA RestOnBlocks ==
  ASSUME NEW size \in Nat, NEW ts, Placed(ts), ~CannotProve(ts, size),
         NEW s \in Rest(Done(ts, size), size)
  PROVE  s.fromIndex % BlockSize = 0
<1>. DEFINE done == Done(ts, size)
<1>1. done \in SUBSET Slices(size)
  BY ToprfSlices
<1>2. PICK f \in Starts(done) : s \in Pieces(f, Stop(done, size, f))
  BY <1>1, PieceOfRest
<1>3. f \in 0 .. size /\ Stop(done, size, f) \in 0 .. size
  BY <1>1, StopIsNext
<1>4. /\ s \in Slices(size) /\ f <= s.fromIndex /\ s.toIndex <= Stop(done, size, f)
      /\ (s.fromIndex - f) % ChunkSize = 0
  BY <1>2, <1>3, PiecesLieInside
<1>5. s.fromIndex \in Nat /\ f < size
  BY <1>3, <1>4, SliceFields
<1>6. f % BlockSize = 0
  <2>1. CASE f = 0
    BY <2>1, Sizes
  <2>2. CASE f # 0
    <3>1. PICK i \in DOMAIN ts : f = ToprfSlice(ts[i], size).toIndex
      BY <2>2 DEF Starts, Done
    <3>. DEFINE o == getIdealOffsetForToprfBlock(ts[i])
    <3>2. o \in Nat /\ o % BlockSize = 0
      BY OffsetFacts DEF Placed
    <3>. HIDE DEF o
    <3>3. f = Least(o + ChunkSize, size)
      BY <3>1 DEF ToprfSlice, o
    <3>4. f = o + ChunkSize
      BY <1>5, <3>2, <3>3, Sizes DEF Least
    <3>. QED
      BY <3>2, <3>4, Sizes, AlignedSum
  <2>. QED
    BY <2>1, <2>2
<1>7. PICK a \in Nat : a = s.fromIndex - f
  BY <1>3, <1>4, <1>5
<1>8. a % BlockSize = 0
  <2>1. a % ChunkSize = 0
    BY <1>4, <1>7
  <2>. DEFINE k == a \div ChunkSize
              m == k * ChunkSize
  <2>2. k \in Nat /\ a = m + (a % ChunkSize)
    BY Sizes, DivMod, Zenon
  <2>3. m \in Nat /\ m % BlockSize = 0
    BY <2>2, MultipleOfBlock, Zenon
  <2>. HIDE DEF m
  <2>. QED
    BY <2>1, <2>2, <2>3
<1>9. s.fromIndex = f + a /\ f \in Nat
  BY <1>3, <1>5, <1>7
<1>10. (f + a) % BlockSize = 0
  BY <1>6, <1>8, <1>9, Sizes, AlignedSum, Zenon
<1>. QED
  BY <1>9, <1>10

(* Hashed bytes that fit into a chunk lie inside the slice made for them. *)
LEMMA HashInSlice ==
  ASSUME NEW size \in Nat, NEW t, t.fromIndex \in Nat, t.length \in Nat \ {0},
         t.fromIndex + t.length <= size, Fits(t)
  PROVE  t.fromIndex + t.length <= ToprfSlice(t, size).toIndex
<1>. DEFINE o == getIdealOffsetForToprfBlock(t)
            e == t.fromIndex + t.length
<1>1. o \in Nat
  BY OffsetFacts
<1>2. e <= o + ChunkSize
  <2>. DEFINE c == t.fromIndex \div ChunkSize
              b == t.fromIndex \div BlockSize
  <2>1. CASE c = e \div ChunkSize
    <3>0. e \in Nat
      OBVIOUS
    <3>1. /\ e % ChunkSize \in 0 .. ChunkSize - 1
          /\ e = (e \div ChunkSize) * ChunkSize + (e % ChunkSize)
      BY <3>0, Sizes, DivMod, Zenon
    <3>2. o = c * ChunkSize
      BY <2>1 DEF getIdealOffsetForToprfBlock
    <3>3. e = o + (e % ChunkSize)
      BY <2>1, <3>1, <3>2, Zenon
    <3>. HIDE DEF c, o
    <3>. QED
      BY <1>1, <3>1, <3>3, Sizes
  <2>2. CASE c # e \div ChunkSize
    <3>1. /\ t.fromIndex % BlockSize \in 0 .. BlockSize - 1
          /\ t.fromIndex = b * BlockSize + (t.fromIndex % BlockSize)
      BY Sizes, DivMod, Zenon
    <3>2. o = b * BlockSize
      BY <2>2 DEF getIdealOffsetForToprfBlock
    <3>. HIDE DEF b, o
    <3>. QED
      BY <1>1, <3>1, <3>2, Sizes DEF Fits
  <2>. QED
    BY <2>1, <2>2
<1>. QED
  BY <1>1, <1>2, Sizes DEF ToprfSlice, Least

(* addPacketToProve asks for no proof the circuit refuses, as long as      *)
(* hashed bytes fit into a chunk that starts on their cipher block: every  *)
(* proof starts on a block of the cipher and has its hashed bytes inside.  *)
(* That condition is the one getIdealOffsetForToprfBlock means to check    *)
(* and does not, as it takes a count of blocks for one of bytes.           *)
THEOREM ProofsAreProvable ==
  ASSUME NEW C, NEW text \in Seq(C), NEW ts, Placed(ts), ~CannotProve(ts, Len(text)),
         NEW start \in Nat,
         \A i \in DOMAIN ts : Fits(ts[i]) /\ ts[i].text = start + ts[i].fromIndex,
         NEW p \in Proofs(text, ts)
  PROVE  Provable(start, p)
<1>0. Len(text) \in Nat
  OBVIOUS
<1>1. p \in All(text, ts)
  BY ProofsAreOfAll
<1>2. ASSUME NEW i \in DOMAIN ts, p = ToprfProof(text, ts[i]) PROVE Provable(start, p)
  <2>. DEFINE t == ts[i]
              o == getIdealOffsetForToprfBlock(t)
              to == ToprfSlice(t, Len(text)).toIndex
  <2>1. t.fromIndex \in Nat /\ t.length \in Nat \ {0}
    BY DEF Placed
  <2>2. t.fromIndex + t.length <= Len(text)
    BY <2>1 DEF CannotProve
  <2>3. o \in 0 .. t.fromIndex /\ o % BlockSize = 0
    BY <2>1, OffsetFacts
  <2>4. t.fromIndex + t.length <= to
    BY <1>0, <2>1, <2>2, HashInSlice
  <2>5. ToprfSlice(t, Len(text)) \in Slices(Len(text))
    BY <1>0, ToprfSlices DEF Done
  <2>6. to \in Nat
    BY <1>0, <2>5, SliceFields
  <2>7. /\ p.fromIndex = o /\ p.toIndex = to
        /\ p.toprf = [pos |-> t.fromIndex - o, length |-> t.length, text |-> t.text]
    BY <1>2 DEF ToprfProof, Proof, ToprfSlice
  <2>. HIDE DEF o, to
  <2>8. (t.fromIndex - o) + t.length <= to - o /\ start + o + (t.fromIndex - o) = t.text
    BY <2>1, <2>3, <2>4, <2>6
  <2>. QED
    BY <2>3, <2>7, <2>8 DEF Provable
<1>3. ASSUME NEW s \in Rest(Done(ts, Len(text)), Len(text)), p = Proof(text, s, NoToprf)
      PROVE  Provable(start, p)
  BY <1>0, <1>3, RestOnBlocks DEF Provable, Proof
<1>. QED
  BY <1>1, <1>2, <1>3 DEF All

-----------------------------------------------------------------------------
(* The result of parseHttpResponse, when it does not throw and has a body. *)

(* streamEnded in the body returns what was read. *)
LEMMA EndedInBody ==
  ASSUME NEW r, NEW R, NEW c, NEW start, NEW body, NEW chunks, NEW cm, NEW left, NEW x,
         EndsInBody(x, r, R, c, start, body, chunks, cm, left)
  PROVE  EndsWell(x, r, start, body, chunks)
<1>1. /\ IsParser(x) /\ x.statusCode = r.status /\ x.statusLineEndIndex = 1
      /\ x.headerIndices = IndicesAt(r, NL(r)) /\ x.headerEndIdx = H(r) - 4 /\ x.body = body
      /\ x.bodyStartIndex = start /\ x.chunks = chunks /\ x.threw = FALSE
  BY Zenon DEF IsInBody, EndsInBody
<1>. DEFINE e == [x EXCEPT !.complete = TRUE]
<1>2. x.remaining = <<>> /\ ~(x.remainingBodyBytes > 0) /\ streamEnded(x) = e
  BY <1>1, EndedFields DEF EndsInBody
<1>3. /\ e.statusCode = x.statusCode /\ e.statusLineEndIndex = x.statusLineEndIndex
      /\ e.headerIndices = x.headerIndices /\ e.headerEndIdx = x.headerEndIdx /\ e.body = x.body
      /\ e.bodyStartIndex = x.bodyStartIndex /\ e.chunks = x.chunks /\ e.threw = x.threw
  BY <1>1, SetFields DEF Fields
<1>. HIDE DEF e
<1>. QED BY <1>1, <1>2, <1>3 DEF GoodHeader, EndsWell

(* A result of parseHttpResponse that did not throw and has a body is a     *)
(* good one.                                                                *)
LEMMA GoodParse ==
  ASSUME NEW r \in Responses, NEW R \in 0 .. Len(Stream(r)), NEW x, Settled(x, r, R),
         NEW e, e = streamEnded(x), ~e.threw, e.bodyStartIndex # None
  PROVE  \E N \in 0 .. M(r) : Good(e, r, R, N)
<1>. DEFINE L == Len(Stream(r))
<1>0. /\ L \in Nat /\ r.size \in Nat /\ H(r) \in Nat /\ r.framing \in Framings
      /\ M(r) \in Nat
      /\ L = H(r) + (IF r.framing = "chunked" THEN r.size + 5 * M(r) + 5 ELSE r.size)
  BY StreamFacts, ResponseFacts, LineKinds, ResponseCuts DEF M
<1>. HIDE DEF L
<1>a. ~streamEnded(x).threw
  OBVIOUS
<1>b. ASSUME NEW c, NEW start, NEW body, NEW chunks, NEW cm, NEW left,
             IsInBody(x, r, R, c, start, body, chunks, cm, left)
      PROVE  /\ x.remaining = <<>> /\ ~(x.remainingBodyBytes > 0)
             /\ GoodHeader(e, r) /\ e.chunks = chunks
             /\ e.bodyStartIndex = start /\ e.body = body
  <2>1. EndsInBody(x, r, R, c, start, body, chunks, cm, left)
    BY <1>a, <1>b DEF EndsInBody
  <2>2. EndsWell(x, r, start, body, chunks)
    BY <2>1, EndedInBody
  <2>. QED BY <2>2 DEF EndsWell
<1>1. x.headersComplete
  BY SettledFields, EndedFields
<1>2. ASSUME NEW c \in 0 .. R, x.remaining = Left(r, R, c), x.remaining = <<>>
      PROVE  c = R
  <2>1. Len(Left(r, R, c)) = R - c
    BY LeftFacts
  <2>. QED BY <1>0, <1>2, <2>1 DEF L
<1>3. CASE InHeader(x, r, R)
  <2>1. PICK k \in LinesIn(r, R) : x = AtLine(r, R, k)
    BY <1>3 DEF InHeader
  <2>2. x.headersComplete = FALSE
    BY <2>1 DEF AtLine
  <2>. QED BY <1>1, <2>2
<1>4. CASE H(r) <= R /\ r.framing # "chunked" /\ IsPlain(x, r, R)
  <2>1. /\ GoodHeader(e, r) /\ e.chunks = None
        /\ e.bodyStartIndex = PlainStart(r) /\ e.body = SubSeq(Written(r), 1, R - H(r))
    BY <1>4, <1>b DEF IsPlain
  <2>2. PlainStart(r) = H(r)
    BY <2>1 DEF PlainStart
  <2>3. R \in H(r) .. H(r) + r.size
    BY <1>0, <1>4 DEF L
  <2>. QED BY <1>0, <1>4, <2>1, <2>2, <2>3 DEF Good, GoodPlain
<1>5. CASE r.framing = "chunked" /\ Stuck(x, r, R)
  <2>0. ASSUME NEW i \in 1 .. M(r) + 1, StartIn(r, i) # None
        PROVE  /\ StartIn(r, i) = H(r) + 3 /\ M(r) \in 1 .. M(r)
               /\ ChunksUpTo(r, i) = ReadChunksOf(r, IF i <= M(r) THEN i ELSE M(r))
    BY <1>0, <2>0, SMTT(40) DEF StartIn, ChunksUpTo, ReadChunksOf
  <2>1. ASSUME NEW i \in DataIdx(r, R), x = InChunk(r, R, i)
        PROVE  \E N \in 0 .. M(r) : Good(e, r, R, N)
    <3>. DEFINE b == BodyBefore(r, i) + (Reach(r, R, i) - DataAt(r, i))
    <3>0. /\ i \in 1 .. M(r) + 1 /\ DataAt(r, i) <= R /\ Reach(r, R, i) \in 0 .. R
          /\ Reach(r, R, i) <= DataEnd(r, i)
      BY <1>5, ReachFacts
    <3>1. IsInBody(x, r, R, Reach(r, R, i), StartIn(r, i), SubSeq(Written(r), 1, b),
                   ChunksUpTo(r, i), LastChunk(r, i), DataEnd(r, i) - Reach(r, R, i))
      BY <2>1, InBodyFields DEF InChunk, DataState
    <3>. HIDE DEF b
    <3>2. /\ GoodHeader(e, r) /\ e.chunks = ChunksUpTo(r, i) /\ e.bodyStartIndex = StartIn(r, i)
          /\ e.body = SubSeq(Written(r), 1, b)
          /\ x.remaining = <<>> /\ ~(x.remainingBodyBytes > 0)
      BY <3>1, <1>b
    <3>3. x.remaining = Left(r, R, Reach(r, R, i)) /\ x.remainingBodyBytes = DataEnd(r, i) - Reach(r, R, i)
      BY <2>1 DEF InChunk, DataState, InBody
    <3>4. Reach(r, R, i) = R
      BY <1>2, <3>0, <3>2, <3>3
    <3>5. /\ DataEnd(r, i) \in Nat /\ DataAt(r, i) \in Nat /\ BodyBefore(r, i) \in Nat
          /\ BodyUpTo(r, i) \in Nat
          /\ DataEnd(r, i) - DataAt(r, i) = BodyUpTo(r, i) - BodyBefore(r, i)
      BY <1>5, <3>0, ChunkNumbers
    <3>6. R = DataEnd(r, i)
      BY <1>0, <3>0, <3>2, <3>3, <3>4, <3>5 DEF L
    <3>7. b = BodyUpTo(r, i)
      BY <3>4, <3>5, <3>6 DEF b
    <3>8. /\ StartIn(r, i) = H(r) + 3 /\ M(r) \in 1 .. M(r)
          /\ ChunksUpTo(r, i) = ReadChunksOf(r, IF i <= M(r) THEN i ELSE M(r))
      BY <2>0, <3>0, <3>2
    <3>9. CASE i <= M(r)
      <4>1. i \in 1 .. M(r) /\ i \in 0 .. M(r) /\ DataEnd(r, i) <= R
        BY <1>0, <3>0, <3>5, <3>6, <3>9
      <4>2. GoodChunked(e, r, R, i)
        BY <3>2, <3>7, <3>8, <3>9, <4>1 DEF GoodChunked
      <4>. QED BY <1>5, <3>2, <4>1, <4>2 DEF Good
    <3>10. CASE i = M(r) + 1
      <4>. DEFINE n == M(r)
      <4>1. n \in 1 .. M(r) /\ n \in 0 .. M(r) /\ ~(i <= M(r)) /\ n \in 1 .. M(r) + 1
            /\ n + 1 = i
        BY <1>0, <3>8, <3>10
      <4>2. BodyUpTo(r, n) = BodyUpTo(r, i)
        BY <1>5, <3>10, <4>1, ChunkBounds, SMTT(40) DEF M
      <4>3. DataEnd(r, n) <= R
        <5>1. DataAt(r, i) = DataEnd(r, n) + 2 + 3 /\ DataEnd(r, n) \in Nat
          <6>1. i - 1 = n /\ n # 0
            BY <1>0, <3>10, <4>1
          <6>2. DataAt(r, i) = BehindAt(r, i - 1) + 3
            BY <1>5, <3>0, ChunkNumbers
          <6>3. DataEnd(r, n) \in Nat
            BY <1>5, <4>1, ChunkNumbers
          <6>. QED BY <6>1, <6>2, <6>3 DEF BehindAt
        <5>. QED BY <1>0, <3>0, <3>5, <5>1, SMTT(40) DEF L
      <4>4. GoodChunked(e, r, R, n)
        BY <3>2, <3>7, <3>8, <4>1, <4>2, <4>3 DEF GoodChunked
      <4>. QED BY <1>5, <3>2, <4>1, <4>4 DEF Good
    <3>. QED BY <1>0, <3>0, <3>9, <3>10, SMTT(40)
  <2>2. ASSUME NEW i \in BehindIdx(r, R), x = BehindState(r, R, i)
        PROVE  \E N \in 0 .. M(r) : Good(e, r, R, N)
    <3>0. i \in 0 .. M(r) + 1 /\ BehindAt(r, i) \in 0 .. R
      BY <1>5, ChunkedBodies DEF BehindIdx
    <3>1. IsInBody(x, r, R, BehindAt(r, i), StartIn(r, i), SubSeq(Written(r), 1, BehindBody(r, i)),
                   ChunksUpTo(r, i), LastChunk(r, i), 0)
      BY <2>2, InBodyFields DEF BehindState
    <3>2. /\ GoodHeader(e, r) /\ e.chunks = ChunksUpTo(r, i) /\ e.bodyStartIndex = StartIn(r, i)
          /\ e.body = SubSeq(Written(r), 1, BehindBody(r, i))
      BY <3>1, <1>b
    <3>3. i # 0 /\ i \in 1 .. M(r) + 1
      BY <1>0, <3>0, <3>2 DEF StartIn
    <3>4. BehindBody(r, i) = BodyUpTo(r, i) /\ BehindAt(r, i) = DataEnd(r, i) + 2 /\ DataEnd(r, i) \in Nat
      BY <1>5, <3>3, ChunkNumbers DEF BehindBody, BehindAt
    <3>8. /\ StartIn(r, i) = H(r) + 3 /\ M(r) \in 1 .. M(r)
          /\ ChunksUpTo(r, i) = ReadChunksOf(r, IF i <= M(r) THEN i ELSE M(r))
      BY <2>0, <3>2, <3>3
    <3>9. CASE i <= M(r)
      <4>1. i \in 1 .. M(r) /\ i \in 0 .. M(r) /\ DataEnd(r, i) <= R
        BY <1>0, <3>0, <3>3, <3>4, <3>9 DEF L
      <4>2. GoodChunked(e, r, R, i)
        BY <3>2, <3>4, <3>8, <3>9, <4>1 DEF GoodChunked
      <4>. QED BY <1>5, <3>2, <4>1, <4>2 DEF Good
    <3>10. CASE i = M(r) + 1
      <4>. DEFINE n == M(r)
      <4>1. n \in 1 .. M(r) /\ n \in 0 .. M(r) /\ ~(i <= M(r)) /\ n \in 1 .. M(r) + 1
            /\ n + 1 = i
        BY <1>0, <3>8, <3>10
      <4>2. BodyUpTo(r, n) = BodyUpTo(r, i)
        BY <1>5, <3>10, <4>1, ChunkBounds, SMTT(40) DEF M
      <4>3. DataEnd(r, n) <= R
        <5>1. DataAt(r, i) = DataEnd(r, n) + 2 + 3 /\ DataEnd(r, n) \in Nat
              /\ DataAt(r, i) <= DataEnd(r, i) /\ DataAt(r, i) \in Nat
          <6>1. i - 1 = n /\ n # 0
            BY <1>0, <3>10, <4>1
          <6>2. /\ DataAt(r, i) = BehindAt(r, i - 1) + 3
                /\ DataAt(r, i) <= DataEnd(r, i) /\ DataAt(r, i) \in Nat
            BY <1>5, <3>3, ChunkNumbers
          <6>3. DataEnd(r, n) \in Nat
            BY <1>5, <4>1, ChunkNumbers
          <6>. QED BY <6>1, <6>2, <6>3 DEF BehindAt
        <5>. QED BY <1>0, <3>0, <3>4, <5>1 DEF L
      <4>4. GoodChunked(e, r, R, n)
        BY <3>2, <3>4, <3>8, <4>1, <4>2, <4>3 DEF GoodChunked
      <4>. QED BY <1>5, <3>2, <4>1, <4>4 DEF Good
    <3>. QED BY <1>0, <3>3, <3>9, <3>10
  <2>3. \/ \E i \in DataIdx(r, R) : x = InChunk(r, R, i)
        \/ \E i \in BehindIdx(r, R) : x = BehindState(r, R, i)
    BY <1>5 DEF Stuck, StuckInChunk, StuckBehind
  <2>. QED BY <2>1, <2>2, <2>3
<1>. QED BY <1>3, <1>4, <1>5 DEF Settled

-----------------------------------------------------------------------------
(* The chunks in the order of the stream. *)

(* Between the data of two chunks lie at least the five bytes of a line end *)
(* and a size line.                                                         *)
LEMMA ChunkOrder ==
  ASSUME NEW r \in Responses, r.framing = "chunked", NEW c \in 1 .. M(r), NEW d \in 1 .. M(r) + 1
  PROVE  /\ c < d => DataEnd(r, c) + 5 <= DataAt(r, d) /\ BodyUpTo(r, c) <= BodyBefore(r, d)
         /\ DataAt(r, d) = H(r) + 3 + BodyBefore(r, d) + 5 * (d - 1)
         /\ DataEnd(r, d) = H(r) + 3 + BodyUpTo(r, d) + 5 * (d - 1)
         /\ d = c + 1 => DataEnd(r, c) + 5 = DataAt(r, d) /\ BodyUpTo(r, c) = BodyBefore(r, d)
<1>0. M(r) \in Nat /\ H(r) \in Nat /\ c \in 1 .. M(r) + 1 /\ c \in Nat /\ d \in Nat
  BY ResponseCuts, LineKinds DEF M
<1>1. /\ BodyBefore(r, c) \in Nat /\ BodyUpTo(r, c) \in Nat
      /\ BodyBefore(r, d) \in Nat /\ BodyUpTo(r, d) \in Nat
  BY <1>0, ChunkNumbers
<1>2. PICK h, u, v, u2, v2 \in Nat :
        /\ h = H(r) /\ u = BodyBefore(r, c) /\ v = BodyUpTo(r, c)
        /\ u2 = BodyBefore(r, d) /\ v2 = BodyUpTo(r, d)
  BY <1>0, <1>1
<1>3. /\ DataAt(r, d) = h + 3 + u2 + 5 * (d - 1)
      /\ DataEnd(r, d) = h + 3 + v2 + 5 * (d - 1)
      /\ DataEnd(r, c) = h + 3 + v + 5 * (c - 1)
  <2>1. /\ DataAt(r, d) = (h + (u2 + 5 * (d - 1))) + 3
        /\ DataEnd(r, d) = (h + (u2 + 5 * (d - 1))) + 3 + v2 - u2
        /\ DataEnd(r, c) = (h + (u + 5 * (c - 1))) + 3 + v - u
    BY <1>2 DEF DataAt, DataEnd, SizeAt, ChunksBefore
  <2>. QED BY <1>0, <2>1
<1>4. c < d => v <= u2
  <2>1. c < d => c \in 1 .. d - 1
    BY <1>0
  <2>2. d \in 1 .. Len(r.ends) + 1
    BY DEF M
  <2>. QED BY <1>2, <2>1, <2>2, ChunkBounds
<1>5. d = c + 1 => v = u2
  <2>1. c \in 1 .. Len(r.ends) + 1 /\ c <= Len(r.ends)
    BY <1>0 DEF M
  <2>. QED BY <1>2, <2>1, ChunkBounds
<1>6. c < d => (h + 3 + v + 5 * (c - 1)) + 5 <= h + 3 + u2 + 5 * (d - 1)
  BY <1>0, <1>4
<1>7. d = c + 1 => (h + 3 + v + 5 * (c - 1)) + 5 = h + 3 + u2 + 5 * (d - 1)
  BY <1>0, <1>5
<1>. QED BY <1>2, <1>3, <1>4, <1>5, <1>6, <1>7

(* Positions in a response that was read. *)
LEMMA GoodNumbers ==
  ASSUME NEW r \in Responses, NEW R \in 0 .. Len(Stream(r)), NEW e, NEW N \in 0 .. M(r),
         Good(e, r, R, N)
  PROVE  /\ R \in Nat /\ N \in Nat /\ M(r) \in Nat /\ H(r) \in Nat /\ H(r) >= 5 /\ H(r) <= R
         /\ BLen(r, R, N) \in 0 .. r.size /\ Len(e.body) = BLen(r, R, N) /\ r.size \in Nat
         /\ r.framing = "chunked" => N \in 1 .. M(r) /\ BodyUpTo(r, N) \in Nat
<1>0. /\ Len(Stream(r)) \in Nat /\ r.size \in Nat /\ H(r) \in Nat /\ NL(r) \in 1 .. 3 /\ M(r) \in Nat
      /\ Written(r) \in Seq(Byte) /\ Len(Written(r)) = r.size
  BY StreamFacts, ResponseFacts, LineKinds, ResponseCuts, WrittenFacts DEF M
<1>1. H(r) >= 5 /\ R \in Nat /\ N \in Nat
  BY <1>0 DEF H
<1>2. ASSUME NEW b \in 0 .. r.size PROVE Len(SubSeq(Written(r), 1, b)) = b
  <2>1. 1 \in Int /\ b \in Int /\ \A j \in 1 .. b : Written(r)[j] \in Byte
    BY <1>0
  <2>2. Len(SubSeq(Written(r), 1, b)) = (IF 1 <= b THEN b - 1 + 1 ELSE 0)
    BY <2>1, SubSeqProperties
  <2>. QED BY <1>0, <2>2
<1>3. CASE r.framing = "chunked"
  <2>1. GoodChunked(e, r, R, N)
    BY <1>3 DEF Good
  <2>2. N \in 1 .. M(r) /\ N \in 1 .. M(r) + 1 /\ DataEnd(r, N) <= R /\ e.body = SubSeq(Written(r), 1, BodyUpTo(r, N))
    BY <1>0, <2>1 DEF GoodChunked
  <2>3. /\ BodyUpTo(r, N) \in Nat /\ BodyUpTo(r, N) <= r.size /\ DataEnd(r, N) \in Nat
    BY <1>3, <2>2, ChunkNumbers
  <2>4. DataEnd(r, N) = H(r) + 3 + BodyUpTo(r, N) + 5 * (N - 1)
    BY <1>3, <2>2, ChunkOrder
  <2>5. H(r) <= R
    BY <1>0, <1>1, <2>2, <2>3, <2>4, SMTT(40)
  <2>6. BodyUpTo(r, N) \in 0 .. r.size
    BY <1>0, <2>3
  <2>7. Len(e.body) = BodyUpTo(r, N)
    BY <1>2, <2>2, <2>6
  <2>. QED BY <1>0, <1>1, <1>3, <2>2, <2>3, <2>5, <2>6, <2>7 DEF BLen
<1>4. CASE r.framing # "chunked"
  <2>1. GoodPlain(e, r, R)
    BY <1>4 DEF Good
  <2>2. R - H(r) \in 0 .. r.size /\ e.body = SubSeq(Written(r), 1, R - H(r)) /\ H(r) <= R
    BY <1>0, <1>1, <2>1 DEF GoodPlain
  <2>3. Len(e.body) = R - H(r)
    BY <1>2, <2>2
  <2>. QED BY <1>0, <1>1, <1>4, <2>2, <2>3 DEF BLen
<1>. QED BY <1>3, <1>4

(* Every position of the body is in some chunk. *)
LEMMA PartExists ==
  ASSUME NEW r \in Responses, r.framing = "chunked", NEW N \in 1 .. M(r),
         NEW pos \in 0 .. BodyUpTo(r, N)
  PROVE  \E c \in 1 .. N : InPart(r, N, pos, c)
<1>0. M(r) \in Nat /\ \A c \in 1 .. N : c \in 1 .. M(r) /\ c \in 1 .. M(r) + 1 /\ BodyUpTo(r, c) \in Nat
                                  /\ BodyBefore(r, c) \in Nat
  <2>1. M(r) \in Nat
    BY ResponseCuts DEF M
  <2>2. \A c \in 1 .. N : c \in 1 .. M(r) /\ c \in 1 .. M(r) + 1
    BY <2>1
  <2>. QED BY <2>1, <2>2, ChunkNumbers
<1>. DEFINE T == {c \in 1 .. N : pos <= BodyUpTo(r, c)}
<1>1. T \in SUBSET Nat /\ N \in T
  BY <1>0
<1>2. PICK c \in T : \A y \in T : c <= y
  BY <1>1, LeastOf
<1>3. c \in 1 .. N /\ pos <= BodyUpTo(r, c)
  BY <1>2
<1>4. CASE c = 1
  <2>1. BodyBefore(r, c) = 0
    BY <1>4 DEF BodyBefore
  <2>2. pos \in Nat
    BY <1>0
  <2>. QED BY <1>3, <1>4, <2>1, <2>2 DEF InPart
<1>5. CASE c # 1
  <2>1. c - 1 \in 1 .. N /\ c - 1 \notin T /\ (c - 1) + 1 = c
    BY <1>0, <1>2, <1>3, <1>5
  <2>2. BodyUpTo(r, c - 1) < pos
    BY <1>0, <2>1
  <2>3. BodyUpTo(r, c - 1) = BodyBefore(r, c)
    <3>1. c - 1 \in 1 .. M(r) /\ c \in 1 .. M(r) + 1 /\ c = (c - 1) + 1
      BY <1>0, <1>3, <2>1
    <3>. QED BY <3>1, ChunkOrder
  <2>4. BodyBefore(r, c) \in Nat /\ pos \in Nat
    BY <1>0, <1>3
  <2>. QED BY <1>3, <2>2, <2>3, <2>4 DEF InPart
<1>. QED BY <1>4, <1>5

-----------------------------------------------------------------------------
(* convertResponsePosToAbsolutePos on a chunked response. *)

(* There is one such sum only. *)
LEMMA SumsUnique ==
  ASSUME NEW N \in Nat, NEW F, NEW g, NEW f, Sums(f, N, F), Sums(g, N, F)
  PROVE  f = g
<1>. DEFINE T == {n \in 0 .. N : n = 0 \/ f[n] = g[n]}
<1>1. \A i \in 1 .. N : /\ f[i] = IF i = 1 THEN 0 ELSE f[i - 1] + F[i - 1]
                        /\ g[i] = IF i = 1 THEN 0 ELSE g[i - 1] + F[i - 1]
  BY Zenon DEF Sums
<1>2. ASSUME NEW n \in 0 .. N - 1, n \in T PROVE n + 1 \in T
  <2>1. n + 1 \in 1 .. N /\ (n + 1) - 1 = n /\ n + 1 \in 0 .. N /\ (n + 1 = 1 <=> n = 0)
    OBVIOUS
  <2>2. /\ f[n + 1] = IF n + 1 = 1 THEN 0 ELSE f[n] + F[n]
        /\ g[n + 1] = IF n + 1 = 1 THEN 0 ELSE g[n] + F[n]
    BY <1>1, <2>1
  <2>. QED BY <1>2, <2>1, <2>2
<1>3. 0 \in T
  OBVIOUS
<1>4. \A n \in 0 .. N : n \in T
  <2>. HIDE DEF T
  <2>. QED BY <1>2, <1>3, UpTo
<1>5. \A n \in 1 .. N : f[n] = g[n]
  BY <1>4
<1>6. f = [i \in 1 .. N |-> f[i]] /\ g = [i \in 1 .. N |-> g[i]]
  <2>1. f = [i \in 1 .. N |-> IF i = 1 THEN 0 ELSE f[i - 1] + F[i - 1]]
    BY DEF Sums
  <2>2. g = [i \in 1 .. N |-> IF i = 1 THEN 0 ELSE g[i - 1] + F[i - 1]]
    BY DEF Sums
  <2>3. DOMAIN f = 1 .. N /\ DOMAIN g = 1 .. N
    BY <2>1, <2>2, Zenon
  <2>. QED BY <1>1, <2>1, <2>2, <2>3
<1>. QED BY <1>5, <1>6

(* The chunks of a result. *)
LEMMA ChunksReadFields ==
  ASSUME NEW r \in Responses, r.framing = "chunked", NEW N \in 1 .. M(r), NEW K,
         K = ReadChunksOf(r, N)
  PROVE  /\ Len(K) = N /\ K \notin {None, <<>>} /\ K # None
         /\ \A i \in 1 .. N : K[i].fromIndex = DataAt(r, i) /\ K[i].toIndex = DataEnd(r, i)
<1>0. M(r) \in Nat /\ N \in Nat /\ \A i \in 1 .. N : i \in 1 .. M(r) + 1
  BY ResponseCuts DEF M
<1>. DEFINE P == [fromIndex : Nat, toIndex : Nat]
<1>1. \A i \in 1 .. N : K[i] = [fromIndex |-> DataAt(r, i), toIndex |-> DataEnd(r, i)]
  <2>1. \A i \in 1 .. N : K[i] = ChunkAt(r, i)
    BY DEF ReadChunksOf
  <2>. QED BY <1>0, <2>1, ChunkAtPlaces
<1>2. \A i \in 1 .. N : DataAt(r, i) \in Nat /\ DataEnd(r, i) \in Nat
  BY <1>0, ChunkNumbers
<1>3. \A i \in 1 .. N : ChunkAt(r, i) \in P
  BY <1>0, <1>2, ChunkAtPlaces
<1>4. K \in Seq(P) /\ Len(K) = N
  <2>. HIDE DEF P
  <2>. QED BY <1>0, <1>3 DEF ReadChunksOf
<1>5. K # None
  BY <1>4, NoneAssumption
<1>6. K # <<>>
  BY <1>0, <1>4
<1>7. ASSUME NEW i \in 1 .. N PROVE K[i].fromIndex = DataAt(r, i) /\ K[i].toIndex = DataEnd(r, i)
  <2>1. K[i] = [fromIndex |-> DataAt(r, i), toIndex |-> DataEnd(r, i)]
    BY <1>1
  <2>. QED BY <2>1
<1>. QED BY <1>4, <1>5, <1>6, <1>7

(* InPart names the first chunk whose range holds the position. *)
LEMMA PartIsFirst ==
  ASSUME NEW r \in Responses, r.framing = "chunked", NEW N \in 1 .. M(r),
         NEW pos \in 0 .. BodyUpTo(r, N), NEW c, InPart(r, N, pos, c),
         NEW y \in 1 .. N, BodyBefore(r, y) <= pos, pos <= BodyUpTo(r, y)
  PROVE  c <= y
<1>0. M(r) \in Nat /\ c \in 1 .. N /\ c \in 1 .. M(r) /\ y \in 1 .. M(r) + 1 /\ y \in 1 .. M(r) /\ c \in 1 .. M(r) + 1
  <2>1. M(r) \in Nat
    BY ResponseCuts DEF M
  <2>. QED BY <2>1 DEF InPart
<1>1. BodyUpTo(r, y) \in Nat /\ BodyBefore(r, c) \in Nat /\ pos \in Nat
  <2>1. BodyUpTo(r, y) \in Nat /\ BodyBefore(r, c) \in Nat
    BY <1>0, ChunkNumbers
  <2>2. BodyUpTo(r, N) \in Nat
    <3>1. N \in 1 .. M(r) + 1
      BY <1>0
    <3>. QED BY <3>1, ChunkNumbers
  <2>. QED BY <2>1, <2>2
<1>2. y < c => BodyUpTo(r, y) <= BodyBefore(r, c)
  BY <1>0, ChunkOrder
<1>3. y < c => BodyBefore(r, c) < pos
  BY <1>0 DEF InPart
<1>. QED BY <1>0, <1>1, <1>2, <1>3

(* convertResponsePosToAbsolutePos, which adds up the sizes of the chunks,  *)
(* finds this chunk and the place in it.                                    *)
LEMMA ConvertChunked ==
  ASSUME NEW r \in Responses, r.framing = "chunked", NEW N \in 1 .. M(r),
         res.chunks = ReadChunksOf(r, N), NEW pos \in 0 .. BodyUpTo(r, N), NEW c, InPart(r, N, pos, c)
  PROVE  convertResponsePosToAbsolutePos(pos) = AbsIn(r, pos, c)
<1>. DEFINE K == res.chunks
            size(i) == K[i].toIndex - K[i].fromIndex
            F == [i \in 1 .. N |-> BodyUpTo(r, i) - BodyBefore(r, i)]
            Eq(f) == f = [i \in 1 .. Len(K) |-> IF i = 1 THEN 0 ELSE f[i - 1] + size(i - 1)]
            start == CHOOSE f : Eq(f)
            in == {i \in 1 .. Len(K) : start[i] <= pos /\ pos <= start[i] + size(i)}
            j == CHOOSE x \in in : \A y \in in : x <= y
            g == [i \in 1 .. N |-> BodyBefore(r, i)]
<1>0. /\ M(r) \in Nat /\ N \in Nat /\ c \in 1 .. N
      /\ \A i \in 1 .. N : /\ i \in 1 .. M(r) + 1 /\ i \in 1 .. M(r)
                           /\ BodyUpTo(r, i) \in Nat /\ BodyBefore(r, i) \in Nat
                           /\ DataEnd(r, i) - DataAt(r, i) = BodyUpTo(r, i) - BodyBefore(r, i)
  <2>1. M(r) \in Nat
    BY ResponseCuts DEF M
  <2>2. \A i \in 1 .. N : i \in 1 .. M(r) + 1 /\ i \in 1 .. M(r)
    BY <2>1
  <2>3. ASSUME NEW i \in 1 .. N
        PROVE  /\ BodyUpTo(r, i) \in Nat /\ BodyBefore(r, i) \in Nat
               /\ DataEnd(r, i) - DataAt(r, i) = BodyUpTo(r, i) - BodyBefore(r, i)
    BY <2>2, ChunkNumbers
  <2>4. c \in 1 .. N /\ N \in Nat
    BY <2>1 DEF InPart
  <2>. QED BY <2>1, <2>2, <2>3, <2>4
<1>1. /\ Len(K) = N /\ K \notin {None, <<>>}
      /\ \A i \in 1 .. N : K[i].fromIndex = DataAt(r, i) /\ K[i].toIndex = DataEnd(r, i)
  BY ChunksReadFields
<1>2. convertResponsePosToAbsolutePos(pos) = pos - start[j] + K[j].fromIndex
  BY <1>1 DEF convertResponsePosToAbsolutePos
<1>. HIDE DEF K
<1>3. \A i \in 1 .. N : size(i) = F[i]
  BY <1>0, <1>1
<1>. HIDE DEF F, size
<1>4. ASSUME NEW f PROVE Eq(f) <=> Sums(f, N, F)
  <2>1. \A i \in 1 .. N : i # 1 => i - 1 \in 1 .. N
    BY <1>0
  <2>2. \A i \in 1 .. N : (IF i = 1 THEN 0 ELSE f[i - 1] + size(i - 1)) = (IF i = 1 THEN 0 ELSE f[i - 1] + F[i - 1])
    BY <1>3, <2>1
  <2>3. [i \in 1 .. N |-> IF i = 1 THEN 0 ELSE f[i - 1] + size(i - 1)]
        = [i \in 1 .. N |-> IF i = 1 THEN 0 ELSE f[i - 1] + F[i - 1]]
    BY <2>2
  <2>. QED BY <1>1, <2>3, Zenon DEF Sums
<1>5. Sums(g, N, F)
  <2>1. ASSUME NEW i \in 1 .. N PROVE g[i] = IF i = 1 THEN 0 ELSE g[i - 1] + F[i - 1]
    <3>1. CASE i = 1
      BY <3>1 DEF BodyBefore
    <3>2. CASE i # 1
      <4>1. i - 1 \in 1 .. N /\ i = (i - 1) + 1
        BY <1>0, <3>2
      <4>2. F[i - 1] = BodyUpTo(r, i - 1) - BodyBefore(r, i - 1) /\ g[i - 1] = BodyBefore(r, i - 1)
        BY <4>1 DEF F
      <4>3. BodyUpTo(r, i - 1) = BodyBefore(r, i)
        BY <1>0, <4>1, ChunkOrder
      <4>4. BodyUpTo(r, i - 1) \in Nat /\ BodyBefore(r, i - 1) \in Nat
        BY <1>0, <4>1
      <4>. QED BY <3>2, <4>2, <4>3, <4>4
    <3>. QED BY <3>1, <3>2
  <2>. QED BY <2>1 DEF Sums
<1>6. Eq(g)
  BY <1>4, <1>5
<1>. HIDE DEF Eq
<1>7. Eq(start)
  BY <1>6
<1>8. start = g
  <2>. HIDE DEF start, g
  <2>. QED BY <1>0, <1>4, <1>5, <1>7, SumsUnique
<1>. HIDE DEF start
<1>9. in = {i \in 1 .. N : BodyBefore(r, i) <= pos /\ pos <= BodyUpTo(r, i)}
  <2>1. \A i \in 1 .. N : start[i] = BodyBefore(r, i) /\ start[i] + size(i) = BodyUpTo(r, i)
    <3>1. \A i \in 1 .. N : start[i] = BodyBefore(r, i) /\ size(i) = BodyUpTo(r, i) - BodyBefore(r, i)
      BY <1>3, <1>8 DEF F
    <3>. QED BY <1>0, <3>1
  <2>. QED BY <1>1, <2>1
<1>10. c \in in
  BY <1>0, <1>9 DEF InPart
<1>11. \A y \in in : c <= y
  BY <1>9, PartIsFirst
<1>12. in \in SUBSET Nat
  BY <1>0, <1>9
<1>. HIDE DEF in
<1>13. j = c
  <2>1. j \in in /\ \A y \in in : j <= y
    BY <1>10, <1>11
  <2>. HIDE DEF j
  <2>2. j <= c /\ c <= j /\ j \in Nat /\ c \in Nat
    BY <1>10, <1>11, <1>12, <2>1
  <2>. QED BY <2>2
<1>. HIDE DEF j
<1>14. start[c] = BodyBefore(r, c) /\ K[c].fromIndex = DataAt(r, c)
  BY <1>0, <1>1, <1>8
<1>15. DataAt(r, c) \in Nat /\ pos \in Nat /\ BodyBefore(r, c) \in Nat
  <2>1. BodyUpTo(r, N) \in Nat
    BY <1>0
  <2>. QED BY <1>0, <2>1, ChunkNumbers
<1>. QED BY <1>2, <1>13, <1>14, <1>15 DEF AbsIn

-----------------------------------------------------------------------------
(* convertResponsePosToAbsolutePos on every response: inside the response,  *)
(* and monotone.                                                            *)

(* The place of a position lies in the data of its chunk. *)
LEMMA InPartNumbers ==
  ASSUME NEW r \in Responses, r.framing = "chunked", NEW N \in 1 .. M(r), NEW pos \in Nat,
         NEW c, InPart(r, N, pos, c)
  PROVE  /\ c \in 1 .. N /\ c \in 1 .. M(r) /\ c \in 1 .. M(r) + 1 /\ M(r) \in Nat /\ N \in Nat
         /\ DataAt(r, c) \in Nat /\ DataEnd(r, c) \in Nat /\ BodyBefore(r, c) \in Nat /\ BodyUpTo(r, c) \in Nat
         /\ AbsIn(r, pos, c) \in DataAt(r, c) .. DataEnd(r, c)
         /\ DataEnd(r, c) <= DataEnd(r, N) /\ H(r) + 3 <= DataAt(r, c)
<1>0. M(r) \in Nat /\ c \in 1 .. N /\ c \in 1 .. M(r) /\ c \in 1 .. M(r) + 1 /\ N \in Nat /\ H(r) \in Nat
      /\ N \in 1 .. M(r) + 1
  <2>1. M(r) \in Nat /\ H(r) \in Nat
    BY ResponseCuts, LineKinds DEF M
  <2>. QED BY <2>1 DEF InPart
<1>1. /\ DataAt(r, c) \in Nat /\ DataEnd(r, c) \in Nat /\ BodyBefore(r, c) \in Nat /\ BodyUpTo(r, c) \in Nat
      /\ DataEnd(r, c) - DataAt(r, c) = BodyUpTo(r, c) - BodyBefore(r, c)
      /\ DataAt(r, c) <= DataEnd(r, c)
  BY <1>0, ChunkNumbers
<1>2. DataAt(r, N) \in Nat /\ DataEnd(r, N) \in Nat /\ DataAt(r, N) <= DataEnd(r, N)
  BY <1>0, ChunkNumbers
<1>3. c < N => DataEnd(r, c) + 5 <= DataAt(r, N)
  BY <1>0, ChunkOrder
<1>4. DataEnd(r, c) <= DataEnd(r, N)
  <2>1. CASE c < N
    BY <1>1, <1>2, <1>3, <2>1
  <2>2. CASE c = N
    BY <1>2, <2>2
  <2>. QED BY <1>0, <2>1, <2>2
<1>5. H(r) + 3 <= DataAt(r, c)
  <2>1. DataAt(r, c) = H(r) + 3 + BodyBefore(r, c) + 5 * (c - 1)
    BY <1>0, ChunkOrder
  <2>. QED BY <1>0, <1>1, <2>1
<1>6. AbsIn(r, pos, c) \in DataAt(r, c) .. DataEnd(r, c)
  <2>1. PICK a, e, u, v \in Nat : a = DataAt(r, c) /\ e = DataEnd(r, c) /\ u = BodyBefore(r, c) /\ v = BodyUpTo(r, c)
    BY <1>1
  <2>2. u <= pos /\ pos <= v /\ e - a = v - u
    BY <1>1, <2>1 DEF InPart
  <2>3. a + (pos - u) \in a .. e
    BY <2>1, <2>2
  <2>. QED BY <2>1, <2>3 DEF AbsIn
<1>. QED BY <1>0, <1>1, <1>4, <1>5, <1>6

(* convertResponsePosToAbsolutePos maps a position of the body into the     *)
(* response.                                                                *)
LEMMA Convert ==
  ASSUME NEW r \in Responses, NEW R \in 0 .. Len(Stream(r)), NEW N \in 0 .. M(r), Good(res, r, R, N),
         NEW pos \in 0 .. BLen(r, R, N)
  PROVE  /\ convertResponsePosToAbsolutePos(pos) \in H(r) .. R
         /\ r.framing # "chunked" => convertResponsePosToAbsolutePos(pos) = H(r) + pos
         /\ r.framing = "chunked" =>
              \E c \in 1 .. N : InPart(r, N, pos, c) /\ convertResponsePosToAbsolutePos(pos) = AbsIn(r, pos, c)
<1>. DEFINE a == convertResponsePosToAbsolutePos(pos)
<1>0. /\ R \in Nat /\ N \in Nat /\ H(r) \in Nat /\ BLen(r, R, N) \in Nat /\ pos \in Nat /\ H(r) <= R
      /\ M(r) \in Nat
  <2>1. /\ R \in Nat /\ N \in Nat /\ H(r) \in Nat /\ BLen(r, R, N) \in 0 .. r.size /\ H(r) <= R
        /\ r.size \in Nat /\ M(r) \in Nat
    BY GoodNumbers
  <2>. QED BY <2>1
<1>1. CASE r.framing = "chunked"
  <2>1. N \in 1 .. M(r) /\ res.chunks = ReadChunksOf(r, N) /\ DataEnd(r, N) <= R /\ pos \in 0 .. BodyUpTo(r, N)
    BY <1>1 DEF Good, GoodChunked, BLen
  <2>2. PICK c \in 1 .. N : InPart(r, N, pos, c)
    BY <1>1, <2>1, PartExists
  <2>3. a = AbsIn(r, pos, c)
    BY <1>1, <2>1, <2>2, ConvertChunked
  <2>. HIDE DEF a
  <2>4. /\ DataAt(r, c) \in Nat /\ DataEnd(r, c) \in Nat /\ AbsIn(r, pos, c) \in DataAt(r, c) .. DataEnd(r, c)
        /\ DataEnd(r, c) <= DataEnd(r, N) /\ H(r) + 3 <= DataAt(r, c)
    BY <1>0, <1>1, <2>1, <2>2, InPartNumbers
  <2>5. DataEnd(r, N) \in Nat
    <3>1. N \in 1 .. M(r) + 1
      BY <1>0, <2>1
    <3>. QED BY <1>1, <3>1, ChunkNumbers
  <2>6. a \in H(r) .. R
    BY <1>0, <2>1, <2>3, <2>4, <2>5
  <2>. QED BY <1>1, <2>2, <2>3, <2>6 DEF a
<1>2. CASE r.framing # "chunked"
  <2>1. res.chunks = None /\ res.bodyStartIndex = H(r) /\ pos \in 0 .. R - H(r)
    BY <1>2 DEF Good, GoodPlain, BLen
  <2>2. a = H(r) + pos
    BY <2>1 DEF convertResponsePosToAbsolutePos
  <2>. HIDE DEF a
  <2>3. a \in H(r) .. R
    BY <1>0, <2>1, <2>2
  <2>. QED BY <1>2, <2>2, <2>3 DEF a
<1>. QED BY <1>1, <1>2

(* A later position is in a later place. *)
LEMMA PartsOrdered ==
  ASSUME NEW r \in Responses, r.framing = "chunked", NEW N \in 1 .. M(r), NEW p \in Nat, NEW q \in Nat,
         p < q, NEW c, NEW d, InPart(r, N, p, c), InPart(r, N, q, d)
  PROVE  c <= d /\ AbsIn(r, p, c) < AbsIn(r, q, d) /\ (c < d => AbsIn(r, p, c) + 5 <= AbsIn(r, q, d))
<1>1. /\ c \in 1 .. N /\ c \in 1 .. M(r) /\ c \in 1 .. M(r) + 1 /\ M(r) \in Nat /\ N \in Nat
      /\ DataAt(r, c) \in Nat /\ DataEnd(r, c) \in Nat /\ BodyBefore(r, c) \in Nat
      /\ AbsIn(r, p, c) \in DataAt(r, c) .. DataEnd(r, c)
  BY InPartNumbers
<1>2. /\ d \in 1 .. N /\ d \in 1 .. M(r) /\ d \in 1 .. M(r) + 1
      /\ DataAt(r, d) \in Nat /\ DataEnd(r, d) \in Nat /\ BodyUpTo(r, d) \in Nat
      /\ AbsIn(r, q, d) \in DataAt(r, d) .. DataEnd(r, d)
  BY InPartNumbers
<1>3. c <= d
  <2>1. d < c => BodyUpTo(r, d) <= BodyBefore(r, c)
    BY <1>1, <1>2, ChunkOrder
  <2>2. BodyBefore(r, c) <= p /\ q <= BodyUpTo(r, d)
    BY DEF InPart
  <2>. QED BY <1>1, <1>2, <2>1, <2>2
<1>4. CASE c < d
  <2>1. DataEnd(r, c) + 5 <= DataAt(r, d)
    BY <1>1, <1>2, <1>4, ChunkOrder
  <2>2. AbsIn(r, p, c) + 5 <= AbsIn(r, q, d)
    BY <1>1, <1>2, <2>1
  <2>. QED BY <1>1, <1>2, <1>3, <2>2
<1>5. CASE c = d
  <2>1. PICK a, u \in Nat : a = DataAt(r, c) /\ u = BodyBefore(r, c)
    BY <1>1
  <2>2. a + (p - u) < a + (q - u)
    BY <2>1
  <2>. QED BY <1>1, <1>5, <2>1, <2>2 DEF AbsIn
<1>. QED BY <1>1, <1>2, <1>3, <1>4, <1>5

(* convertResponsePosToAbsolutePos keeps the order of positions. *)
LEMMA ConvertMonotone ==
  ASSUME NEW r \in Responses, NEW R \in 0 .. Len(Stream(r)), NEW N \in 0 .. M(r), Good(res, r, R, N),
         NEW p \in 0 .. BLen(r, R, N), NEW q \in 0 .. BLen(r, R, N), p < q
  PROVE  convertResponsePosToAbsolutePos(p) < convertResponsePosToAbsolutePos(q)
<1>0. BLen(r, R, N) \in Nat /\ p \in Nat /\ q \in Nat /\ H(r) \in Nat
  <2>1. BLen(r, R, N) \in 0 .. r.size /\ r.size \in Nat /\ H(r) \in Nat
    BY GoodNumbers
  <2>. QED BY <2>1
<1>1. CASE r.framing = "chunked"
  <2>0. N \in 1 .. M(r)
    BY <1>1 DEF Good, GoodChunked
  <2>1. PICK c : InPart(r, N, p, c) /\ convertResponsePosToAbsolutePos(p) = AbsIn(r, p, c)
    BY <1>1, Convert
  <2>2. PICK d : InPart(r, N, q, d) /\ convertResponsePosToAbsolutePos(q) = AbsIn(r, q, d)
    BY <1>1, Convert
  <2>3. AbsIn(r, p, c) < AbsIn(r, q, d)
    BY <1>0, <1>1, <2>0, <2>1, <2>2, PartsOrdered
  <2>. QED BY <2>1, <2>2, <2>3
<1>2. CASE r.framing # "chunked"
  <2>1. convertResponsePosToAbsolutePos(p) = H(r) + p /\ convertResponsePosToAbsolutePos(q) = H(r) + q
    BY <1>2, Convert
  <2>. QED BY <1>0, <2>1
<1>. QED BY <1>1, <1>2

-----------------------------------------------------------------------------
(* Array.prototype.sort by the end of the slices, as a rank among the       *)
(* others.                                                                  *)

(* Ranks grow with the order. *)
LEMMA Ranks ==
  ASSUME NEW S, Keyed(S), NEW x \in S
  PROVE  /\ Rank(S, x) \in 0 .. Cardinality(S) - 1
         /\ \A y \in S : Before(x, y) => Rank(S, x) < Rank(S, y)
<1>0. IsFiniteSet(S) /\ Cardinality(S) \in Nat
  BY FS_CardinalityType DEF Keyed
<1>1. ASSUME NEW z \in S PROVE /\ Lower(S, z) \in SUBSET S /\ IsFiniteSet(Lower(S, z)) /\ Rank(S, z) \in Nat
                               /\ z \notin Lower(S, z)
  <2>1. Lower(S, z) \in SUBSET S
    BY DEF Lower
  <2>2. IsFiniteSet(Lower(S, z))
    BY <1>0, <2>1, FS_Subset
  <2>3. Rank(S, z) \in Nat
    BY <2>2, FS_CardinalityType DEF Rank
  <2>4. z \notin Lower(S, z)
    <3>1. z.toIndex \in Int /\ z.place \in Int
      BY DEF Keyed
    <3>. QED BY <3>1 DEF Lower, Before
  <2>. QED BY <2>1, <2>2, <2>3, <2>4
<1>2. Rank(S, x) \in 0 .. Cardinality(S) - 1
  <2>1. Lower(S, x) \in SUBSET (S \ {x})
    BY <1>1
  <2>2. IsFiniteSet(S \ {x}) /\ Cardinality(S \ {x}) = Cardinality(S) - 1
    BY <1>0, FS_RemoveElement
  <2>3. Cardinality(Lower(S, x)) <= Cardinality(S \ {x})
    <3>. DEFINE D == S \ {x}
    <3>1. IsFiniteSet(D) /\ Lower(S, x) \in SUBSET D
      BY <2>1, <2>2
    <3>. HIDE DEF D
    <3>2. Cardinality(Lower(S, x)) <= Cardinality(D)
      BY <3>1, FS_Subset
    <3>. QED BY <3>2 DEF D
  <2>. QED BY <1>0, <1>1, <2>2, <2>3 DEF Rank
<1>3. ASSUME NEW y \in S, Before(x, y) PROVE Rank(S, x) < Rank(S, y)
  <2>1. Lower(S, x) \in SUBSET Lower(S, y)
    <3>1. SUFFICES ASSUME NEW z \in S, Before(z, x) PROVE Before(z, y)
      BY DEF Lower
    <3>2. /\ x.toIndex \in Int /\ x.place \in Int /\ y.toIndex \in Int /\ y.place \in Int
          /\ z.toIndex \in Int /\ z.place \in Int
      BY DEF Keyed
    <3>. QED BY <1>3, <3>1, <3>2 DEF Before
  <2>2. x \in Lower(S, y)
    BY <1>3 DEF Lower
  <2>3. Lower(S, x) # Lower(S, y)
    BY <1>1, <2>2
  <2>4. /\ Cardinality(Lower(S, x)) <= Cardinality(Lower(S, y))
        /\ Cardinality(Lower(S, y)) = Cardinality(Lower(S, x)) => Lower(S, y) = Lower(S, x)
    BY <1>1, <2>1, FS_Subset
  <2>5. Rank(S, x) \in Nat /\ Rank(S, y) \in Nat
    BY <1>1
  <2>. QED BY <2>3, <2>4, <2>5 DEF Rank
<1>. QED BY <1>2, <1>3

(* Of two slices, exactly one comes before the other. *)
LEMMA BeforeTotal ==
  ASSUME NEW S, Keyed(S), NEW x \in S, NEW y \in S, x # y
  PROVE  (Before(x, y) \/ Before(y, x)) /\ ~(Before(x, y) /\ Before(y, x))
<1>1. /\ x.toIndex \in Int /\ x.place \in Int /\ y.toIndex \in Int /\ y.place \in Int
      /\ ~(x.toIndex = y.toIndex /\ x.place = y.place)
  BY DEF Keyed
<1>. QED BY <1>1 DEF Before

(* Every rank is taken. *)
LEMMA RankOnto ==
  ASSUME NEW S, Keyed(S), NEW k \in 0 .. Cardinality(S) - 1
  PROVE  \E x \in S : Rank(S, x) = k
<1>. DEFINE n == Cardinality(S)
            T == 0 .. n - 1
            f == [x \in S |-> Rank(S, x)]
<1>0. IsFiniteSet(S) /\ n \in Nat
  BY FS_CardinalityType DEF Keyed
<1>1. IsFiniteSet(T) /\ Cardinality(T) = n
  <2>1. 0 \in Int /\ n - 1 \in Int
    BY <1>0
  <2>2. IsFiniteSet(0 .. n - 1) /\ Cardinality(0 .. n - 1) = IF 0 > n - 1 THEN 0 ELSE (n - 1) - 0 + 1
    BY <2>1, FS_Interval
  <2>. QED BY <1>0, <2>2
<1>. HIDE DEF n
<1>2. f \in [S -> T]
  BY Ranks DEF n
<1>3. ASSUME NEW x \in S, NEW y \in S, f[x] = f[y] PROVE x = y
  <2>1. SUFFICES ASSUME x # y PROVE FALSE
    OBVIOUS
  <2>2. Before(x, y) \/ Before(y, x)
    BY <2>1, BeforeTotal
  <2>3. Rank(S, x) < Rank(S, y) \/ Rank(S, y) < Rank(S, x)
    BY <2>2, Ranks
  <2>4. Rank(S, x) \in Nat /\ Rank(S, y) \in Nat
    BY <1>0, Ranks DEF n
  <2>. QED BY <1>3, <2>3, <2>4
<1>4. f \in Injection(S, T)
  <2>1. IsInjective(f)
    <3>1. DOMAIN f = S
      OBVIOUS
    <3>. HIDE DEF f
    <3>. QED BY <1>3, <3>1 DEF IsInjective
  <2>. HIDE DEF f, T
  <2>. QED BY <1>2, <2>1 DEF Injection
<1>5. f \in Surjection(S, T)
  <2>. HIDE DEF f, T
  <2>. QED BY <1>0, <1>1, <1>4, FS_Injection DEF n
<1>6. \E x \in S : f[x] = k
  <2>1. k \in T
    BY DEF n
  <2>. HIDE DEF f, T
  <2>. QED BY <1>5, <2>1 DEF Surjection
<1>. QED BY <1>6

(* SortByEnd lists every slice of the set, in the order of their ends. *)
LEMMA Sorted ==
  ASSUME NEW S, Keyed(S), NEW s, s = SortByEnd(S)
  PROVE  /\ Len(s) = Cardinality(S) /\ Len(s) \in Nat /\ DOMAIN s = 1 .. Len(s) /\ s \in Seq(S)
         /\ \A k \in 1 .. Len(s) : s[k] \in S /\ Rank(S, s[k]) = k - 1
         /\ \A i, j \in 1 .. Len(s) : i < j => Before(s[i], s[j]) /\ s[i].toIndex <= s[j].toIndex
         /\ \A x \in S : \E k \in 1 .. Len(s) : s[k] = x
<1>. DEFINE n == Cardinality(S)
            At(k) == CHOOSE x \in S : Cardinality({y \in S : Before(y, x)}) = k - 1
<1>0. n \in Nat
  BY FS_CardinalityType DEF Keyed
<1>1. s = [k \in 1 .. n |-> At(k)]
  BY DEF SortByEnd
<1>2. ASSUME NEW k \in 1 .. n PROVE At(k) \in S /\ Rank(S, At(k)) = k - 1
  <2>1. k - 1 \in 0 .. Cardinality(S) - 1
    BY <1>0
  <2>2. \E x \in S : Cardinality({y \in S : Before(y, x)}) = k - 1
    BY <2>1, RankOnto DEF Rank, Lower
  <2>3. At(k) \in S /\ Cardinality({y \in S : Before(y, At(k))}) = k - 1
    BY <2>2
  <2>. QED BY <2>3 DEF Rank, Lower
<1>. HIDE DEF At, n
<1>3. Len(s) = n /\ DOMAIN s = 1 .. n /\ s \in Seq(S) /\ \A k \in 1 .. n : s[k] = At(k)
  BY <1>0, <1>1, <1>2
<1>4. ASSUME NEW i \in 1 .. n, NEW j \in 1 .. n, i < j
      PROVE  Before(s[i], s[j]) /\ s[i].toIndex <= s[j].toIndex
  <2>1. s[i] \in S /\ s[j] \in S /\ Rank(S, s[i]) = i - 1 /\ Rank(S, s[j]) = j - 1
    BY <1>2, <1>3
  <2>2. s[i] # s[j]
    <3>1. i - 1 # j - 1
      BY <1>0, <1>4
    <3>. QED BY <2>1, <3>1
  <2>3. ~Before(s[j], s[i])
    <3>1. Before(s[j], s[i]) => j - 1 < i - 1
      BY <2>1, Ranks
    <3>. QED BY <1>0, <1>4, <3>1
  <2>4. Before(s[i], s[j])
    BY <2>1, <2>2, <2>3, BeforeTotal
  <2>5. s[i].toIndex \in Int /\ s[j].toIndex \in Int
    BY <2>1 DEF Keyed
  <2>. QED BY <2>4, <2>5 DEF Before
<1>5. ASSUME NEW x \in S PROVE \E k \in 1 .. n : s[k] = x
  <2>1. Rank(S, x) \in 0 .. n - 1
    BY Ranks DEF n
  <2>2. PICK k \in 1 .. n : k - 1 = Rank(S, x)
    <3>1. Rank(S, x) + 1 \in 1 .. n /\ (Rank(S, x) + 1) - 1 = Rank(S, x)
      BY <1>0, <2>1
    <3>. QED BY <3>1
  <2>3. s[k] \in S /\ Rank(S, s[k]) = k - 1
    BY <1>2, <1>3
  <2>4. s[k] = x
    <3>1. SUFFICES ASSUME s[k] # x PROVE FALSE
      OBVIOUS
    <3>2. Before(s[k], x) \/ Before(x, s[k])
      BY <2>3, <3>1, BeforeTotal
    <3>3. Rank(S, s[k]) < Rank(S, x) \/ Rank(S, x) < Rank(S, s[k])
      BY <2>3, <3>2, Ranks
    <3>. QED BY <1>0, <2>1, <2>2, <2>3, <3>3
  <2>. QED BY <2>4
<1>6. \A k \in 1 .. n : s[k] \in S /\ Rank(S, s[k]) = k - 1
  BY <1>2, <1>3
<1>. QED BY <1>0, <1>3, <1>4, <1>5, <1>6 DEF n

-----------------------------------------------------------------------------
(* The requests' matches and the slices made of them. *)

(* All requests are made of items of the body. *)
LEMMA RequestItems ==
  ASSUME NEW B \in Nat, Len(res.body) = B, NEW ms \in Requests, ms # None
  PROVE  ms \in Seq(Items(B))
BY DEF Requests

(* The image of a finite set is finite. *)
LEMMA FiniteImage ==
  ASSUME NEW S, IsFiniteSet(S), NEW f, DOMAIN f = S, f = [x \in S |-> f[x]]
  PROVE  IsFiniteSet({f[x] : x \in S})
<1>. DEFINE T == {f[x] : x \in S}
<1>1. f \in Surjection(S, T)
  BY DEF Surjection
<1>. QED BY <1>1, FS_Surjection

(* The fields of a slice. *)
LEMMA SliceIn ==
  ASSUME NEW R \in Nat, NEW a \in 0 .. R, NEW b \in 0 .. R, a < b, NEW h \in BOOLEAN, NEW k \in Int
  PROVE  /\ Slice(a, b, h, k) \in SliceSet(R) /\ Slice(a, b, h, k).fromIndex = a
         /\ Slice(a, b, h, k).toIndex = b /\ Slice(a, b, h, k).hash = h /\ Slice(a, b, h, k).place = k
BY DEF Slice, SliceSet

(* The same of a slice of the set. *)
LEMMA SliceSetFields ==
  ASSUME NEW R \in Nat, NEW x \in SliceSet(R)
  PROVE  /\ x.fromIndex \in 0 .. R /\ x.toIndex \in 0 .. R /\ x.hash \in BOOLEAN /\ x.place \in Int
         /\ x.fromIndex < x.toIndex
         /\ x = Slice(x.fromIndex, x.toIndex, x.hash, x.place)
BY DEF Slice, SliceSet

(* The same of a slice that is redacted. *)
LEMMA RedactableFields ==
  ASSUME NEW R \in Nat, NEW x \in Redactable(R)
  PROVE  /\ x.fromIndex \in 0 .. R /\ x.toIndex \in 0 .. R /\ x.hash \in BOOLEAN /\ x.place \in Int
         /\ x.fromIndex <= x.toIndex /\ (x.hash => x.fromIndex < x.toIndex)
         /\ x.fromIndex < x.toIndex \/ (x.fromIndex = R /\ x.toIndex = R)
BY DEF Redactable

(* Slices that are not empty are among them. *)
LEMMA SlicesRedactable ==
  ASSUME NEW R \in Nat
  PROVE  SliceSet(R) \subseteq Redactable(R)
BY DEF SliceSet, Redactable

(* getReveal makes a slice of the response of an item, behind the header. *)
LEMMA RevealOfItem ==
  ASSUME NEW r \in Responses, NEW R \in 0 .. Len(Stream(r)), NEW N \in 0 .. M(r), Good(res, r, R, N),
         NEW m \in Items(BLen(r, R, N)), NEW k \in Int, NEW x, x = getReveal(m, k)
  PROVE  /\ x \in SliceSet(R) /\ x.place = k /\ x.hash = m.hash
         /\ x.fromIndex = convertResponsePosToAbsolutePos(m.fromIndex)
         /\ x.toIndex = convertResponsePosToAbsolutePos(m.toIndex)
         /\ H(r) <= x.fromIndex
<1>0. R \in Nat /\ H(r) \in Nat /\ BLen(r, R, N) \in Nat
  <2>1. R \in Nat /\ H(r) \in Nat /\ BLen(r, R, N) \in 0 .. r.size /\ r.size \in Nat
    BY GoodNumbers
  <2>. QED BY <2>1
<1>1. /\ m.fromIndex \in 0 .. BLen(r, R, N) /\ m.toIndex \in 0 .. BLen(r, R, N) /\ m.fromIndex < m.toIndex
      /\ m.hash \in BOOLEAN
  BY DEF Items
<1>. DEFINE a == convertResponsePosToAbsolutePos(m.fromIndex)
            b == convertResponsePosToAbsolutePos(m.toIndex)
<1>2. a \in H(r) .. R /\ b \in H(r) .. R /\ a < b
  BY <1>1, Convert, ConvertMonotone
<1>3. x = Slice(a, b, m.hash, k)
  BY DEF getReveal
<1>. HIDE DEF a, b
<1>4. a \in 0 .. R /\ b \in 0 .. R
  BY <1>0, <1>2
<1>5. /\ x \in SliceSet(R) /\ x.fromIndex = a /\ x.toIndex = b /\ x.hash = m.hash /\ x.place = k
  BY <1>0, <1>1, <1>2, <1>3, <1>4, SliceIn
<1>. QED BY <1>0, <1>2, <1>5 DEF a, b

-----------------------------------------------------------------------------
(* The reveals of getResponseRedactions. *)

(* The reveals are the fixed ones and one of each match. *)
LEMMA RevealIs ==
  ASSUME NEW r \in Responses, GoodHeader(res, r), NEW ms, NEW x
  PROVE  x \in RevealsOf(ms) <=> Fixed(r, x) \/ \E i \in DOMAIN ms : x = getReveal(ms[i], i)
<1>. DEFINE A == {Slice(0, res.statusLineEndIndex, FALSE, -3),
                  Slice(res.headerEndIdx, res.headerEndIdx + 4, FALSE, -2)}
            B == IF "date" \in DOMAIN res.headerIndices
                 THEN {Slice(res.headerIndices["date"].fromIndex,
                             res.headerIndices["date"].toIndex, FALSE, -1)} ELSE {}
            C == {getReveal(ms[i], i) : i \in DOMAIN ms}
<1>1. RevealsOf(ms) = A \cup B \cup C
  BY DEF RevealsOf
<1>2. /\ res.statusLineEndIndex = 1 /\ res.headerEndIdx = H(r) - 4 /\ H(r) \in Nat
      /\ res.headerIndices = IndicesAt(r, NL(r))
  BY LineKinds DEF GoodHeader
<1>3. x \in A <=> x = Slice(0, 1, No, -3) \/ x = Slice(H(r) - 4, H(r), No, -2)
  <2>1. (H(r) - 4) + 4 = H(r)
    BY <1>2
  <2>. QED BY <1>2, <2>1, Zenon DEF No
<1>4. x \in B <=> r.date /\ x = Slice(3, 4, No, -1)
  <2>1. "date" \in DOMAIN res.headerIndices <=> r.date
    BY <1>2, AllNames
  <2>2. CASE r.date
    <3>1. "date" \in HeaderNames(r, NL(r))
      BY <1>2, <2>1, <2>2 DEF IndicesAt
    <3>2. res.headerIndices["date"] = [fromIndex |-> LineStart(r, "date"), toIndex |-> LineStart(r, "date") + 1]
      BY <1>2, <3>1 DEF IndicesAt
    <3>3. LineStart(r, "date") = 3
      BY DEF LineStart
    <3>4. res.headerIndices["date"].fromIndex = 3 /\ res.headerIndices["date"].toIndex = 4
      BY <3>2, <3>3
    <3>. QED BY <2>1, <2>2, <3>4, Zenon DEF No
  <2>3. CASE ~r.date
    BY <2>1, <2>3
  <2>. QED BY <2>2, <2>3
<1>5. x \in C <=> \E i \in DOMAIN ms : x = getReveal(ms[i], i)
  OBVIOUS
<1>. HIDE DEF A, B, C
<1>. QED BY <1>1, <1>3, <1>4, <1>5 DEF Fixed

(* The fields of a slice that is not hashed. *)
LEMMA ClearSlice ==
  ASSUME NEW R \in Nat, NEW a \in 0 .. R, NEW b \in 0 .. R, a < b, NEW k \in Int
  PROVE  /\ Slice(a, b, No, k) \in SliceSet(R) /\ Slice(a, b, No, k).fromIndex = a
         /\ Slice(a, b, No, k).toIndex = b /\ ~Slice(a, b, No, k).hash /\ Slice(a, b, No, k).place = k
<1>1. No \in BOOLEAN /\ ~No
  BY DEF No
<1>. QED BY <1>1, SliceIn

(* The fixed reveals lie in the header and are not hashed. *)
LEMMA FixedFields ==
  ASSUME NEW r \in Responses, NEW R \in Nat, H(r) >= 5, H(r) <= R, NEW x, Fixed(r, x)
  PROVE  /\ x \in SliceSet(R) /\ ~x.hash /\ x.toIndex <= H(r) /\ x.place \in {-3, -2, -1}
         /\ x.place = -3 => x.fromIndex = 0 /\ x.toIndex = 1
         /\ x.place = -2 => x.fromIndex = H(r) - 4 /\ x.toIndex = H(r)
         /\ x.place = -1 => r.date /\ x.fromIndex = 3 /\ x.toIndex = 4
<1>0. H(r) \in Nat
  BY LineKinds
<1>2. CASE x = Slice(0, 1, No, -3)
  <2>1. /\ 0 \in 0 .. R /\ 1 \in 0 .. R /\ 0 < 1 /\ -3 \in Int
    BY <1>0
  <2>2. x \in SliceSet(R) /\ ~x.hash /\ x.fromIndex = 0 /\ x.toIndex = 1 /\ x.place = -3
    BY <1>2, <2>1, ClearSlice
  <2>. QED BY <1>0, <2>2
<1>3. CASE x = Slice(H(r) - 4, H(r), No, -2)
  <2>. DEFINE a == H(r) - 4
  <2>1. /\ a \in 0 .. R /\ H(r) \in 0 .. R /\ a < H(r) /\ -2 \in Int
    BY <1>0
  <2>2. x = Slice(a, H(r), No, -2)
    BY <1>3
  <2>. HIDE DEF a
  <2>3. x \in SliceSet(R) /\ ~x.hash /\ x.fromIndex = a /\ x.toIndex = H(r) /\ x.place = -2
    BY <2>2, <2>1, ClearSlice
  <2>. QED BY <1>0, <2>3 DEF a
<1>4. CASE r.date /\ x = Slice(3, 4, No, -1)
  <2>1. /\ 3 \in 0 .. R /\ 4 \in 0 .. R /\ 3 < 4 /\ -1 \in Int
    BY <1>0
  <2>2. x \in SliceSet(R) /\ ~x.hash /\ x.fromIndex = 3 /\ x.toIndex = 4 /\ x.place = -1
    BY <1>4, <2>1, ClearSlice
  <2>. QED BY <1>0, <1>4, <2>2
<1>5. x = Slice(0, 1, No, -3) \/ x = Slice(H(r) - 4, H(r), No, -2) \/ (r.date /\ x = Slice(3, 4, No, -1))
  BY Zenon DEF Fixed
<1>. QED BY <1>2, <1>3, <1>4, <1>5, Zenon

(* A reveal is a slice of the response, fixed or of a match. *)
LEMMA RevealFields ==
  ASSUME NEW r \in Responses, NEW R \in 0 .. Len(Stream(r)), NEW N \in 0 .. M(r), Good(res, r, R, N),
         NEW ms \in Seq(Items(BLen(r, R, N))), NEW x \in RevealsOf(ms)
  PROVE  /\ x \in SliceSet(R)
         /\ \/ Fixed(r, x) /\ ~x.hash /\ x.toIndex <= H(r) /\ x.place \in {-3, -2, -1}
            \/ /\ x.place \in 1 .. Len(ms) /\ x = getReveal(ms[x.place], x.place)
               /\ H(r) <= x.fromIndex /\ x.hash = ms[x.place].hash
<1>0. R \in Nat /\ H(r) \in Nat /\ H(r) >= 5 /\ H(r) <= R /\ GoodHeader(res, r)
  BY GoodNumbers DEF Good
<1>1. CASE \E i \in DOMAIN ms : x = getReveal(ms[i], i)
  <2>1. PICK i \in 1 .. Len(ms) : x = getReveal(ms[i], i)
    BY <1>1
  <2>2. ms[i] \in Items(BLen(r, R, N)) /\ i \in Int
    OBVIOUS
  <2>3. /\ x \in SliceSet(R) /\ x.place = i /\ x.hash = ms[i].hash /\ H(r) <= x.fromIndex
    BY <2>1, <2>2, RevealOfItem
  <2>. QED BY <2>1, <2>3
<1>2. CASE Fixed(r, x)
  BY <1>0, <1>2, FixedFields
<1>5. Fixed(r, x) \/ \E i \in DOMAIN ms : x = getReveal(ms[i], i)
  BY <1>0, RevealIs
<1>. QED BY <1>1, <1>2, <1>5

(* No two reveals have the same place in the list. *)
LEMMA RevealsKeyed ==
  ASSUME NEW r \in Responses, NEW R \in 0 .. Len(Stream(r)), NEW N \in 0 .. M(r), Good(res, r, R, N),
         NEW ms \in Seq(Items(BLen(r, R, N)))
  PROVE  Keyed(RevealsOf(ms)) /\ \A x, y \in RevealsOf(ms) : x.place = y.place => x = y
<1>. DEFINE S == RevealsOf(ms)
<1>0. R \in Nat /\ H(r) \in Nat /\ H(r) >= 5 /\ H(r) <= R /\ GoodHeader(res, r)
  BY GoodNumbers DEF Good
<1>2. ASSUME NEW x \in S, NEW y \in S, x.place = y.place PROVE x = y
  <2>0. /\ x = Slice(x.fromIndex, x.toIndex, x.hash, x.place) /\ x.hash \in BOOLEAN
        /\ y = Slice(y.fromIndex, y.toIndex, y.hash, y.place) /\ y.hash \in BOOLEAN
    <3>1. x \in SliceSet(R) /\ y \in SliceSet(R)
      BY RevealFields
    <3>. QED BY <1>0, <3>1, SliceSetFields
  <2>1. CASE x.place \in 1 .. Len(ms)
    <3>0. x.place \notin {-3, -2, -1}
      BY <2>1
    <3>1. x = getReveal(ms[x.place], x.place) /\ y = getReveal(ms[y.place], y.place)
      BY <1>2, <3>0, RevealFields
    <3>. QED BY <1>2, <3>1
  <2>2. CASE x.place \notin 1 .. Len(ms)
    <3>1. /\ Fixed(r, x) /\ x.place \in {-3, -2, -1} /\ Fixed(r, y)
      BY <1>2, <2>2, RevealFields
    <3>2. x.fromIndex = y.fromIndex /\ x.toIndex = y.toIndex /\ ~x.hash /\ ~y.hash
      BY <1>0, <1>2, <3>1, FixedFields
    <3>3. x.hash = y.hash
      BY <2>0, <3>2
    <3>. QED BY <1>2, <2>0, <3>2, <3>3
  <2>. QED BY <2>1, <2>2
<1>3. IsFiniteSet(S)
  <2>. DEFINE f == [i \in DOMAIN ms |-> getReveal(ms[i], i)]
              A == {Slice(0, 1, No, -3), Slice(H(r) - 4, H(r), No, -2), Slice(3, 4, No, -1)}
              I == {f[i] : i \in DOMAIN ms}
  <2>1. IsFiniteSet(DOMAIN ms)
    <3>1. DOMAIN ms = 1 .. Len(ms) /\ Len(ms) \in Int /\ 1 \in Int
      OBVIOUS
    <3>. QED BY <3>1, FS_Interval
  <2>2. IsFiniteSet(I)
    <3>1. DOMAIN f = DOMAIN ms /\ f = [i \in DOMAIN ms |-> f[i]]
      OBVIOUS
    <3>. HIDE DEF f
    <3>. QED BY <2>1, <3>1, FiniteImage
  <2>3. IsFiniteSet(A)
    <3>1. PICK a, b, c : A = {a, b, c}
      BY Zenon
    <3>2. {a, b, c} = ({a} \cup {b}) \cup {c}
      OBVIOUS
    <3>3. IsFiniteSet({a}) /\ IsFiniteSet({b}) /\ IsFiniteSet({c})
      BY FS_Singleton
    <3>4. IsFiniteSet({a} \cup {b})
      BY <3>3, FS_Union
    <3>5. IsFiniteSet(({a} \cup {b}) \cup {c})
      BY <3>3, <3>4, FS_Union
    <3>. QED BY <3>1, <3>2, <3>5
  <2>4. S \in SUBSET (A \cup I)
    <3>1. SUFFICES ASSUME NEW x \in S PROVE x \in A \cup I
      OBVIOUS
    <3>2. Fixed(r, x) \/ \E i \in DOMAIN ms : x = getReveal(ms[i], i)
      BY <1>0, RevealIs
    <3>3. Fixed(r, x) => x \in A
      BY Zenon DEF Fixed
    <3>4. ASSUME NEW i \in DOMAIN ms, x = getReveal(ms[i], i) PROVE x \in I
      BY <3>4
    <3>. HIDE DEF A, I
    <3>. QED BY <3>2, <3>3, <3>4
  <2>. HIDE DEF A, I
  <2>5. IsFiniteSet(A \cup I)
    BY <2>2, <2>3, FS_Union
  <2>. QED BY <2>4, <2>5, FS_Subset
<1>4. ASSUME NEW x \in S PROVE x.toIndex \in Int /\ x.place \in Int
  <2>1. x \in SliceSet(R)
    BY RevealFields
  <2>2. x.toIndex \in 0 .. R /\ x.place \in Int
    BY <1>0, <2>1, SliceSetFields
  <2>. QED BY <1>0, <2>2
<1>. HIDE DEF S
<1>5. Keyed(S)
  BY <1>2, <1>3, <1>4 DEF Keyed
<1>. QED BY <1>2, <1>5 DEF S

-----------------------------------------------------------------------------
(* The gaps between the reveals and the size lines of chunks. *)

(* A set of slices that is sorted is in the order of their ends. *)
LEMMA SortedByEnd ==
  ASSUME NEW R \in Nat, NEW S \in SUBSET SliceSet(R), Keyed(S)
  PROVE  ByEnd(SortByEnd(S), R)
<1>. DEFINE s == SortByEnd(S)
<1>1. /\ s \in Seq(S) /\ \A i, j \in 1 .. Len(s) : i < j => s[i].toIndex <= s[j].toIndex
  BY Sorted
<1>. HIDE DEF s
<1>2. s \in Seq(SliceSet(R))
  BY <1>1
<1>. QED BY <1>1, <1>2 DEF ByEnd, s

(* The same of slices that are redacted. *)
LEMMA SortedListed ==
  ASSUME NEW R \in Nat, NEW S \in SUBSET Redactable(R), Keyed(S)
  PROVE  Listed(SortByEnd(S), R)
<1>. DEFINE s == SortByEnd(S)
<1>1. /\ s \in Seq(S) /\ \A i, j \in 1 .. Len(s) : i < j => s[i].toIndex <= s[j].toIndex
  BY Sorted
<1>. HIDE DEF s
<1>2. s \in Seq(Redactable(R))
  BY <1>1
<1>. QED BY <1>1, <1>2 DEF Listed, s

(* So are the reveals. *)
LEMMA RevealsByEnd ==
  ASSUME NEW r \in Responses, NEW R \in 0 .. Len(Stream(r)), NEW N \in 0 .. M(r), Good(res, r, R, N),
         NEW ms \in Seq(Items(BLen(r, R, N)))
  PROVE  ByEnd(SortByEnd(RevealsOf(ms)), R)
<1>1. Keyed(RevealsOf(ms)) /\ RevealsOf(ms) \in SUBSET SliceSet(R)
  BY RevealsKeyed, RevealFields
<1>2. R \in Nat
  BY GoodNumbers
<1>. QED BY <1>1, <1>2, SortedByEnd

(* Where the gap before the i-th reveal starts and ends. *)
LEMMA GapPlaces ==
  ASSUME NEW R \in Nat, Received = R, NEW s, ByEnd(s, R), NEW i \in 1 .. Len(s) + 1
  PROVE  /\ GapStart(s, i) \in 0 .. R /\ GapEnd(s, i) \in 0 .. R /\ Len(s) \in Nat
         /\ i <= Len(s) => /\ s[i] \in SliceSet(R) /\ GapEnd(s, i) = s[i].fromIndex /\ GapEnd(s, i) < s[i].toIndex
                           /\ s[i].toIndex \in 0 .. R
         /\ i > 1 => i - 1 \in 1 .. Len(s) /\ GapStart(s, i) = s[i - 1].toIndex
         /\ i = 1 => GapStart(s, i) = 0
<1>0. s \in Seq(SliceSet(R)) /\ Len(s) \in Nat
  BY DEF ByEnd
<1>1. ASSUME NEW j \in 1 .. Len(s)
      PROVE  s[j] \in SliceSet(R) /\ s[j].toIndex \in 0 .. R /\ s[j].fromIndex \in 0 .. R /\ s[j].fromIndex < s[j].toIndex
  <2>1. s[j] \in SliceSet(R)
    BY <1>0
  <2>. QED BY <2>1, SliceSetFields
<1>2. CASE i = 1
  BY <1>0, <1>1, <1>2 DEF GapStart, GapEnd
<1>3. CASE i > 1
  <2>1. i - 1 \in 1 .. Len(s) /\ i # 1
    BY <1>0, <1>3
  <2>2. GapStart(s, i) = s[i - 1].toIndex
    BY <2>1 DEF GapStart
  <2>. QED BY <1>0, <1>1, <1>3, <2>1, <2>2 DEF GapEnd
<1>. QED BY <1>0, <1>2, <1>3

(* A gap is a slice between two reveals. *)
LEMMA GapFields ==
  ASSUME NEW R \in Nat, Received = R, NEW s, ByEnd(s, R), NEW x \in Gaps(s)
  PROVE  \E i \in 1 .. Len(s) + 1 :
           /\ x \in Redactable(R) /\ x.fromIndex = GapStart(s, i) /\ x.toIndex = GapEnd(s, i)
           /\ ~x.hash /\ x.place = 0 /\ GapStart(s, i) <= GapEnd(s, i)
           /\ GapStart(s, i) < GapEnd(s, i) \/ i = Len(s) + 1
           /\ x = Slice(GapStart(s, i), GapEnd(s, i), No, 0)
<1>1. PICK i \in 1 .. Len(s) + 1 : /\ GapStart(s, i) < GapEnd(s, i) \/ i = Len(s) + 1
                                   /\ x = Slice(GapStart(s, i), GapEnd(s, i), No, 0)
  <2>1. x \in {Slice(GapStart(s, i), GapEnd(s, i), No, 0) :
                i \in {k \in 1 .. Len(s) + 1 : GapStart(s, k) < GapEnd(s, k) \/ k = Len(s) + 1}}
    BY Zenon DEF Gaps, No
  <2>. QED BY <2>1
<1>2. GapStart(s, i) \in 0 .. R /\ GapEnd(s, i) \in 0 .. R /\ Len(s) \in Nat
  BY GapPlaces
<1>3. i = Len(s) + 1 => GapEnd(s, i) = R
  BY <1>2 DEF GapEnd
<1>4. CASE GapStart(s, i) < GapEnd(s, i)
  <2>1. /\ x \in SliceSet(R) /\ x.fromIndex = GapStart(s, i) /\ x.toIndex = GapEnd(s, i) /\ ~x.hash /\ x.place = 0
    BY <1>1, <1>2, <1>4, ClearSlice
  <2>2. x \in Redactable(R) /\ GapStart(s, i) <= GapEnd(s, i)
    BY <1>2, <1>4, <2>1, SlicesRedactable
  <2>. QED BY <1>1, <1>4, <2>1, <2>2
<1>5. CASE ~(GapStart(s, i) < GapEnd(s, i))
  <2>1. i = Len(s) + 1 /\ GapStart(s, i) = R /\ GapEnd(s, i) = R
    BY <1>1, <1>2, <1>3, <1>5
  <2>2. x = Slice(R, R, No, 0)
    BY <1>1, <2>1
  <2>3. /\ x \in Redactable(R) /\ x.fromIndex = R /\ x.toIndex = R /\ ~x.hash /\ x.place = 0
    BY <2>2 DEF Slice, Redactable, No
  <2>4. R <= R
    OBVIOUS
  <2>. QED BY <1>1, <2>1, <2>3, <2>4
<1>. QED BY <1>4, <1>5

(* What lies between two reveals is a gap. *)
LEMMA GapIn ==
  ASSUME NEW s, NEW i \in 1 .. Len(s) + 1, GapStart(s, i) < GapEnd(s, i) \/ i = Len(s) + 1
  PROVE  Slice(GapStart(s, i), GapEnd(s, i), No, 0) \in Gaps(s)
BY Zenon DEF Gaps, No

(* A gap ends before a later one starts. *)
LEMMA GapsOrdered ==
  ASSUME NEW R \in Nat, Received = R, NEW s, ByEnd(s, R), NEW i \in 1 .. Len(s) + 1, NEW j \in 1 .. Len(s) + 1,
         i < j
  PROVE  GapEnd(s, i) < GapStart(s, j)
<1>1. /\ i <= Len(s) /\ j > 1 /\ i \in Nat /\ j \in Nat /\ Len(s) \in Nat
  BY DEF ByEnd
<1>2. GapEnd(s, i) < s[i].toIndex /\ GapEnd(s, i) \in 0 .. R /\ s[i].toIndex \in 0 .. R
  BY <1>1, GapPlaces
<1>3. GapStart(s, j) = s[j - 1].toIndex /\ GapStart(s, j) \in 0 .. R /\ j - 1 \in 1 .. Len(s)
  BY <1>1, GapPlaces
<1>4. s[i].toIndex <= s[j - 1].toIndex
  <2>1. CASE i = j - 1
    BY <1>2, <2>1
  <2>2. CASE i < j - 1
    <3>1. i \in 1 .. Len(s)
      BY <1>1
    <3>. QED BY <1>3, <2>2, <3>1 DEF ByEnd
  <2>. QED BY <1>1, <2>1, <2>2
<1>. QED BY <1>2, <1>3, <1>4

(* No two gaps end at the same byte. *)
LEMMA GapsKeyed ==
  ASSUME NEW R \in Nat, Received = R, NEW s, ByEnd(s, R)
  PROVE  /\ IsFiniteSet(Gaps(s)) /\ \A x, y \in Gaps(s) : x.toIndex = y.toIndex => x = y
<1>0. Len(s) \in Nat
  BY DEF ByEnd
<1>1. IsFiniteSet(Gaps(s))
  <2>. DEFINE D == 1 .. Len(s) + 1
              f == [i \in D |-> Slice(GapStart(s, i), GapEnd(s, i), No, 0)]
              I == {f[i] : i \in D}
  <2>1. IsFiniteSet(D)
    <3>1. 1 \in Int /\ Len(s) + 1 \in Int
      BY <1>0
    <3>. QED BY <3>1, FS_Interval
  <2>2. IsFiniteSet(I)
    <3>1. DOMAIN f = D /\ f = [i \in D |-> f[i]]
      OBVIOUS
    <3>. HIDE DEF f, D
    <3>. QED BY <2>1, <3>1, FiniteImage
  <2>3. Gaps(s) \in SUBSET I
    <3>1. SUFFICES ASSUME NEW x \in Gaps(s) PROVE x \in I
      OBVIOUS
    <3>2. PICK i \in D : x = Slice(GapStart(s, i), GapEnd(s, i), No, 0)
      BY GapFields
    <3>. QED BY <3>2
  <2>. HIDE DEF I
  <2>. QED BY <2>2, <2>3, FS_Subset
<1>2. ASSUME NEW x \in Gaps(s), NEW y \in Gaps(s), x.toIndex = y.toIndex PROVE x = y
  <2>1. PICK i \in 1 .. Len(s) + 1 : /\ x.toIndex = GapEnd(s, i) /\ GapStart(s, i) <= GapEnd(s, i)
                                     /\ x = Slice(GapStart(s, i), GapEnd(s, i), No, 0)
    BY GapFields
  <2>2. PICK j \in 1 .. Len(s) + 1 : /\ y.toIndex = GapEnd(s, j) /\ GapStart(s, j) <= GapEnd(s, j)
                                     /\ y = Slice(GapStart(s, j), GapEnd(s, j), No, 0)
    BY GapFields
  <2>3. /\ GapStart(s, i) \in 0 .. R /\ GapEnd(s, i) \in 0 .. R
        /\ GapStart(s, j) \in 0 .. R /\ GapEnd(s, j) \in 0 .. R
    BY GapPlaces
  <2>7. GapEnd(s, i) = GapEnd(s, j) /\ GapStart(s, i) <= GapEnd(s, i) /\ GapStart(s, j) <= GapEnd(s, j)
    BY <1>2, <2>1, <2>2
  <2>8. PICK a, b, c \in Nat : a = GapStart(s, i) /\ b = GapStart(s, j) /\ c = GapEnd(s, j)
    BY <2>3
  <2>4. ~(i < j)
    <3>1. i < j => GapEnd(s, i) < GapStart(s, j)
      BY GapsOrdered
    <3>. QED BY <2>7, <2>8, <3>1
  <2>5. ~(j < i)
    <3>1. j < i => GapEnd(s, j) < GapStart(s, i)
      BY GapsOrdered
    <3>. QED BY <2>7, <2>8, <3>1
  <2>6. i = j
    BY <1>0, <2>4, <2>5
  <2>. QED BY <2>1, <2>2, <2>6
<1>. QED BY <1>1, <1>2

-----------------------------------------------------------------------------

(* getRedactionsForChunkHeaders finds the size lines that end inside a      *)
(* reveal.                                                                  *)
LEMMA HeaderIs ==
  ASSUME NEW r \in Responses, NEW R \in 0 .. Len(Stream(r)), NEW N \in 0 .. M(r), Good(res, r, R, N),
         NEW v, NEW x
  PROVE  x \in getRedactionsForChunkHeaders(v) <=>
           /\ r.framing = "chunked"
           /\ \E c \in 2 .. N : DataAt(r, c) > v.fromIndex /\ DataAt(r, c) < v.toIndex /\ x = SizeSlice(r, c)
<1>1. CASE r.framing # "chunked"
  <2>1. res.chunks = None
    BY <1>1 DEF Good, GoodPlain
  <2>. QED BY <1>1, <2>1 DEF getRedactionsForChunkHeaders
<1>2. CASE r.framing = "chunked"
  <2>. DEFINE K == res.chunks
  <2>0. N \in 1 .. M(r) /\ M(r) \in Nat /\ K = ReadChunksOf(r, N)
    BY <1>2, ResponseCuts DEF Good, GoodChunked, M
  <2>1. /\ Len(K) = N /\ K # None
        /\ \A i \in 1 .. N : K[i].fromIndex = DataAt(r, i) /\ K[i].toIndex = DataEnd(r, i)
    BY <1>2, <2>0, ChunksReadFields
  <2>2. x \in getRedactionsForChunkHeaders(v) <=>
          x \in {Slice(K[i - 1].toIndex, K[i].fromIndex, No, -1) :
             i \in {k \in 2 .. Len(K) : K[k].fromIndex > v.fromIndex /\ K[k].fromIndex < v.toIndex}}
    BY <2>1, Zenon DEF getRedactionsForChunkHeaders, No
  <2>. HIDE DEF K
  <2>3. x \in getRedactionsForChunkHeaders(v) <=>
          \E i \in 2 .. N : /\ K[i].fromIndex > v.fromIndex /\ K[i].fromIndex < v.toIndex
                            /\ x = Slice(K[i - 1].toIndex, K[i].fromIndex, No, -1)
    BY <2>1, <2>2
  <2>4. ASSUME NEW i \in 2 .. N
        PROVE  K[i].fromIndex = DataAt(r, i) /\ K[i - 1].toIndex = DataEnd(r, i - 1)
    <3>1. i \in 1 .. N /\ i - 1 \in 1 .. N
      BY <2>0
    <3>. QED BY <2>1, <3>1
  <2>. QED BY <1>2, <2>3, <2>4 DEF SizeSlice
<1>. QED BY <1>1, <1>2

(* The fields of a size line. *)
LEMMA SizeFields ==
  ASSUME NEW r \in Responses, NEW R \in 0 .. Len(Stream(r)), NEW N \in 0 .. M(r), Good(res, r, R, N),
         r.framing = "chunked", NEW c \in 2 .. N, NEW x, x = SizeSlice(r, c)
  PROVE  /\ x \in SliceSet(R) /\ x.fromIndex = DataEnd(r, c - 1) /\ x.toIndex = DataAt(r, c) /\ ~x.hash
         /\ x.place = -1 /\ x.fromIndex + 5 = x.toIndex /\ H(r) <= x.fromIndex
<1>0. /\ R \in Nat /\ N \in 1 .. M(r) /\ M(r) \in Nat /\ DataEnd(r, N) <= R /\ H(r) \in Nat
  BY GoodNumbers DEF Good, GoodChunked
<1>1. /\ c \in 1 .. M(r) /\ c \in 1 .. M(r) + 1 /\ c - 1 \in 1 .. M(r) /\ c - 1 \in 1 .. M(r) + 1
      /\ N \in 1 .. M(r) + 1 /\ c = (c - 1) + 1 /\ c - 1 < c
  BY <1>0
<1>2. /\ DataEnd(r, c - 1) \in Nat /\ DataAt(r, c - 1) \in Nat /\ DataAt(r, c) \in Nat /\ DataEnd(r, c) \in Nat /\ DataEnd(r, N) \in Nat
      /\ DataAt(r, N) \in Nat
      /\ DataAt(r, c) < DataEnd(r, c) /\ DataAt(r, N) < DataEnd(r, N) /\ DataAt(r, c - 1) < DataEnd(r, c - 1)
  BY <1>0, <1>1, ChunkNumbers
<1>3. DataEnd(r, c - 1) + 5 = DataAt(r, c)
  BY <1>1, ChunkOrder
<1>4. DataAt(r, c) <= DataEnd(r, N)
  <2>1. CASE c = N
    BY <1>2, <2>1
  <2>2. CASE c < N
    <3>1. DataEnd(r, c) + 5 <= DataAt(r, N)
      BY <1>1, <2>2, ChunkOrder
    <3>. QED BY <1>2, <3>1
  <2>. QED BY <1>0, <2>1, <2>2
<1>5. DataAt(r, c - 1) = H(r) + 3 + BodyBefore(r, c - 1) + 5 * ((c - 1) - 1) /\ BodyBefore(r, c - 1) \in Nat
  BY <1>1, ChunkOrder, ChunkNumbers
<1>6. H(r) <= DataEnd(r, c - 1)
  <2>1. 5 * ((c - 1) - 1) \in Nat
    BY <1>0
  <2>. QED BY <1>0, <1>2, <1>5, <2>1, SMTT(40)
<1>7. DataEnd(r, c - 1) \in 0 .. R /\ DataAt(r, c) \in 0 .. R /\ DataEnd(r, c - 1) < DataAt(r, c)
  BY <1>0, <1>2, <1>3, <1>4, SMTT(40)
<1>8. /\ x \in SliceSet(R) /\ x.fromIndex = DataEnd(r, c - 1) /\ x.toIndex = DataAt(r, c) /\ ~x.hash
      /\ x.place = -1
  <2>1. -1 \in Int
    OBVIOUS
  <2>. QED BY <1>0, <1>7, <2>1, ClearSlice DEF SizeSlice
<1>. QED BY <1>3, <1>6, <1>8

(* The size lines of all reveals. *)
LEMMA HeadersIs ==
  ASSUME NEW r \in Responses, NEW R \in 0 .. Len(Stream(r)), NEW N \in 0 .. M(r), Good(res, r, R, N),
         NEW ms, NEW x
  PROVE  x \in HeadersOf(ms) <=>
           /\ r.framing = "chunked"
           /\ \E i \in DOMAIN ms, c \in 2 .. N :
                /\ DataAt(r, c) > getReveal(ms[i], i).fromIndex /\ DataAt(r, c) < getReveal(ms[i], i).toIndex
                /\ x = SizeSlice(r, c)
<1>. DEFINE G(i) == getRedactionsForChunkHeaders(getReveal(ms[i], i))
<1>1. HeadersOf(ms) = UNION {G(i) : i \in DOMAIN ms}
  BY DEF HeadersOf
<1>2. ASSUME NEW i \in DOMAIN ms
      PROVE  x \in G(i) <=> /\ r.framing = "chunked"
                            /\ \E c \in 2 .. N : /\ DataAt(r, c) > getReveal(ms[i], i).fromIndex
                                                 /\ DataAt(r, c) < getReveal(ms[i], i).toIndex
                                                 /\ x = SizeSlice(r, c)
  BY HeaderIs
<1>. HIDE DEF G
<1>3. x \in HeadersOf(ms) <=> \E i \in DOMAIN ms : x \in G(i)
  BY <1>1
<1>. QED BY <1>2, <1>3

(* No two size lines end at the same byte. *)
LEMMA HeadersKeyed ==
  ASSUME NEW r \in Responses, NEW R \in 0 .. Len(Stream(r)), NEW N \in 0 .. M(r), Good(res, r, R, N),
         NEW ms
  PROVE  /\ IsFiniteSet(HeadersOf(ms))
         /\ \A x \in HeadersOf(ms) : x \in SliceSet(R) /\ ~x.hash /\ x.place = -1
         /\ \A x, y \in HeadersOf(ms) : x.toIndex = y.toIndex => x = y
<1>0. N \in Nat /\ M(r) \in Nat
  BY GoodNumbers
<1>1. IsFiniteSet(HeadersOf(ms))
  <2>. DEFINE D == 2 .. N
              f == [c \in D |-> SizeSlice(r, c)]
              I == {f[c] : c \in D}
  <2>1. IsFiniteSet(D)
    <3>1. 2 \in Int /\ N \in Int
      BY <1>0
    <3>. QED BY <3>1, FS_Interval
  <2>2. IsFiniteSet(I)
    <3>1. DOMAIN f = D /\ f = [i \in D |-> f[i]]
      OBVIOUS
    <3>. HIDE DEF f, D
    <3>. QED BY <2>1, <3>1, FiniteImage
  <2>3. HeadersOf(ms) \in SUBSET I
    <3>1. SUFFICES ASSUME NEW x \in HeadersOf(ms) PROVE x \in I
      OBVIOUS
    <3>2. PICK c \in D : x = SizeSlice(r, c)
      BY HeadersIs
    <3>. QED BY <3>2
  <2>. HIDE DEF I
  <2>. QED BY <2>2, <2>3, FS_Subset
<1>2. ASSUME NEW x \in HeadersOf(ms) PROVE x \in SliceSet(R) /\ ~x.hash /\ x.place = -1
  <2>1. r.framing = "chunked" /\ \E c \in 2 .. N : x = SizeSlice(r, c)
    BY HeadersIs
  <2>. QED BY <2>1, SizeFields
<1>3. ASSUME NEW x \in HeadersOf(ms), NEW y \in HeadersOf(ms), x.toIndex = y.toIndex PROVE x = y
  <2>0. r.framing = "chunked"
    BY HeadersIs
  <2>1. PICK c \in 2 .. N : x = SizeSlice(r, c)
    BY HeadersIs
  <2>2. PICK d \in 2 .. N : y = SizeSlice(r, d)
    BY HeadersIs
  <2>3. x.toIndex = DataAt(r, c) /\ y.toIndex = DataAt(r, d)
    BY <2>0, <2>1, <2>2, SizeFields
  <2>4. c \in 1 .. M(r) /\ d \in 1 .. M(r) /\ c \in 1 .. M(r) + 1 /\ d \in 1 .. M(r) + 1
    BY <1>0
  <2>5. /\ DataAt(r, c) \in Nat /\ DataAt(r, d) \in Nat /\ DataAt(r, c) < DataEnd(r, c) /\ DataAt(r, d) < DataEnd(r, d)
        /\ DataEnd(r, c) \in Nat /\ DataEnd(r, d) \in Nat
    BY <2>0, <2>4, ChunkNumbers
  <2>6. (c < d => DataEnd(r, c) + 5 <= DataAt(r, d)) /\ (d < c => DataEnd(r, d) + 5 <= DataAt(r, c))
    BY <2>0, <2>4, ChunkOrder
  <2>7. c = d
    <3>1. PICK a, b, u, v \in Nat : a = DataAt(r, c) /\ b = DataAt(r, d) /\ u = DataEnd(r, c) /\ v = DataEnd(r, d)
      BY <2>5
    <3>2. a = b /\ a < u /\ b < v
      BY <1>3, <2>3, <2>5, <3>1
    <3>3. (c < d => u + 5 <= b) /\ (d < c => v + 5 <= a)
      BY <2>6, <3>1
    <3>4. ~(c < d) /\ ~(d < c)
      BY <3>2, <3>3
    <3>. QED BY <1>0, <3>4
  <2>. QED BY <2>1, <2>2, <2>7
<1>. QED BY <1>1, <1>2, <1>3

-----------------------------------------------------------------------------
(* All redactions in one list, and the walk of getBlocksToReveal over the   *)
(* blocks.                                                                  *)

(* getResponseRedactions sorts this set. *)
LEMMA RedactionsSorted ==
  ASSUME NEW ms
  PROVE  getResponseRedactions(ms) = SortByEnd(RedactionSet(ms))
BY DEF getResponseRedactions, RedactionSet, HeadersOf

(* A redaction is a slice of the response: a size line, a gap or a hashed   *)
(* reveal.                                                                  *)
LEMMA RedactionFields ==
  ASSUME NEW r \in Responses, NEW R \in 0 .. Len(Stream(r)), Received = R, NEW N \in 0 .. M(r), Good(res, r, R, N),
         NEW ms \in Seq(Items(BLen(r, R, N))), NEW x \in RedactionSet(ms)
  PROVE  /\ x \in Redactable(R)
         /\ \/ x \in HeadersOf(ms) /\ ~x.hash /\ x.place = -1
            \/ x \in Gaps(SortByEnd(RevealsOf(ms))) /\ ~x.hash /\ x.place = 0
            \/ x \in RevealsOf(ms) /\ x.hash /\ x.place \in 1 .. Len(ms)
<1>. DEFINE s == SortByEnd(RevealsOf(ms))
<1>0. R \in Nat /\ ByEnd(s, R)
  BY RevealsByEnd, GoodNumbers
<1>. HIDE DEF s
<1>1. CASE x \in HeadersOf(ms)
  BY <1>0, <1>1, HeadersKeyed, SlicesRedactable
<1>2. CASE x \in Gaps(s)
  BY <1>0, <1>2, GapFields DEF s
<1>3. CASE x \in RevealsOf(ms) /\ x.hash
  BY <1>0, <1>3, RevealFields, SlicesRedactable
<1>4. x \in HeadersOf(ms) \/ x \in Gaps(s) \/ (x \in RevealsOf(ms) /\ x.hash)
  BY DEF RedactionSet, s
<1>. QED BY <1>1, <1>2, <1>3, <1>4 DEF s

(* No two redactions have the same place in the list, which is in the order *)
(* of their ends.                                                           *)
LEMMA RedactionsKeyed ==
  ASSUME NEW r \in Responses, NEW R \in 0 .. Len(Stream(r)), Received = R, NEW N \in 0 .. M(r), Good(res, r, R, N),
         NEW ms \in Seq(Items(BLen(r, R, N)))
  PROVE  Keyed(RedactionSet(ms)) /\ RedactionSet(ms) \in SUBSET Redactable(R)
         /\ Listed(getResponseRedactions(ms), R)
<1>. DEFINE s == SortByEnd(RevealsOf(ms))
            S == RedactionSet(ms)
            A == HeadersOf(ms)
            B == Gaps(s)
            C == {x \in RevealsOf(ms) : x.hash}
<1>0. R \in Nat /\ ByEnd(s, R)
  BY RevealsByEnd, GoodNumbers
<1>1. S = A \cup B \cup C
  BY DEF RedactionSet
<1>. HIDE DEF S
<1>2. ASSUME NEW x \in S
      PROVE  /\ x \in Redactable(R) /\ x.toIndex \in Int /\ x.place \in Int
             /\ \/ x \in A /\ x.place = -1
                \/ x \in B /\ x.place = 0
                \/ x \in RevealsOf(ms) /\ x.place \in 1 .. Len(ms)
  <2>1. /\ x \in Redactable(R)
        /\ \/ x \in A /\ x.place = -1
           \/ x \in B /\ x.place = 0
           \/ x \in RevealsOf(ms) /\ x.place \in 1 .. Len(ms)
    BY RedactionFields DEF S
  <2>. HIDE DEF A, B
  <2>2. x.toIndex \in 0 .. R /\ x.place \in Int
    BY <1>0, <2>1, RedactableFields
  <2>. QED BY <1>0, <2>1, <2>2
<1>3. IsFiniteSet(S)
  <2>1. IsFiniteSet(A)
    BY HeadersKeyed
  <2>2. IsFiniteSet(B)
    <3>. HIDE DEF s
    <3>. QED BY <1>0, GapsKeyed
  <2>3. IsFiniteSet(C)
    <3>1. IsFiniteSet(RevealsOf(ms)) /\ C \in SUBSET RevealsOf(ms)
      BY RevealsKeyed DEF Keyed
    <3>. HIDE DEF C
    <3>. QED BY <3>1, FS_Subset
  <2>. HIDE DEF A, B, C
  <2>4. IsFiniteSet(A \cup B)
    BY <2>1, <2>2, FS_Union
  <2>5. IsFiniteSet((A \cup B) \cup C)
    BY <2>3, <2>4, FS_Union
  <2>. QED BY <1>1, <2>5
<1>4. ASSUME NEW x \in S, NEW y \in S, x.toIndex = y.toIndex, x.place = y.place PROVE x = y
  <2>1. \A u, v \in A : u.toIndex = v.toIndex => u = v
    BY HeadersKeyed
  <2>2. \A u, v \in B : u.toIndex = v.toIndex => u = v
    <3>. HIDE DEF s
    <3>. QED BY <1>0, GapsKeyed
  <2>3. \A u, v \in RevealsOf(ms) : u.place = v.place => u = v
    BY RevealsKeyed
  <2>. HIDE DEF A, B
  <2>4. /\ x.place = -1 \/ x.place = 0 \/ (x.place \in 1 .. Len(ms) /\ x.place # -1 /\ x.place # 0)
    BY <1>2
  <2>5. CASE x.place = -1
    <3>1. x \in A /\ y \in A
      <4>1. -1 # 0 /\ -1 \notin 1 .. Len(ms)
        OBVIOUS
      <4>. QED BY <1>2, <1>4, <2>5, <4>1
    <3>. QED BY <1>4, <2>1, <3>1
  <2>6. CASE x.place = 0
    <3>1. x \in B /\ y \in B
      <4>1. -1 # 0 /\ 0 \notin 1 .. Len(ms)
        OBVIOUS
      <4>. QED BY <1>2, <1>4, <2>6, <4>1
    <3>. QED BY <1>4, <2>2, <3>1
  <2>7. CASE x.place \in 1 .. Len(ms) /\ x.place # -1 /\ x.place # 0
    BY <1>2, <1>4, <2>3, <2>7
  <2>. QED BY <2>4, <2>5, <2>6, <2>7
<1>5. Keyed(S)
  BY <1>2, <1>3, <1>4 DEF Keyed
<1>6. S \in SUBSET Redactable(R)
  BY <1>2
<1>7. Listed(SortByEnd(S), R)
  BY <1>0, <1>5, <1>6, SortedListed
<1>. QED BY <1>5, <1>6, <1>7, RedactionsSorted DEF S

-----------------------------------------------------------------------------

(* The characters that are written. *)
LEMMA SomeChars ==
  ASSUME NEW i \in Int, NEW j \in Int
  PROVE  Clear \in Chars /\ Star \in Chars /\ Nullifier(i, j) \in Chars
BY DEF Clear, Star, Nullifier, Chars

(* advance moves the cursor by one, and to the next block at the end of a   *)
(* block.                                                                   *)
LEMMA AdvanceFields ==
  ASSUME NEW R \in Nat, NEW w \in Walks(R)
  PROVE  /\ advance(w) \in Walks(R) /\ advance(w).cursor = w.cursor + 1
         /\ advance(w).toprfs = w.toprfs /\ advance(w).plain = w.plain
         /\ w.cursorInBlock + 1 >= BlockLen(w.blockIdx) =>
              advance(w).blockIdx = w.blockIdx + 1 /\ advance(w).cursorInBlock = 0
         /\ ~(w.cursorInBlock + 1 >= BlockLen(w.blockIdx)) =>
              advance(w).blockIdx = w.blockIdx /\ advance(w).cursorInBlock = w.cursorInBlock + 1
<1>. DEFINE C == w.cursorInBlock + 1 >= BlockLen(w.blockIdx)
            a == [w EXCEPT !.cursor = @ + 1, !.blockIdx = @ + 1, !.cursorInBlock = 0]
            b == [w EXCEPT !.cursor = @ + 1, !.cursorInBlock = @ + 1]
<1>1. advance(w) = IF C THEN a ELSE b
  BY DEF advance
<1>0. /\ w.cursor + 1 \in Nat /\ w.blockIdx + 1 \in Nat /\ w.cursorInBlock + 1 \in Nat /\ 0 \in Nat
  BY DEF Walks
<1>2. /\ a \in Walks(R) /\ a.cursor = w.cursor + 1 /\ a.toprfs = w.toprfs /\ a.plain = w.plain
      /\ a.blockIdx = w.blockIdx + 1 /\ a.cursorInBlock = 0
  <2>. DEFINE T == Seq(Toprf)
              P == [1 .. R -> Chars]
  <2>1. w \in [cursor : Nat, blockIdx : Nat, cursorInBlock : Nat, toprfs : T, plain : P]
    BY DEF Walks
  <2>. HIDE DEF T, P
  <2>2. /\ a \in [cursor : Nat, blockIdx : Nat, cursorInBlock : Nat, toprfs : T, plain : P]
        /\ a.cursor = w.cursor + 1 /\ a.toprfs = w.toprfs /\ a.plain = w.plain
        /\ a.blockIdx = w.blockIdx + 1 /\ a.cursorInBlock = 0
    BY <1>0, <2>1
  <2>. QED BY <2>2 DEF Walks, T, P
<1>3. /\ b \in Walks(R) /\ b.cursor = w.cursor + 1 /\ b.toprfs = w.toprfs /\ b.plain = w.plain
      /\ b.blockIdx = w.blockIdx /\ b.cursorInBlock = w.cursorInBlock + 1
  <2>. DEFINE T == Seq(Toprf)
              P == [1 .. R -> Chars]
  <2>1. w \in [cursor : Nat, blockIdx : Nat, cursorInBlock : Nat, toprfs : T, plain : P]
    BY DEF Walks
  <2>. HIDE DEF T, P
  <2>2. /\ b \in [cursor : Nat, blockIdx : Nat, cursorInBlock : Nat, toprfs : T, plain : P]
        /\ b.cursor = w.cursor + 1 /\ b.toprfs = w.toprfs /\ b.plain = w.plain
        /\ b.blockIdx = w.blockIdx /\ b.cursorInBlock = w.cursorInBlock + 1
    BY <1>0, <2>1
  <2>. QED BY <2>2 DEF Walks, T, P
<1>. HIDE DEF C, a, b
<1>4. CASE C
  BY <1>1, <1>2, <1>4 DEF C
<1>5. CASE ~C
  BY <1>1, <1>3, <1>5 DEF C
<1>. QED BY <1>4, <1>5

(* A write changes the byte at the cursor's place in its block, and no      *)
(* other.                                                                   *)
LEMMA WriteFields ==
  ASSUME NEW R \in Nat, NEW w \in Walks(R), NEW c \in Chars
  PROVE  /\ Write(w, c) \in Walks(R) /\ Write(w, c).cursor = w.cursor /\ Write(w, c).toprfs = w.toprfs
         /\ Write(w, c).blockIdx = w.blockIdx /\ Write(w, c).cursorInBlock = w.cursorInBlock
         /\ w.cursorInBlock < BlockLen(w.blockIdx) =>
              \A p \in 1 .. R : Write(w, c).plain[p] =
                 IF p = BlockStart(w.blockIdx) + w.cursorInBlock + 1 THEN c ELSE w.plain[p]
<1>. DEFINE C == w.cursorInBlock < BlockLen(w.blockIdx)
            k == BlockStart(w.blockIdx) + w.cursorInBlock + 1
            f == [w.plain EXCEPT ![k] = c]
            a == [w EXCEPT !.plain = f]
<1>1. Write(w, c) = IF C THEN a ELSE w
  <2>1. [w EXCEPT !.plain[k] = c] = a
    BY DEF Walks
  <2>. QED BY <2>1 DEF Write
<1>0. w.plain \in [1 .. R -> Chars]
  BY DEF Walks
<1>. HIDE DEF C, k
<1>2. f \in [1 .. R -> Chars] /\ \A p \in 1 .. R : f[p] = IF p = k THEN c ELSE w.plain[p]
  BY <1>0
<1>. HIDE DEF f
<1>3. /\ a \in Walks(R) /\ a.cursor = w.cursor /\ a.toprfs = w.toprfs /\ a.plain = f
      /\ a.blockIdx = w.blockIdx /\ a.cursorInBlock = w.cursorInBlock
  BY <1>2 DEF Walks
<1>. HIDE DEF a
<1>4. CASE C
  BY <1>1, <1>2, <1>3, <1>4 DEF C, k
<1>5. CASE ~C
  BY <1>1, <1>5 DEF C
<1>. QED BY <1>4, <1>5

-----------------------------------------------------------------------------
(* The loops of getBlocksToReveal. *)

(* How far the cursor is from a position. *)
LEMMA StepsToNat ==
  ASSUME NEW R \in Nat, NEW w \in Walks(R), NEW to \in Nat
  PROVE  /\ StepsTo(w, to) \in Nat /\ w.cursor \in Nat
         /\ w.cursor + StepsTo(w, to) = IF w.cursor < to THEN to ELSE w.cursor
         /\ w.cursor < to => StepsTo(w, to) > 0
BY DEF StepsTo, Walks

(* AdvanceTo is that many calls of advance. *)
LEMMA AdvanceLoop ==
  ASSUME NEW R \in Nat, NEW w \in Walks(R), NEW to \in Nat
  PROVE  \E F : /\ F[0] = w /\ (\A n \in 0 .. StepsTo(w, to) : F[n] \in Walks(R))
                /\ \A n \in 1 .. StepsTo(w, to) : F[n] = advance(F[n - 1])
                /\ AdvanceTo(w, to) = F[StepsTo(w, to)]
<1>. DEFINE k == StepsTo(w, to)
            S == Walks(R)
            st == [n \in Nat |-> [s \in S |-> advance(s)]]
            Eq(f) == f = [n \in 0 .. k |-> IF n = 0 THEN w ELSE advance(f[n - 1])]
            F == CHOOSE f : Eq(f)
<1>1. Steps(k, S, st, w) /\ k \in Nat
  <2>1. k \in Nat
    BY StepsToNat
  <2>2. \A s \in S : advance(s) \in S
    BY AdvanceFields
  <2>. HIDE DEF S, k
  <2>3. w \in S
    BY DEF S
  <2>. QED BY <2>1, <2>2, <2>3 DEF Steps
<1>2. AdvanceTo(w, to) = F[k]
  BY DEF AdvanceTo
<1>. HIDE DEF k, S
<1>3. PICK f : /\ f = [n \in 0 .. k |-> IF n = 0 THEN w ELSE st[n][f[n - 1]]]
                /\ f[0] = w /\ (\A n \in 0 .. k : f[n] \in S)
                /\ \A n \in 1 .. k : f[n] = st[n][f[n - 1]]
  <2>. HIDE DEF st
  <2>. QED BY <1>1, IterExists
<1>4. ASSUME NEW n \in 1 .. k PROVE st[n][f[n - 1]] = advance(f[n - 1])
  <2>1. f[n - 1] \in S /\ n \in Nat
    <3>. HIDE DEF st
    <3>. QED BY <1>1, <1>3
  <2>. QED BY <2>1
<1>5. Eq(f)
  <2>. HIDE DEF st
  <2>1. DOMAIN f = 0 .. k /\ f = [n \in 0 .. k |-> f[n]]
    BY <1>3, Zenon
  <2>2. ASSUME NEW n \in 0 .. k PROVE f[n] = IF n = 0 THEN w ELSE advance(f[n - 1])
    <3>1. CASE n = 0
      BY <1>3, <3>1
    <3>2. CASE n # 0
      <4>1. n \in 1 .. k
        BY <1>1, <3>2
      <4>. QED BY <1>3, <1>4, <3>2, <4>1
    <3>. QED BY <3>1, <3>2
  <2>. QED BY <2>1, <2>2
<1>. HIDE DEF Eq
<1>6. Eq(F)
  BY <1>5
<1>. HIDE DEF F
<1>7. \A n \in 0 .. k : F[n] = IF n = 0 THEN w ELSE advance(F[n - 1])
  BY <1>6, Zenon DEF Eq
<1>8. 0 \in 0 .. k /\ \A n \in 1 .. k : n \in 0 .. k /\ n # 0
  BY <1>1
<1>9. F[0] = w /\ \A n \in 1 .. k : F[n] = advance(F[n - 1])
  BY <1>7, <1>8, Zenon
<1>10. \A n \in 0 .. k : F[n] \in S
  <2>. DEFINE T == {n \in 0 .. k : F[n] \in S}
  <2>1. 0 \in T
    BY <1>8, <1>9 DEF S
  <2>2. ASSUME NEW n \in 0 .. k - 1, n \in T PROVE n + 1 \in T
    <3>1. n + 1 \in 1 .. k /\ n + 1 \in 0 .. k /\ (n + 1) - 1 = n /\ F[n] \in S
      BY <1>1, <2>2
    <3>2. F[n + 1] = advance(F[n])
      BY <1>9, <3>1
    <3>3. advance(F[n]) \in S
      BY <3>1, AdvanceFields DEF S
    <3>. QED BY <3>1, <3>2, <3>3
  <2>. HIDE DEF T
  <2>3. \A n \in 0 .. k : n \in T
    BY <1>1, <2>1, <2>2, UpTo
  <2>. QED BY <2>3 DEF T
<1>. QED BY <1>2, <1>9, <1>10 DEF k, S

(* It is a character. *)
LEMMA CharOfChars ==
  ASSUME NEW R \in Nat, NEW x \in Redactable(R), NEW i \in Int
  PROVE  CharOf(x, i) \in Chars
<1>1. x.fromIndex \in Int
  BY RedactableFields
<1>. QED BY <1>1, SomeChars DEF CharOf

(* A step of the loop over a slice stays in the states of the walk. *)
LEMMA StepOver ==
  ASSUME NEW R \in Nat, NEW w \in Walks(R), NEW x \in Redactable(R), NEW i \in Int
  PROVE  /\ advance(Write(w, CharOf(x, i))) \in Walks(R)
         /\ Write(w, CharOf(x, i)) \in Walks(R)
BY CharOfChars, WriteFields, AdvanceFields

(* Overwrite is as many writes, each with a call of advance. *)
LEMMA OverwriteLoop ==
  ASSUME NEW R \in Nat, NEW w \in Walks(R), NEW x \in Redactable(R)
  PROVE  \E F : /\ F[0] = w /\ (\A n \in 0 .. StepsTo(w, x.toIndex) : F[n] \in Walks(R))
                /\ \A n \in 1 .. StepsTo(w, x.toIndex) : F[n] = advance(Write(F[n - 1], CharOf(x, n - 1)))
                /\ Overwrite(w, x) = F[StepsTo(w, x.toIndex)]
<1>. DEFINE k == StepsTo(w, x.toIndex)
            S == Walks(R)
            step(n, s) == advance(Write(s, CharOf(x, n - 1)))
            st == [n \in Nat |-> [s \in S |-> step(n, s)]]
            Eq(f) == f = [n \in 0 .. k |-> IF n = 0 THEN w ELSE step(n, f[n - 1])]
            F == CHOOSE f : Eq(f)
<1>1. Steps(k, S, st, w) /\ k \in Nat
  <2>1. k \in Nat
    <3>1. x.toIndex \in Nat
      BY RedactableFields
    <3>. QED BY <3>1, StepsToNat
  <2>2. \A n \in Nat : \A s \in S : step(n, s) \in S
    BY StepOver
  <2>. HIDE DEF S, k, step
  <2>3. w \in S
    BY DEF S
  <2>. QED BY <2>1, <2>2, <2>3 DEF Steps
<1>2. Overwrite(w, x) = F[k]
  BY DEF Overwrite, CharOf
<1>. HIDE DEF k, S, step
<1>3. PICK f : /\ f = [n \in 0 .. k |-> IF n = 0 THEN w ELSE st[n][f[n - 1]]]
                /\ f[0] = w /\ (\A n \in 0 .. k : f[n] \in S)
                /\ \A n \in 1 .. k : f[n] = st[n][f[n - 1]]
  <2>. HIDE DEF st
  <2>. QED BY <1>1, IterExists
<1>4. ASSUME NEW n \in 1 .. k PROVE st[n][f[n - 1]] = step(n, f[n - 1])
  <2>1. f[n - 1] \in S /\ n \in Nat
    <3>. HIDE DEF st
    <3>. QED BY <1>1, <1>3
  <2>. QED BY <2>1
<1>5. Eq(f)
  <2>. HIDE DEF st
  <2>1. DOMAIN f = 0 .. k /\ f = [n \in 0 .. k |-> f[n]]
    BY <1>3, Zenon
  <2>2. ASSUME NEW n \in 0 .. k PROVE f[n] = IF n = 0 THEN w ELSE step(n, f[n - 1])
    <3>1. CASE n = 0
      BY <1>3, <3>1
    <3>2. CASE n # 0
      <4>1. n \in 1 .. k
        BY <1>1, <3>2
      <4>. QED BY <1>3, <1>4, <3>2, <4>1
    <3>. QED BY <3>1, <3>2
  <2>. QED BY <2>1, <2>2
<1>. HIDE DEF Eq
<1>6. Eq(F)
  BY <1>5
<1>. HIDE DEF F
<1>7. \A n \in 0 .. k : F[n] = IF n = 0 THEN w ELSE step(n, F[n - 1])
  BY <1>6, Zenon DEF Eq
<1>8. 0 \in 0 .. k /\ \A n \in 1 .. k : n \in 0 .. k /\ n # 0
  BY <1>1
<1>9. F[0] = w /\ \A n \in 1 .. k : F[n] = step(n, F[n - 1])
  BY <1>7, <1>8, Zenon
<1>10. \A n \in 0 .. k : F[n] \in S
  <2>. DEFINE T == {n \in 0 .. k : F[n] \in S}
  <2>1. 0 \in T
    BY <1>8, <1>9 DEF S
  <2>2. ASSUME NEW n \in 0 .. k - 1, n \in T PROVE n + 1 \in T
    <3>1. n + 1 \in 1 .. k /\ n + 1 \in 0 .. k /\ (n + 1) - 1 = n /\ F[n] \in S
      BY <1>1, <2>2
    <3>2. F[n + 1] = step(n + 1, F[n])
      BY <1>9, <3>1
    <3>3. step(n + 1, F[n]) \in S
      <4>1. (n + 1) - 1 \in Int
        BY <1>1
      <4>. QED BY <3>1, <4>1, StepOver DEF S, step
    <3>. QED BY <3>1, <3>2, <3>3
  <2>. HIDE DEF T
  <2>3. \A n \in 0 .. k : n \in T
    BY <1>1, <2>1, <2>2, UpTo
  <2>. QED BY <2>3 DEF T
<1>. QED BY <1>2, <1>9, <1>10 DEF k, S, step

(* Moving up to a slice stays in the states of the walk. *)
LEMMA AdvanceToWalks ==
  ASSUME NEW R \in Nat, NEW w \in Walks(R), NEW to \in Nat
  PROVE  AdvanceTo(w, to) \in Walks(R)
<1>1. StepsTo(w, to) \in 0 .. StepsTo(w, to)
  BY StepsToNat
<1>. QED BY <1>1, AdvanceLoop

(* So does writing over it. *)
LEMMA OverwriteWalks ==
  ASSUME NEW R \in Nat, NEW w \in Walks(R), NEW x \in Redactable(R)
  PROVE  Overwrite(w, x) \in Walks(R)
<1>1. x.toIndex \in Nat
  BY RedactableFields
<1>2. StepsTo(w, x.toIndex) \in 0 .. StepsTo(w, x.toIndex)
  BY <1>1, StepsToNat
<1>. QED BY <1>2, OverwriteLoop

(* Noting a TOPRF changes nothing else. *)
LEMMA MarkedFields ==
  ASSUME NEW R \in Nat, NEW v \in Walks(R), NEW x \in Redactable(R)
  PROVE  /\ Marked(v, x) \in Walks(R) /\ Marked(v, x).cursor = v.cursor /\ Marked(v, x).plain = v.plain
         /\ Marked(v, x).blockIdx = v.blockIdx /\ Marked(v, x).cursorInBlock = v.cursorInBlock
         /\ x.hash => ToprfAt(v, x) \in Toprf
         /\ Marked(v, x).toprfs = IF x.hash THEN Append(v.toprfs, ToprfAt(v, x)) ELSE v.toprfs
<1>1. x.fromIndex \in Nat /\ x.toIndex \in Nat /\ (x.hash => x.fromIndex < x.toIndex) /\ x.hash \in BOOLEAN
  BY RedactableFields
<1>2. v.blockIdx \in Nat /\ v.cursorInBlock \in Nat /\ v.toprfs \in Seq(Toprf)
  BY DEF Walks
<1>3. ASSUME x.hash PROVE ToprfAt(v, x) \in Toprf
  <2>1. x.toIndex - x.fromIndex \in Nat \ {0}
    BY <1>1, <1>3
  <2>. QED BY <1>1, <1>2, <2>1 DEF Toprf, ToprfAt
<1>. DEFINE t == Append(v.toprfs, ToprfAt(v, x))
            a == [v EXCEPT !.toprfs = t]
<1>4. x.hash => t \in Seq(Toprf)
  BY <1>2, <1>3, AppendProperties
<1>5. Marked(v, x) = IF x.hash THEN a ELSE v
  BY DEF Marked
<1>. HIDE DEF t
<1>6. x.hash =>
      /\ a \in Walks(R) /\ a.cursor = v.cursor /\ a.plain = v.plain
      /\ a.blockIdx = v.blockIdx /\ a.cursorInBlock = v.cursorInBlock /\ a.toprfs = t
  BY <1>4 DEF Walks
<1>. HIDE DEF a
<1>7. CASE x.hash
  BY <1>3, <1>5, <1>6, <1>7 DEF t
<1>8. CASE ~x.hash
  BY <1>3, <1>5, <1>8
<1>. QED BY <1>7, <1>8

(* redactBlocks moves up to the slice, notes the TOPRF and writes over the  *)
(* slice.                                                                   *)
LEMMA redactBlocksIs ==
  ASSUME NEW w, NEW x
  PROVE  redactBlocks(w, x) = Overwrite(Marked(AdvanceTo(w, x.fromIndex), x), x)
BY DEF redactBlocks, Marked, ToprfAt

(* It stays in the states of the walk. *)
LEMMA redactBlocksWalks ==
  ASSUME NEW R \in Nat, NEW w \in Walks(R), NEW x \in Redactable(R)
  PROVE  redactBlocks(w, x) \in Walks(R)
<1>1. x.fromIndex \in Nat
  BY RedactableFields
<1>. QED BY <1>1, AdvanceToWalks, MarkedFields, OverwriteWalks, redactBlocksIs

(* The walk starts at the first byte of the first block, with everything    *)
(* clear.                                                                   *)
LEMMA NewWalkFields ==
  ASSUME NEW R \in Nat, Received = R
  PROVE  /\ NewWalk \in Walks(R) /\ NewWalk.cursor = 0 /\ NewWalk.blockIdx = 1 /\ NewWalk.cursorInBlock = 0
         /\ NewWalk.toprfs = <<>> /\ \A p \in 1 .. R : NewWalk.plain[p] = Clear
<1>. DEFINE f == [p \in 1 .. R |-> Clear]
<1>1. NewWalk = [cursor |-> 0, blockIdx |-> 1, cursorInBlock |-> 0, toprfs |-> <<>>, plain |-> f]
  BY DEF NewWalk
<1>2. f \in [1 .. R -> Chars] /\ \A p \in 1 .. R : f[p] = Clear
  BY SomeChars
<1>. HIDE DEF f
<1>3. <<>> \in Seq(Toprf)
  OBVIOUS
<1>. QED BY <1>1, <1>2, <1>3 DEF Walks

(* Redacted is one redactBlocks for every slice of the list. *)
LEMMA RedactedLoop ==
  ASSUME NEW R \in Nat, Received = R, NEW s \in Seq(Redactable(R))
  PROVE  \E F : /\ F[0] = NewWalk /\ (\A n \in 0 .. Len(s) : F[n] \in Walks(R))
                /\ \A n \in 1 .. Len(s) : F[n] = redactBlocks(F[n - 1], s[n])
                /\ Redacted(s) = F[Len(s)]
<1>. DEFINE k == Len(s)
            S == Walks(R)
            w == NewWalk
            step(n, v) == redactBlocks(v, s[n])
            st == [n \in Nat |-> [v \in S |-> IF n \in 1 .. k THEN step(n, v) ELSE v]]
            Eq(f) == f = [n \in 0 .. k |-> IF n = 0 THEN w ELSE step(n, f[n - 1])]
            F == CHOOSE f : Eq(f)
<1>0. \A n \in 1 .. k : \A v \in S : step(n, v) \in S
  <2>1. \A n \in 1 .. k : s[n] \in Redactable(R)
    OBVIOUS
  <2>. QED BY <2>1, redactBlocksWalks
<1>1. Steps(k, S, st, w) /\ k \in Nat
  <2>1. k \in Nat
    OBVIOUS
  <2>3. w \in S
    BY NewWalkFields
  <2>. HIDE DEF S, k, step, w
  <2>. QED BY <1>0, <2>1, <2>3 DEF Steps
<1>2. Redacted(s) = F[k]
  BY DEF Redacted
<1>. HIDE DEF k, S, step, w
<1>3. PICK f : /\ f = [n \in 0 .. k |-> IF n = 0 THEN w ELSE st[n][f[n - 1]]]
                /\ f[0] = w /\ (\A n \in 0 .. k : f[n] \in S)
                /\ \A n \in 1 .. k : f[n] = st[n][f[n - 1]]
  <2>. HIDE DEF st
  <2>. QED BY <1>1, IterExists
<1>4. ASSUME NEW n \in 1 .. k PROVE st[n][f[n - 1]] = step(n, f[n - 1])
  <2>1. f[n - 1] \in S /\ n \in Nat
    <3>. HIDE DEF st
    <3>. QED BY <1>1, <1>3
  <2>. QED BY <2>1
<1>5. Eq(f)
  <2>. HIDE DEF st
  <2>1. DOMAIN f = 0 .. k /\ f = [n \in 0 .. k |-> f[n]]
    BY <1>3, Zenon
  <2>2. ASSUME NEW n \in 0 .. k PROVE f[n] = IF n = 0 THEN w ELSE step(n, f[n - 1])
    <3>1. CASE n = 0
      BY <1>3, <3>1
    <3>2. CASE n # 0
      <4>1. n \in 1 .. k
        BY <1>1, <3>2
      <4>. QED BY <1>3, <1>4, <3>2, <4>1
    <3>. QED BY <3>1, <3>2
  <2>. QED BY <2>1, <2>2
<1>. HIDE DEF Eq
<1>6. Eq(F)
  BY <1>5
<1>. HIDE DEF F
<1>7. \A n \in 0 .. k : F[n] = IF n = 0 THEN w ELSE step(n, F[n - 1])
  BY <1>6, Zenon DEF Eq
<1>8. 0 \in 0 .. k /\ \A n \in 1 .. k : n \in 0 .. k /\ n # 0
  BY <1>1
<1>9. F[0] = w /\ \A n \in 1 .. k : F[n] = step(n, F[n - 1])
  BY <1>7, <1>8, Zenon
<1>10. \A n \in 0 .. k : F[n] \in S
  <2>. DEFINE T == {n \in 0 .. k : F[n] \in S}
  <2>1. 0 \in T
    BY <1>8, <1>9, NewWalkFields DEF S, w
  <2>2. ASSUME NEW n \in 0 .. k - 1, n \in T PROVE n + 1 \in T
    <3>1. n + 1 \in 1 .. k /\ n + 1 \in 0 .. k /\ (n + 1) - 1 = n /\ F[n] \in S
      BY <1>1, <2>2
    <3>2. F[n + 1] = step(n + 1, F[n])
      BY <1>9, <3>1
    <3>3. step(n + 1, F[n]) \in S
      BY <1>0, <3>1
    <3>. QED BY <3>1, <3>2, <3>3
  <2>. HIDE DEF T
  <2>3. \A n \in 0 .. k : n \in T
    BY <1>1, <2>1, <2>2, UpTo
  <2>. QED BY <2>3 DEF T
<1>. QED BY <1>2, <1>9, <1>10 DEF k, S, step, w

(* It stays in the states of the walk. *)
LEMMA RedactedWalks ==
  ASSUME NEW R \in Nat, Received = R, NEW s \in Seq(Redactable(R))
  PROVE  Redacted(s) \in Walks(R)
<1>1. Len(s) \in 0 .. Len(s)
  OBVIOUS
<1>. QED BY <1>1, RedactedLoop

-----------------------------------------------------------------------------
(* The blocks of a response and the proofs of each. *)

(* Where a block starts and ends. *)
LEMMA BlockNumbers ==
  ASSUME NEW R, NEW bl, Blocks(bl, R), NEW b \in 1 .. Len(bl)
  PROVE  /\ StartOf(bl, b) \in 0 .. R /\ bl[b] \in 0 .. R /\ LenOf(bl, b) \in 0 .. R
         /\ StartOf(bl, b) + LenOf(bl, b) = bl[b] /\ R \in Nat /\ Len(bl) \in Nat
<1>1. R \in Nat /\ bl[b] \in 0 .. R /\ StartOf(bl, b) <= bl[b] /\ Len(bl) \in Nat
  BY DEF Blocks
<1>2. StartOf(bl, b) \in 0 .. R
  <2>1. CASE b = 1
    BY <1>1, <2>1 DEF StartOf
  <2>2. CASE b # 1
    <3>1. b - 1 \in 1 .. Len(bl)
      BY <1>1, <2>2
    <3>. QED BY <2>2, <3>1 DEF StartOf, Blocks
  <2>. QED BY <2>1, <2>2
<1>. QED BY <1>1, <1>2 DEF LenOf

(* Every byte received is in a block. *)
LEMMA BlockHolds ==
  ASSUME NEW R, NEW bl, Blocks(bl, R), NEW p \in 1 .. R
  PROVE  \E b \in 1 .. Len(bl) : StartOf(bl, b) < p /\ p <= bl[b]
<1>0. R \in Nat /\ bl \in Seq(0 .. R) /\ Len(bl) \in Nat /\ Len(bl) > 0 /\ bl[Len(bl)] = R
  BY DEF Blocks
<1>. DEFINE T == {b \in 1 .. Len(bl) : p <= bl[b]}
<1>1. T \in SUBSET Nat /\ Len(bl) \in T
  BY <1>0
<1>2. PICK b \in T : \A y \in T : b <= y
  BY <1>1, LeastOf
<1>3. b \in 1 .. Len(bl) /\ p <= bl[b]
  BY <1>2
<1>4. StartOf(bl, b) < p
  <2>1. CASE b = 1
    BY <1>0, <2>1 DEF StartOf
  <2>2. CASE b # 1
    <3>1. b - 1 \in 1 .. Len(bl) /\ ~(b <= b - 1)
      BY <1>0, <1>3, <2>2
    <3>2. b - 1 \notin T
      BY <1>2, <3>1
    <3>3. bl[b - 1] \in 0 .. R /\ ~(p <= bl[b - 1])
      BY <1>0, <3>1, <3>2
    <3>. QED BY <1>0, <2>2, <3>3 DEF StartOf
  <2>. QED BY <2>1, <2>2
<1>. QED BY <1>3, <1>4

(* The text of a block is the walk's, and its suffix. *)
LEMMA TextFacts ==
  ASSUME NEW R, NEW bl, Blocks(bl, R), NEW b \in 1 .. Len(bl), NEW w \in Walks(R)
  PROVE  /\ TextOf(bl, w, b) \in Seq(Chars) /\ Len(TextOf(bl, w, b)) = LenOf(bl, b) + Suffix
         /\ LenOf(bl, b) \in 0 .. Len(TextOf(bl, w, b))
         /\ \A i \in 1 .. LenOf(bl, b) : /\ StartOf(bl, b) + i \in 1 .. R
                                         /\ TextOf(bl, w, b)[i] = w.plain[StartOf(bl, b) + i]
<1>0. /\ StartOf(bl, b) \in 0 .. R /\ bl[b] \in 0 .. R /\ LenOf(bl, b) \in 0 .. R
      /\ StartOf(bl, b) + LenOf(bl, b) = bl[b] /\ R \in Nat
  BY BlockNumbers
<1>1. PICK m, n, l \in Nat : m = StartOf(bl, b) /\ n = bl[b] /\ l = LenOf(bl, b)
  BY <1>0
<1>2. m + l = n /\ n <= R
  BY <1>0, <1>1
<1>3. w.plain \in [1 .. R -> Chars]
  BY DEF Walks
<1>. DEFINE a == SubSeq(w.plain, m + 1, n)
            z == [i \in 1 .. Suffix |-> Clear]
<1>4. w.plain \in Seq(Chars) /\ Len(w.plain) = R
  BY <1>0, <1>3
<1>5. a \in Seq(Chars) /\ Len(a) = l /\ \A i \in 1 .. l : a[i] = w.plain[m + i]
  <2>1. m + 1 \in Int /\ n \in Int /\ \A j \in m + 1 .. n : w.plain[j] \in Chars
    BY <1>0, <1>2, <1>3
  <2>2. /\ a \in Seq(Chars) /\ Len(a) = (IF m + 1 <= n THEN n - (m + 1) + 1 ELSE 0)
        /\ \A i \in 1 .. n - (m + 1) + 1 : a[i] = w.plain[(m + 1) + i - 1]
    BY <2>1, SubSeqProperties
  <2>3. Len(a) = l
    BY <1>2, <2>2
  <2>4. ASSUME NEW i \in 1 .. l PROVE a[i] = w.plain[m + i]
    <3>1. i \in 1 .. n - (m + 1) + 1 /\ (m + 1) + i - 1 = m + i
      BY <1>2
    <3>. QED BY <2>2, <3>1
  <2>. QED BY <2>2, <2>3, <2>4
<1>6. z \in Seq(Chars) /\ Len(z) = Suffix /\ Suffix \in Nat
  <2>1. Suffix \in Nat
    BY SuffixAssumption
  <2>. QED BY <2>1, SomeChars
<1>. HIDE DEF a, z
<1>7. TextOf(bl, w, b) = a \o z
  BY <1>1 DEF TextOf, a, z
<1>8. a \o z \in Seq(Chars) /\ Len(a \o z) = l + Suffix /\ \A i \in 1 .. l : (a \o z)[i] = a[i]
  <2>1. /\ a \o z \in Seq(Chars) /\ Len(a \o z) = Len(a) + Len(z)
        /\ \A i \in 1 .. Len(a) + Len(z) : (a \o z)[i] = IF i <= Len(a) THEN a[i] ELSE z[i - Len(a)]
    BY <1>5, <1>6, ConcatProperties
  <2>. DEFINE c == a \o z
  <2>. HIDE DEF c
  <2>2. /\ c \in Seq(Chars) /\ Len(c) = l + Suffix
        /\ \A i \in 1 .. l + Suffix : c[i] = IF i <= l THEN a[i] ELSE z[i - l]
    BY <1>5, <1>6, <2>1 DEF c
  <2>3. \A i \in 1 .. l : c[i] = a[i]
    BY <1>6, <2>2
  <2>. QED BY <2>2, <2>3 DEF c
<1>9. \A i \in 1 .. l : m + i \in 1 .. R
  BY <1>0, <1>2
<1>. QED BY <1>1, <1>5, <1>6, <1>7, <1>8, <1>9, SMTT(40)

(* The TOPRFs of a block have a place in it. *)
LEMMA ToprfsPlaced ==
  ASSUME NEW R, NEW w \in Walks(R), NEW b
  PROVE  Placed(ToprfsIn(w, b))
<1>1. w.toprfs \in Seq(Toprf)
  BY DEF Walks
<1>2. \A k \in DOMAIN w.toprfs : w.toprfs[k] \in Toprf
  BY <1>1
<1>3. \A t \in Toprf : t.fromIndex \in Nat /\ t.length \in Nat \ {0}
  BY DEF Toprf
<1>. QED BY <1>2, <1>3 DEF Placed, ToprfsIn

(* The attestor decrypts of a block what the client redacted, from proofs   *)
(* that do not overlap.                                                     *)
LEMMA BlockSeen ==
  ASSUME NEW R, NEW bl, Blocks(bl, R), NEW b \in 1 .. Len(bl), NEW w \in Walks(R), NEW pk,
         ProvedBlock(bl, w, pk, b)
  PROVE  /\ \A i \in 1 .. LenOf(bl, b) : Decrypted(pk[b], LenOf(bl, b))[i] = w.plain[StartOf(bl, b) + i]
         /\ \A p, q \in pk[b] : p # q => ~Overlap(p, q)
<1>. DEFINE text == TextOf(bl, w, b)
            ts == ToprfsIn(w, b)
            size == LenOf(bl, b)
<1>0. /\ text \in Seq(Chars) /\ size \in 0 .. Len(text) /\ Placed(ts)
      /\ \A i \in 1 .. size : text[i] = w.plain[StartOf(bl, b) + i]
  BY TextFacts, ToprfsPlaced
<1>. HIDE DEF text, ts, size
<1>1. CASE RevealedIn(bl, w, b)
  <2>1. pk[b] = Proofs(text, ts) /\ ~CannotProve(ts, Len(text))
    BY <1>1 DEF ProvedBlock, text, ts
  <2>2. Decrypted(Proofs(text, ts), size) = [i \in 1 .. size |-> text[i]]
    BY <1>0, <2>1, AttestorSeesRecord
  <2>3. \A i \in 1 .. size : Decrypted(pk[b], size)[i] = w.plain[StartOf(bl, b) + i]
    BY <1>0, <2>1, <2>2
  <2>4. ASSUME NEW p \in pk[b], NEW q \in pk[b], p # q PROVE ~Overlap(p, q)
    BY <1>0, <2>1, <2>4, ProofsApart
  <2>. QED BY <2>3, <2>4 DEF size
<1>2. CASE ~RevealedIn(bl, w, b)
  <2>1. pk[b] = {}
    BY <1>2 DEF ProvedBlock
  <2>2. \A i \in 1 .. size : w.plain[StartOf(bl, b) + i] = Star
    BY <1>2 DEF RevealedIn, size
  <2>3. \A i \in 1 .. size : Decrypted({}, size)[i] = Star
    BY DEF Decrypted
  <2>. QED BY <2>1, <2>2, <2>3 DEF size
<1>. QED BY <1>1, <1>2

(* These are the blocks, texts and proofs of the state. *)
LEMMA BlocksAre ==
  ASSUME NEW b
  PROVE  /\ BlockStart(b) = StartOf(blocks, b) /\ BlockLen(b) = LenOf(blocks, b)
         /\ Revealed(b) <=> RevealedIn(blocks, walk, b)
         /\ RedactedPlaintext(b) = TextOf(blocks, walk, b) /\ ToprfsOf(b) = ToprfsIn(walk, b)
         /\ ProofsOf(b) = Proofs(TextOf(blocks, walk, b), ToprfsIn(walk, b))
<1>1. BlockStart(b) = StartOf(blocks, b)
  BY DEF BlockStart, StartOf
<1>2. BlockLen(b) = LenOf(blocks, b)
  BY <1>1 DEF BlockLen, LenOf
<1>3. RedactedPlaintext(b) = TextOf(blocks, walk, b)
  BY <1>1 DEF RedactedPlaintext, TextOf
<1>4. ToprfsOf(b) = ToprfsIn(walk, b)
  BY DEF ToprfsOf, ToprfsIn
<1>5. Revealed(b) <=> RevealedIn(blocks, walk, b)
  BY <1>1, <1>2 DEF Revealed, RevealedIn
<1>. QED BY <1>1, <1>2, <1>3, <1>4, <1>5 DEF ProofsOf

-----------------------------------------------------------------------------
(* The cursor of getBlocksToReveal is where it should be, as long as no     *)
(* block is empty.                                                          *)

(* advance keeps them so: the next block has data. *)
LEMMA AdvanceAt ==
  ASSUME NEW R, Blocks(blocks, R), NoEmpty(blocks), NEW w, AtCursor(w, R, blocks), w.cursor < R
  PROVE  /\ AtCursor(advance(w), R, blocks) /\ advance(w).cursor = w.cursor + 1
         /\ advance(w).toprfs = w.toprfs /\ advance(w).plain = w.plain
<1>. DEFINE b == w.blockIdx
            i == w.cursorInBlock
            v == advance(w)
<1>0. /\ R \in Nat /\ w \in Walks(R) /\ w.cursor \in 0 .. R /\ b \in 1 .. Len(blocks) /\ i \in Nat
      /\ i < LenOf(blocks, b) /\ StartOf(blocks, b) + i = w.cursor /\ BlockLen(b) = LenOf(blocks, b)
      /\ Len(blocks) \in Nat /\ blocks[Len(blocks)] = R
  BY BlocksAre DEF AtCursor, CursorAt, Blocks
<1>1. /\ v \in Walks(R) /\ v.cursor = w.cursor + 1 /\ v.toprfs = w.toprfs /\ v.plain = w.plain
      /\ i + 1 >= BlockLen(b) => v.blockIdx = b + 1 /\ v.cursorInBlock = 0
      /\ ~(i + 1 >= BlockLen(b)) => v.blockIdx = b /\ v.cursorInBlock = i + 1
  BY <1>0, AdvanceFields
<1>. HIDE DEF v, b, i
<1>2. /\ StartOf(blocks, b) \in 0 .. R /\ blocks[b] \in 0 .. R /\ LenOf(blocks, b) \in 0 .. R
      /\ StartOf(blocks, b) + LenOf(blocks, b) = blocks[b]
  BY <1>0, BlockNumbers
<1>3. v.cursor \in 0 .. R
  BY <1>0, <1>1
<1>4. v.cursor < R => CursorAt(blocks, v.cursor, v.blockIdx, v.cursorInBlock)
  <2>1. CASE i + 1 >= BlockLen(b)
    <3>1. i + 1 = LenOf(blocks, b) /\ v.cursor = blocks[b]
      <4>1. PICK s, l, e, k \in Nat : s = StartOf(blocks, b) /\ l = LenOf(blocks, b) /\ e = blocks[b] /\ k = i
        BY <1>0, <1>2
      <4>2. k < l /\ s + k = w.cursor /\ s + l = e /\ k + 1 >= l
        BY <1>0, <1>2, <2>1, <4>1
      <4>3. k + 1 = l /\ (s + k) + 1 = e
        BY <4>2
      <4>. QED BY <1>1, <4>1, <4>2, <4>3
    <3>2. CASE b = Len(blocks)
      BY <1>0, <3>1, <3>2
    <3>3. CASE b # Len(blocks)
      <4>1. b + 1 \in 1 .. Len(blocks) /\ b + 1 # 1 /\ (b + 1) - 1 = b
        BY <1>0, <3>3
      <4>2. StartOf(blocks, b + 1) = blocks[b] /\ LenOf(blocks, b + 1) > 0
        BY <4>1 DEF StartOf, NoEmpty
      <4>. QED BY <1>1, <1>2, <2>1, <3>1, <4>1, <4>2 DEF CursorAt
    <3>. QED BY <3>2, <3>3
  <2>2. CASE ~(i + 1 >= BlockLen(b))
    <3>1. PICK s, l, k \in Nat : s = StartOf(blocks, b) /\ l = LenOf(blocks, b) /\ k = i
      BY <1>0, <1>2
    <3>3. s + k = w.cursor /\ ~(k + 1 >= l)
      BY <1>0, <2>2, <3>1
    <3>4. k + 1 \in Nat /\ k + 1 < l /\ s + (k + 1) = (s + k) + 1
      BY <3>3
    <3>2. i + 1 \in Nat /\ i + 1 < l /\ s + (i + 1) = w.cursor + 1
      BY <3>1, <3>3, <3>4
    <3>. QED BY <1>0, <1>1, <2>2, <3>1, <3>2 DEF CursorAt
  <2>. QED BY <2>1, <2>2
<1>5. ASSUME ~(v.cursor < R) PROVE v.blockIdx \notin 1 .. Len(blocks)
  <2>1. PICK s, l, e, k \in Nat : s = StartOf(blocks, b) /\ l = LenOf(blocks, b) /\ e = blocks[b] /\ k = i
    BY <1>0, <1>2
  <2>2. k < l /\ s + k = w.cursor /\ s + l = e /\ e <= R /\ v.cursor = w.cursor + 1
    BY <1>0, <1>1, <1>2, <2>1
  <2>3. e = R /\ k + 1 >= l
    BY <1>0, <1>3, <1>5, <2>2
  <2>4. v.blockIdx = b + 1
    BY <1>0, <1>1, <2>1, <2>3
  <2>5. SUFFICES ASSUME b + 1 \in 1 .. Len(blocks) PROVE FALSE
    BY <2>4
  <2>6. StartOf(blocks, b + 1) = R /\ LenOf(blocks, b + 1) > 0
    <3>1. b + 1 # 1 /\ (b + 1) - 1 = b /\ blocks[b] = R
      BY <1>0, <2>1, <2>3
    <3>. QED BY <2>5, <3>1 DEF StartOf, NoEmpty
  <2>7. blocks[b + 1] \in 0 .. R /\ StartOf(blocks, b + 1) + LenOf(blocks, b + 1) = blocks[b + 1]
        /\ LenOf(blocks, b + 1) \in 0 .. R
    BY <2>5, BlockNumbers
  <2>8. PICK f, z \in Nat : f = LenOf(blocks, b + 1) /\ z = blocks[b + 1]
    BY <1>0, <2>7
  <2>9. f > 0 /\ z <= R /\ R + f = z
    BY <1>0, <2>6, <2>7, <2>8
  <2>. QED BY <1>0, <2>9
<1>. QED BY <1>1, <1>3, <1>4, <1>5 DEF AtCursor, v

(* A write changes the byte at the cursor. *)
LEMMA WriteAt ==
  ASSUME NEW R, Blocks(blocks, R), NEW w, AtCursor(w, R, blocks), w.cursor < R, NEW c \in Chars
  PROVE  /\ AtCursor(Write(w, c), R, blocks) /\ Write(w, c).cursor = w.cursor
         /\ Write(w, c).toprfs = w.toprfs
         /\ \A p \in 1 .. R : Write(w, c).plain[p] = IF p = w.cursor + 1 THEN c ELSE w.plain[p]
<1>. DEFINE b == w.blockIdx
            i == w.cursorInBlock
            v == Write(w, c)
<1>0. /\ R \in Nat /\ w \in Walks(R) /\ w.cursor \in 0 .. R /\ b \in 1 .. Len(blocks) /\ i \in Nat
      /\ i < LenOf(blocks, b) /\ StartOf(blocks, b) + i = w.cursor /\ BlockLen(b) = LenOf(blocks, b)
      /\ BlockStart(b) = StartOf(blocks, b)
  BY BlocksAre DEF AtCursor, CursorAt, Blocks
<1>1. /\ v \in Walks(R) /\ v.cursor = w.cursor /\ v.toprfs = w.toprfs
      /\ v.blockIdx = b /\ v.cursorInBlock = i
      /\ i < BlockLen(b) =>
           \A p \in 1 .. R : v.plain[p] = IF p = BlockStart(b) + i + 1 THEN c ELSE w.plain[p]
  BY <1>0, WriteFields
<1>. HIDE DEF v, b, i
<1>2. StartOf(blocks, b) \in 0 .. R
  BY <1>0, BlockNumbers
<1>3. \A p \in 1 .. R : v.plain[p] = IF p = w.cursor + 1 THEN c ELSE w.plain[p]
  BY <1>0, <1>1, <1>2
<1>. QED BY <1>0, <1>1, <1>3 DEF AtCursor, v, b, i

(* The loop up to a slice stops at its start, or stays where the cursor is  *)
(* behind it.                                                               *)
LEMMA AdvanceToAt ==
  ASSUME NEW R, Blocks(blocks, R), NoEmpty(blocks), NEW w, AtCursor(w, R, blocks), NEW to \in 0 .. R
  PROVE  /\ AtCursor(AdvanceTo(w, to), R, blocks)
         /\ AdvanceTo(w, to).cursor = IF w.cursor < to THEN to ELSE w.cursor
         /\ AdvanceTo(w, to).toprfs = w.toprfs /\ AdvanceTo(w, to).plain = w.plain
<1>0. R \in Nat /\ w \in Walks(R) /\ w.cursor \in 0 .. R /\ to \in Nat
  BY DEF AtCursor, Blocks
<1>. DEFINE k == StepsTo(w, to)
<1>1. k \in Nat /\ w.cursor + k = IF w.cursor < to THEN to ELSE w.cursor
  BY <1>0, StepsToNat
<1>2. PICK F : /\ F[0] = w /\ (\A n \in 1 .. k : F[n] = advance(F[n - 1]))
               /\ AdvanceTo(w, to) = F[k]
  BY <1>0, AdvanceLoop
<1>. HIDE DEF k
<1>. DEFINE T == {n \in 0 .. k : /\ AtCursor(F[n], R, blocks) /\ F[n].cursor = w.cursor + n
                                 /\ F[n].toprfs = w.toprfs /\ F[n].plain = w.plain}
<1>3. 0 \in T
  BY <1>0, <1>1, <1>2
<1>4. ASSUME NEW n \in 0 .. k - 1, n \in T PROVE n + 1 \in T
  <2>1. /\ AtCursor(F[n], R, blocks) /\ F[n].cursor = w.cursor + n
        /\ F[n].toprfs = w.toprfs /\ F[n].plain = w.plain
    BY <1>4
  <2>2. n + 1 \in 1 .. k /\ n + 1 \in 0 .. k /\ (n + 1) - 1 = n
    BY <1>1
  <2>3. F[n + 1] = advance(F[n])
    BY <1>2, <2>2
  <2>4. F[n].cursor < R
    BY <1>0, <1>1, <2>1
  <2>5. /\ AtCursor(F[n + 1], R, blocks) /\ F[n + 1].cursor = F[n].cursor + 1
        /\ F[n + 1].toprfs = F[n].toprfs /\ F[n + 1].plain = F[n].plain
    BY <2>1, <2>3, <2>4, AdvanceAt
  <2>6. F[n + 1].cursor = w.cursor + (n + 1)
    BY <1>0, <2>1, <2>5
  <2>. QED BY <2>1, <2>2, <2>5, <2>6
<1>. HIDE DEF T
<1>5. k \in T
  BY <1>1, <1>3, <1>4, UpTo
<1>6. /\ AtCursor(F[k], R, blocks) /\ F[k].cursor = w.cursor + k
      /\ F[k].toprfs = w.toprfs /\ F[k].plain = w.plain
  BY <1>5 DEF T
<1>. QED BY <1>1, <1>2, <1>6

(* The loop over a slice overwrites the bytes from the cursor to the        *)
(* slice's end.                                                             *)
LEMMA OverwriteAt ==
  ASSUME NEW R, Blocks(blocks, R), NoEmpty(blocks), NEW w, AtCursor(w, R, blocks), NEW x \in Redactable(R),
         w.cursor <= x.toIndex
  PROVE  /\ AtCursor(Overwrite(w, x), R, blocks) /\ Overwrite(w, x).cursor = x.toIndex
         /\ Overwrite(w, x).toprfs = w.toprfs
         /\ \A p \in 1 .. R : Overwrite(w, x).plain[p] =
              IF w.cursor < p /\ p <= x.toIndex THEN CharOf(x, p - 1 - w.cursor) ELSE w.plain[p]
<1>0. R \in Nat /\ w \in Walks(R) /\ w.cursor \in 0 .. R
  BY DEF AtCursor, Blocks
<1>a. x.toIndex \in 0 .. R
  BY <1>0, RedactableFields
<1>. DEFINE k == StepsTo(w, x.toIndex)
            c0 == w.cursor
<1>1. k \in Nat /\ c0 + k = x.toIndex
  <2>1. x.toIndex \in Nat
    BY <1>0, <1>a
  <2>2. k \in Nat /\ c0 + k = IF c0 < x.toIndex THEN x.toIndex ELSE c0
    BY <1>0, <2>1, StepsToNat
  <2>. QED BY <1>0, <1>a, <2>2
<1>2. PICK F : /\ F[0] = w /\ (\A n \in 1 .. k : F[n] = advance(Write(F[n - 1], CharOf(x, n - 1))))
               /\ Overwrite(w, x) = F[k]
  BY <1>0, OverwriteLoop
<1>. HIDE DEF k
<1>. DEFINE Is(n, p) == F[n].plain[p] = IF c0 < p /\ p <= c0 + n THEN CharOf(x, p - 1 - c0) ELSE w.plain[p]
            T == {n \in 0 .. k : /\ AtCursor(F[n], R, blocks) /\ F[n].cursor = c0 + n
                                 /\ F[n].toprfs = w.toprfs /\ \A p \in 1 .. R : Is(n, p)}
<1>3. 0 \in T
  <2>1. \A p \in 1 .. R : ~(c0 < p /\ p <= c0 + 0)
    BY <1>0
  <2>. QED BY <1>0, <1>1, <1>2, <2>1
<1>4. ASSUME NEW n \in 0 .. k - 1, n \in T PROVE n + 1 \in T
  <2>1. /\ AtCursor(F[n], R, blocks) /\ F[n].cursor = c0 + n
        /\ F[n].toprfs = w.toprfs /\ \A p \in 1 .. R : Is(n, p)
    BY <1>4
  <2>. HIDE DEF Is
  <2>2. n + 1 \in 1 .. k /\ n + 1 \in 0 .. k /\ (n + 1) - 1 = n /\ n \in Int
    BY <1>1
  <2>. DEFINE ch == CharOf(x, n)
              v == Write(F[n], ch)
  <2>3. F[n + 1] = advance(v)
    BY <1>2, <2>2
  <2>4. F[n].cursor < R
    BY <1>0, <1>1, <1>a, <2>1
  <2>5. ch \in Chars
    BY <1>0, <2>2, CharOfChars
  <2>. HIDE DEF ch
  <2>6. /\ AtCursor(v, R, blocks) /\ v.cursor = F[n].cursor /\ v.toprfs = F[n].toprfs
        /\ \A p \in 1 .. R : v.plain[p] = IF p = F[n].cursor + 1 THEN ch ELSE F[n].plain[p]
    BY <2>1, <2>4, <2>5, WriteAt
  <2>. HIDE DEF v
  <2>7. /\ AtCursor(F[n + 1], R, blocks) /\ F[n + 1].cursor = v.cursor + 1
        /\ F[n + 1].toprfs = v.toprfs /\ F[n + 1].plain = v.plain
    BY <2>3, <2>4, <2>6, AdvanceAt
  <2>8. F[n + 1].cursor = c0 + (n + 1)
    BY <1>0, <2>1, <2>6, <2>7
  <2>9. ASSUME NEW p \in 1 .. R PROVE Is(n + 1, p)
    <3>1. F[n + 1].plain[p] = IF p = c0 + n + 1 THEN ch ELSE F[n].plain[p]
      BY <2>1, <2>6, <2>7
    <3>2. F[n].plain[p] = IF c0 < p /\ p <= c0 + n THEN CharOf(x, p - 1 - c0) ELSE w.plain[p]
      BY <2>1 DEF Is
    <3>3. CASE p = c0 + n + 1
      <4>1. c0 < p /\ p <= c0 + (n + 1) /\ p - 1 - c0 = n
        BY <1>0, <2>2, <3>3
      <4>. QED BY <3>1, <3>3, <4>1 DEF Is, ch
    <3>4. CASE p # c0 + n + 1
      <4>1. (c0 < p /\ p <= c0 + (n + 1)) <=> (c0 < p /\ p <= c0 + n)
        BY <1>0, <2>2, <3>4
      <4>. QED BY <3>1, <3>2, <3>4, <4>1 DEF Is
    <3>. QED BY <3>3, <3>4
  <2>. QED BY <2>1, <2>2, <2>6, <2>7, <2>8, <2>9
<1>. HIDE DEF T
<1>5. k \in T
  BY <1>1, <1>3, <1>4, UpTo
<1>6. /\ AtCursor(F[k], R, blocks) /\ F[k].cursor = c0 + k
      /\ F[k].toprfs = w.toprfs /\ \A p \in 1 .. R : Is(k, p)
  BY <1>5 DEF T
<1>. QED BY <1>1, <1>2, <1>6

-----------------------------------------------------------------------------

(* redactBlocks overwrites what the slice has behind the cursor, and no     *)
(* other byte.                                                              *)
LEMMA RedactAt ==
  ASSUME NEW R, Blocks(blocks, R), NoEmpty(blocks), NEW w, AtCursor(w, R, blocks), NEW x \in Redactable(R),
         w.cursor <= x.toIndex, NEW v, v = redactBlocks(w, x)
  PROVE  RedactsTo(w, x, v, R, blocks)
<1>0. /\ R \in Nat /\ w \in Walks(R) /\ w.cursor \in 0 .. R
      /\ x.fromIndex \in 0 .. R /\ x.toIndex \in 0 .. R /\ x.fromIndex <= x.toIndex
  BY RedactableFields DEF AtCursor, Blocks
<1>. DEFINE u == AdvanceTo(w, x.fromIndex)
            c == OverFrom(w.cursor, x)
            m == Marked(u, x)
<1>1. AtCursor(u, R, blocks) /\ u.cursor = c /\ u.toprfs = w.toprfs /\ u.plain = w.plain
  BY <1>0, AdvanceToAt, SMTT(40) DEF OverFrom
<1>. HIDE DEF u
<1>2. /\ m \in Walks(R) /\ m.cursor = u.cursor /\ m.plain = u.plain /\ m.blockIdx = u.blockIdx
      /\ m.cursorInBlock = u.cursorInBlock /\ (x.hash => ToprfAt(u, x) \in Toprf)
      /\ m.toprfs = IF x.hash THEN Append(u.toprfs, ToprfAt(u, x)) ELSE u.toprfs
  BY <1>0, <1>1, MarkedFields DEF AtCursor
<1>. HIDE DEF m
<1>3. AtCursor(m, R, blocks)
  BY <1>1, <1>2 DEF AtCursor
<1>4. c \in 0 .. R /\ c <= x.toIndex
  BY <1>0 DEF OverFrom
<1>. HIDE DEF c
<1>5. v = Overwrite(m, x)
  BY redactBlocksIs DEF m, u
<1>6. /\ AtCursor(v, R, blocks) /\ v.cursor = x.toIndex /\ v.toprfs = m.toprfs
      /\ \A p \in 1 .. R : v.plain[p] = IF c < p /\ p <= x.toIndex THEN CharOf(x, p - 1 - c) ELSE w.plain[p]
  BY <1>1, <1>2, <1>3, <1>4, <1>5, OverwriteAt
<1>7. w.toprfs \in Seq(Toprf)
  BY <1>0 DEF Walks
<1>8. NotedAt(ToprfAt(u, x), c, R, blocks, x)
  <2>1. /\ ToprfAt(u, x).text = x.fromIndex /\ ToprfAt(u, x).length = x.toIndex - x.fromIndex
        /\ ToprfAt(u, x).block = u.blockIdx /\ ToprfAt(u, x).fromIndex = u.cursorInBlock
    BY DEF ToprfAt
  <2>. QED BY <1>1, <2>1 DEF NotedAt, AtCursor
<1>9. IF x.hash THEN \E t \in Toprf : v.toprfs = Append(w.toprfs, t) /\ NotedAt(t, c, R, blocks, x)
      ELSE v.toprfs = w.toprfs
  BY <1>1, <1>2, <1>6, <1>8
<1>. QED BY <1>6, <1>7, <1>9 DEF c, RedactsTo

-----------------------------------------------------------------------------
(* What every byte of the response is overwritten with. *)

(* The cursor before a slice is not behind its end. *)
LEMMA CursorNumbers ==
  ASSUME NEW R \in Nat, NEW s, Listed(s, R), NEW n \in 1 .. Len(s)
  PROVE  /\ CursorAfter(s, n - 1) \in 0 .. R /\ s[n] \in Redactable(R) /\ s[n].toIndex \in 0 .. R /\ s[n].fromIndex \in 0 .. R
         /\ s[n].fromIndex <= s[n].toIndex /\ (s[n].hash => s[n].fromIndex < s[n].toIndex)
         /\ CursorAfter(s, n) = s[n].toIndex /\ CursorAfter(s, n - 1) <= s[n].toIndex
         /\ OverAt(s, n) \in 0 .. R /\ OverAt(s, n) >= CursorAfter(s, n - 1) /\ OverAt(s, n) <= s[n].toIndex
<1>0. s \in Seq(Redactable(R)) /\ Len(s) \in Nat
  BY DEF Listed
<1>1. \A j \in 1 .. Len(s) : s[j] \in Redactable(R) /\ s[j].toIndex \in 0 .. R /\ s[j].fromIndex \in 0 .. R /\ s[j].fromIndex <= s[j].toIndex
                               /\ (s[j].hash => s[j].fromIndex < s[j].toIndex)
  BY <1>0, RedactableFields
<1>2. CursorAfter(s, n - 1) \in 0 .. R /\ CursorAfter(s, n - 1) <= s[n].toIndex
  <2>1. CASE n = 1
    <3>1. CursorAfter(s, n - 1) = 0
      BY <2>1 DEF CursorAfter
    <3>. QED BY <1>1, <3>1
  <2>2. CASE n # 1
    <3>1. n - 1 \in 1 .. Len(s) /\ n - 1 # 0 /\ n - 1 < n
      BY <1>0, <2>2
    <3>2. CursorAfter(s, n - 1) = s[n - 1].toIndex
      BY <3>1 DEF CursorAfter
    <3>3. s[n - 1].toIndex <= s[n].toIndex
      BY <3>1 DEF Listed
    <3>. QED BY <1>1, <3>1, <3>2, <3>3
  <2>. QED BY <2>1, <2>2
<1>3. CursorAfter(s, n) = s[n].toIndex
  BY <1>0 DEF CursorAfter
<1>. QED BY <1>1, <1>2, <1>3 DEF OverAt, OverFrom

(* One more slice. *)
LEMMA RedactedStep ==
  ASSUME NEW R, Blocks(blocks, R), NoEmpty(blocks), NEW s, Listed(s, R), NEW m \in 1 .. Len(s),
         NEW w, RedactedAs(w, s, m - 1, R, blocks), NEW v, v = redactBlocks(w, s[m])
  PROVE  RedactedAs(v, s, m, R, blocks)
<1>. DEFINE x == s[m]
            c == OverAt(s, m)
<1>0. R \in Nat /\ Len(s) \in Nat
  BY DEF Blocks, Listed
<1>1. /\ CursorAfter(s, m - 1) \in 0 .. R /\ x \in Redactable(R) /\ x.toIndex \in 0 .. R
      /\ CursorAfter(s, m) = x.toIndex /\ CursorAfter(s, m - 1) <= x.toIndex
      /\ c \in 0 .. R /\ c >= CursorAfter(s, m - 1) /\ c <= x.toIndex
  BY <1>0, CursorNumbers
<1>2. /\ AtCursor(w, R, blocks) /\ w.cursor = CursorAfter(s, m - 1)
      /\ WrittenAs(w, s, m - 1, R) /\ NotedAs(w, s, m - 1, R, blocks) /\ NotedOnly(w, s, m - 1, R, blocks)
  BY DEF RedactedAs
<1>3. c = OverFrom(w.cursor, x)
  BY <1>2 DEF OverAt
<1>. HIDE DEF x, c
<1>4. /\ AtCursor(v, R, blocks) /\ v.cursor = x.toIndex
      /\ \A p \in 1 .. R : v.plain[p] = IF c < p /\ p <= x.toIndex THEN CharOf(x, p - 1 - c) ELSE w.plain[p]
      /\ w.toprfs \in Seq(Toprf)
      /\ IF x.hash THEN \E t \in Toprf : v.toprfs = Append(w.toprfs, t) /\ NotedAt(t, c, R, blocks, x)
         ELSE v.toprfs = w.toprfs
  <2>1. w.cursor <= x.toIndex /\ v = redactBlocks(w, x)
    BY <1>1, <1>2 DEF x
  <2>2. RedactsTo(w, x, v, R, blocks)
    BY <1>1, <1>2, <2>1, RedactAt
  <2>. QED BY <1>3, <2>2 DEF RedactsTo
<1>5. WrittenAs(v, s, m, R)
  <2>1. ASSUME NEW n \in 1 .. m, NEW p \in 1 .. R, CursorAfter(s, n - 1) < p, p <= s[n].toIndex
        PROVE  v.plain[p] = IF OverAt(s, n) < p THEN CharOf(s[n], p - 1 - OverAt(s, n)) ELSE Clear
    <3>1. CASE n = m
      <4>1. CursorAfter(s, m - 1) < p => w.plain[p] = Clear
        BY <1>2 DEF WrittenAs
      <4>2. w.plain[p] = Clear /\ p <= x.toIndex
        BY <2>1, <3>1, <4>1 DEF x
      <4>. QED BY <1>4, <3>1, <4>2 DEF x, c
    <3>2. CASE n # m
      <4>1. n \in 1 .. m - 1 /\ n \in 1 .. Len(s)
        BY <1>0, <3>2
      <4>2. w.plain[p] = IF OverAt(s, n) < p THEN CharOf(s[n], p - 1 - OverAt(s, n)) ELSE Clear
        BY <1>2, <2>1, <4>1 DEF WrittenAs
      <4>3. s[n].toIndex <= CursorAfter(s, m - 1) /\ s[n].toIndex \in 0 .. R
        <5>1. m - 1 \in 1 .. Len(s) /\ m - 1 # 0
          BY <1>0, <4>1
        <5>2. CursorAfter(s, m - 1) = s[m - 1].toIndex
          BY <5>1 DEF CursorAfter
        <5>3. s[n].toIndex \in 0 .. R
          BY <1>0, <4>1, CursorNumbers
        <5>4. n = m - 1 \/ n < m - 1
          BY <4>1
        <5>. QED BY <4>1, <5>1, <5>2, <5>3, <5>4 DEF Listed
      <4>4. ~(c < p)
        BY <1>0, <1>1, <2>1, <4>3
      <4>. QED BY <1>4, <4>2, <4>4
    <3>. QED BY <3>1, <3>2
  <2>2. ASSUME NEW p \in 1 .. R, CursorAfter(s, m) < p PROVE v.plain[p] = Clear
    <3>1. CursorAfter(s, m - 1) < p /\ ~(p <= x.toIndex)
      BY <1>0, <1>1, <2>2
    <3>2. w.plain[p] = Clear
      BY <1>2, <3>1 DEF WrittenAs
    <3>. QED BY <1>4, <3>1, <3>2
  <2>. QED BY <2>1, <2>2 DEF WrittenAs
<1>6. NotedAs(v, s, m, R, blocks)
  <2>1. DOMAIN w.toprfs \subseteq DOMAIN v.toprfs /\ \A k \in DOMAIN w.toprfs : v.toprfs[k] = w.toprfs[k]
    <3>1. CASE x.hash
      <4>1. PICK t \in Toprf : v.toprfs = Append(w.toprfs, t)
        BY <1>4, <3>1
      <4>2. /\ Len(v.toprfs) = Len(w.toprfs) + 1 /\ v.toprfs \in Seq(Toprf)
            /\ \A k \in 1 .. Len(w.toprfs) : v.toprfs[k] = w.toprfs[k]
        BY <1>4, <4>1, AppendProperties
      <4>3. DOMAIN w.toprfs = 1 .. Len(w.toprfs) /\ DOMAIN v.toprfs = 1 .. Len(v.toprfs) /\ Len(w.toprfs) \in Nat
        BY <1>4, <4>2
      <4>4. 1 .. Len(w.toprfs) \subseteq 1 .. Len(v.toprfs)
        BY <4>2, <4>3
      <4>. QED BY <4>2, <4>3, <4>4
    <3>2. CASE ~x.hash
      BY <1>4, <3>2
    <3>. QED BY <3>1, <3>2
  <2>2. ASSUME NEW n \in 1 .. m, s[n].hash
        PROVE  \E k \in DOMAIN v.toprfs : NotedAt(v.toprfs[k], OverAt(s, n), R, blocks, s[n])
    <3>1. CASE n = m
      <4>1. PICK t \in Toprf : v.toprfs = Append(w.toprfs, t) /\ NotedAt(t, c, R, blocks, x)
        BY <1>4, <2>2, <3>1 DEF x
      <4>2. /\ Len(v.toprfs) = Len(w.toprfs) + 1 /\ v.toprfs \in Seq(Toprf)
            /\ v.toprfs[Len(w.toprfs) + 1] = t
        BY <1>4, <4>1, AppendProperties
      <4>3. Len(w.toprfs) + 1 \in DOMAIN v.toprfs
        BY <1>4, <4>2
      <4>. QED BY <3>1, <4>1, <4>2, <4>3 DEF x, c
    <3>2. CASE n # m
      <4>1. n \in 1 .. m - 1
        BY <1>0, <3>2
      <4>2. PICK k \in DOMAIN w.toprfs : NotedAt(w.toprfs[k], OverAt(s, n), R, blocks, s[n])
        BY <1>2, <2>2, <4>1 DEF NotedAs
      <4>. QED BY <2>1, <4>2
    <3>. QED BY <3>1, <3>2
  <2>. QED BY <2>2 DEF NotedAs
<1>7. NotedOnly(v, s, m, R, blocks)
  <2>1. PICK f : NotedBy(f, w, s, m - 1, R, blocks)
    BY <1>2 DEF NotedOnly
  <2>2. CASE ~x.hash
    <3>1. v.toprfs = w.toprfs /\ \A a : a \in 1 .. m - 1 => a \in 1 .. m
      BY <1>0, <1>4, <2>2
    <3>2. NotedBy(f, v, s, m, R, blocks)
      BY <2>1, <3>1 DEF NotedBy
    <3>. QED BY <3>2 DEF NotedOnly
  <2>3. CASE x.hash
    <3>1. PICK t \in Toprf : v.toprfs = Append(w.toprfs, t) /\ NotedAt(t, c, R, blocks, x)
      BY <1>4, <2>3
    <3>2. /\ Len(v.toprfs) = Len(w.toprfs) + 1 /\ v.toprfs \in Seq(Toprf) /\ v.toprfs[Len(w.toprfs) + 1] = t
          /\ \A k \in 1 .. Len(w.toprfs) : v.toprfs[k] = w.toprfs[k]
      BY <1>4, <3>1, AppendProperties
    <3>3. /\ DOMAIN w.toprfs = 1 .. Len(w.toprfs) /\ DOMAIN v.toprfs = 1 .. Len(w.toprfs) + 1 /\ Len(w.toprfs) \in Nat
      BY <1>4, <3>2
    <3>. DEFINE e == [k \in DOMAIN v.toprfs |-> IF k \in DOMAIN w.toprfs THEN f[k] ELSE m]
    <3>4. ASSUME NEW k \in DOMAIN v.toprfs
          PROVE  /\ e[k] \in 1 .. m /\ s[e[k]].hash /\ NotedAt(v.toprfs[k], OverAt(s, e[k]), R, blocks, s[e[k]])
                 /\ k \in DOMAIN w.toprfs => e[k] = f[k] /\ f[k] \in 1 .. m - 1
                 /\ k \notin DOMAIN w.toprfs => e[k] = m /\ k = Len(w.toprfs) + 1
      <4>1. CASE k \in DOMAIN w.toprfs
        <5>1. /\ f[k] \in 1 .. m - 1 /\ s[f[k]].hash /\ NotedAt(w.toprfs[k], OverAt(s, f[k]), R, blocks, s[f[k]])
          BY <2>1, <4>1 DEF NotedBy
        <5>2. e[k] = f[k] /\ v.toprfs[k] = w.toprfs[k] /\ f[k] \in 1 .. m
          BY <1>0, <3>2, <3>3, <4>1, <5>1, SMTT(40)
        <5>. QED BY <4>1, <5>1, <5>2
      <4>2. CASE k \notin DOMAIN w.toprfs
        <5>1. e[k] = m /\ k = Len(w.toprfs) + 1 /\ m \in 1 .. m
          BY <1>0, <3>3, <4>2
        <5>. QED BY <2>3, <3>1, <3>2, <4>2, <5>1 DEF x, c
      <4>. QED BY <4>1, <4>2
    <3>. HIDE DEF e
    <3>5. ASSUME NEW k \in DOMAIN v.toprfs, NEW l \in DOMAIN v.toprfs, k # l PROVE e[k] # e[l]
      <4>1. k \in DOMAIN w.toprfs /\ l \in DOMAIN w.toprfs => f[k] # f[l]
        BY <2>1, <3>5 DEF NotedBy
      <4>2. \A a \in 1 .. m - 1 : a # m
        BY <1>0
      <4>. QED BY <3>4, <3>5, <4>1, <4>2
    <3>6. NotedBy(e, v, s, m, R, blocks)
      BY <3>4, <3>5 DEF NotedBy
    <3>. QED BY <3>6 DEF NotedOnly
  <2>. QED BY <2>2, <2>3
<1>. QED BY <1>1, <1>4, <1>5, <1>6, <1>7 DEF RedactedAs

(* The walk after all slices: every byte is what the first slice that ends  *)
(* behind it made of it.                                                    *)
LEMMA RedactedIs ==
  ASSUME NEW R, Received = R, Blocks(blocks, R), NoEmpty(blocks), NEW s, Listed(s, R)
  PROVE  RedactedAs(Redacted(s), s, Len(s), R, blocks)
<1>0. R \in Nat /\ s \in Seq(Redactable(R)) /\ Len(s) \in Nat
  BY DEF Blocks, Listed
<1>1. PICK F : /\ F[0] = NewWalk /\ (\A n \in 1 .. Len(s) : F[n] = redactBlocks(F[n - 1], s[n]))
               /\ Redacted(s) = F[Len(s)]
  BY <1>0, RedactedLoop
<1>. DEFINE T == {n \in 0 .. Len(s) : RedactedAs(F[n], s, n, R, blocks)}
<1>2. 0 \in T
  <2>1. /\ NewWalk \in Walks(R) /\ NewWalk.cursor = 0 /\ NewWalk.blockIdx = 1 /\ NewWalk.cursorInBlock = 0
        /\ NewWalk.toprfs = <<>> /\ \A p \in 1 .. R : NewWalk.plain[p] = Clear
    BY <1>0, NewWalkFields
  <2>2. AtCursor(NewWalk, R, blocks)
    <3>0. ASSUME ~(0 < R) PROVE 1 \notin 1 .. Len(blocks)
      <4>1. SUFFICES ASSUME 1 \in 1 .. Len(blocks) PROVE FALSE
        OBVIOUS
      <4>. QED BY <1>0, <3>0, <4>1, BlockNumbers DEF NoEmpty
    <3>1. SUFFICES ASSUME 0 < R PROVE CursorAt(blocks, 0, 1, 0)
      BY <1>0, <2>1, <3>0 DEF AtCursor
    <3>2. Len(blocks) \in Nat /\ Len(blocks) > 0 /\ 1 \in 1 .. Len(blocks)
      BY <1>0, <3>1 DEF Blocks
    <3>3. StartOf(blocks, 1) = 0 /\ LenOf(blocks, 1) > 0
      BY <3>2 DEF StartOf, NoEmpty
    <3>. QED BY <3>2, <3>3 DEF CursorAt
  <2>3. CursorAfter(s, 0) = 0
    BY DEF CursorAfter
  <2>4. WrittenAs(NewWalk, s, 0, R) /\ NotedAs(NewWalk, s, 0, R, blocks) /\ NotedOnly(NewWalk, s, 0, R, blocks)
    BY <2>1 DEF WrittenAs, NotedAs, NotedOnly, NotedBy
  <2>. QED BY <1>0, <1>1, <2>1, <2>2, <2>3, <2>4 DEF RedactedAs
<1>3. ASSUME NEW n \in 0 .. Len(s) - 1, n \in T PROVE n + 1 \in T
  <2>1. n + 1 \in 1 .. Len(s) /\ n + 1 \in 0 .. Len(s) /\ (n + 1) - 1 = n /\ RedactedAs(F[n], s, n, R, blocks)
    BY <1>0, <1>3
  <2>2. F[n + 1] = redactBlocks(F[n], s[n + 1])
    BY <1>1, <2>1
  <2>3. RedactedAs(F[n + 1], s, n + 1, R, blocks)
    BY <2>1, <2>2, RedactedStep
  <2>. QED BY <2>1, <2>3
<1>. HIDE DEF T
<1>4. Len(s) \in T
  <2>1. \A n \in 0 .. Len(s) : n \in T
    BY <1>0, <1>2, <1>3, UpTo
  <2>. QED BY <1>0, <2>1
<1>. QED BY <1>1, <1>4 DEF T

-----------------------------------------------------------------------------
(* The reveals behind a position of the response. *)

(* Positions in a response whose reveals are asked for. *)
LEMMA AskedNumbers ==
  ASSUME NEW r, NEW R, NEW N, NEW ms, Asked(r, R, N, ms)
  PROVE  /\ R \in Nat /\ N \in Nat /\ M(r) \in Nat /\ H(r) \in Nat /\ H(r) >= 5 /\ H(r) <= R
         /\ BLen(r, R, N) \in Nat /\ Len(ms) \in Nat
         /\ r.framing = "chunked" => N \in 1 .. M(r) /\ BLen(r, R, N) = BodyUpTo(r, N) /\ DataEnd(r, N) <= R
         /\ ByEnd(Reveals(ms), R) /\ Len(Reveals(ms)) \in Nat
<1>1. /\ R \in Nat /\ N \in Nat /\ M(r) \in Nat /\ H(r) \in Nat /\ H(r) >= 5 /\ H(r) <= R
      /\ BLen(r, R, N) \in 0 .. r.size /\ r.size \in Nat
      /\ r.framing = "chunked" => N \in 1 .. M(r)
  BY GoodNumbers DEF Asked
<1>2. r.framing = "chunked" => BLen(r, R, N) = BodyUpTo(r, N) /\ DataEnd(r, N) <= R
  BY DEF Asked, BLen, Good, GoodChunked
<1>3. ByEnd(Reveals(ms), R)
  BY RevealsByEnd DEF Asked, Reveals
<1>4. Len(Reveals(ms)) \in Nat /\ Len(ms) \in Nat
  BY <1>3 DEF ByEnd, Asked
<1>5. BLen(r, R, N) \in Nat
  BY <1>1
<1>. QED BY <1>1, <1>2, <1>3, <1>4, <1>5

(* All reveals are in the list, in order. *)
LEMMA RevealsSorted ==
  ASSUME NEW r, NEW R, NEW N, NEW ms, Asked(r, R, N, ms)
  PROVE  /\ Keyed(RevealsOf(ms))
         /\ \A k \in 1 .. Len(Reveals(ms)) : Reveals(ms)[k] \in RevealsOf(ms)
         /\ \A x \in RevealsOf(ms) : \E k \in 1 .. Len(Reveals(ms)) : Reveals(ms)[k] = x
         /\ \A i, j \in 1 .. Len(Reveals(ms)) : i < j => Before(Reveals(ms)[i], Reveals(ms)[j])
                                                         /\ Reveals(ms)[i].toIndex <= Reveals(ms)[j].toIndex
<1>1. Keyed(RevealsOf(ms))
  BY RevealsKeyed DEF Asked
<1>. QED BY <1>1, Sorted DEF Reveals

(* The fields of a reveal. *)
LEMMA RevealNumbers ==
  ASSUME NEW r, NEW R, NEW N, NEW ms, Asked(r, R, N, ms), NEW x \in RevealsOf(ms)
  PROVE  /\ x.fromIndex \in 0 .. R /\ x.toIndex \in 0 .. R /\ x.fromIndex < x.toIndex /\ x.place \in Int
         /\ x.hash \in BOOLEAN /\ x \in SliceSet(R)
<1>1. x \in SliceSet(R)
  BY RevealFields DEF Asked
<1>2. R \in Nat
  BY AskedNumbers
<1>. QED BY <1>1, <1>2, SliceSetFields

(* the reveal of the j-th match, from its first byte to behind its last *)
LEMMA MatchReveal ==
  ASSUME NEW r, NEW R, NEW N, NEW ms, Asked(r, R, N, ms), NEW j \in 1 .. Len(ms)
  PROVE  /\ getReveal(ms[j], j) \in RevealsOf(ms) /\ getReveal(ms[j], j).hash = ms[j].hash
         /\ ms[j].fromIndex \in 0 .. BLen(r, R, N) /\ ms[j].toIndex \in 0 .. BLen(r, R, N) /\ ms[j].hash \in BOOLEAN
         /\ ms[j].fromIndex < ms[j].toIndex
         /\ getReveal(ms[j], j).fromIndex = convertResponsePosToAbsolutePos(ms[j].fromIndex)
         /\ getReveal(ms[j], j).toIndex = convertResponsePosToAbsolutePos(ms[j].toIndex)
         /\ H(r) <= getReveal(ms[j], j).fromIndex
<1>0. /\ r \in Responses /\ R \in 0 .. Len(Stream(r)) /\ N \in 0 .. M(r) /\ Good(res, r, R, N)
      /\ ms[j] \in Items(BLen(r, R, N)) /\ j \in Int /\ j \in DOMAIN ms /\ GoodHeader(res, r)
  BY DEF Asked, Good
<1>1. getReveal(ms[j], j) \in RevealsOf(ms)
  BY <1>0, RevealIs
<1>2. /\ ms[j].fromIndex \in 0 .. BLen(r, R, N) /\ ms[j].toIndex \in 0 .. BLen(r, R, N)
      /\ ms[j].fromIndex < ms[j].toIndex /\ ms[j].hash \in BOOLEAN
  BY <1>0 DEF Items
<1>3. /\ getReveal(ms[j], j).hash = ms[j].hash
      /\ getReveal(ms[j], j).fromIndex = convertResponsePosToAbsolutePos(ms[j].fromIndex)
      /\ getReveal(ms[j], j).toIndex = convertResponsePosToAbsolutePos(ms[j].toIndex)
      /\ H(r) <= getReveal(ms[j], j).fromIndex
  BY <1>0, RevealOfItem
<1>. QED BY <1>1, <1>2, <1>3

(* A reveal is a fixed one of the header or that of a match. *)
LEMMA RevealKinds ==
  ASSUME NEW r, NEW R, NEW N, NEW ms, Asked(r, R, N, ms), NEW x \in RevealsOf(ms)
  PROVE  \/ Fixed(r, x) /\ ~x.hash /\ x.toIndex <= H(r)
         \/ \E j \in 1 .. Len(ms) : x = getReveal(ms[j], j) /\ x.place = j
BY RevealFields DEF Asked

(* Every reveal of the body ends behind a byte of a chunk. *)
LEMMA RevealEnds ==
  ASSUME NEW r, NEW R, NEW N, NEW ms, Asked(r, R, N, ms), r.framing = "chunked", NEW x \in RevealsOf(ms)
  PROVE  x.toIndex <= H(r) \/ \E d \in 1 .. N : DataAt(r, d) < x.toIndex /\ x.toIndex <= DataEnd(r, d)
<1>0. /\ r \in Responses /\ R \in 0 .. Len(Stream(r)) /\ N \in 0 .. M(r) /\ Good(res, r, R, N)
      /\ N \in 1 .. M(r) /\ BLen(r, R, N) \in Nat
  BY AskedNumbers DEF Asked
<1>1. CASE \E j \in 1 .. Len(ms) : x = getReveal(ms[j], j)
  <2>1. PICK j \in 1 .. Len(ms) : x = getReveal(ms[j], j)
    BY <1>1
  <2>. DEFINE t == ms[j].toIndex
  <2>2. /\ t \in 0 .. BLen(r, R, N) /\ ms[j].fromIndex \in 0 .. BLen(r, R, N) /\ ms[j].fromIndex < t
        /\ x.toIndex = convertResponsePosToAbsolutePos(t)
    BY <2>1, MatchReveal
  <2>. HIDE DEF t
  <2>3. PICK d \in 1 .. N : InPart(r, N, t, d) /\ x.toIndex = AbsIn(r, t, d)
    BY <1>0, <2>2, Convert
  <2>4. t \in Nat /\ t > 0
    BY <1>0, <2>2
  <2>5. /\ DataAt(r, d) \in Nat /\ DataEnd(r, d) \in Nat /\ BodyBefore(r, d) \in Nat
        /\ AbsIn(r, t, d) \in DataAt(r, d) .. DataEnd(r, d)
    BY <1>0, <2>3, <2>4, InPartNumbers
  <2>6. BodyBefore(r, d) < t
    <3>1. CASE d = 1
      BY <2>4, <3>1 DEF BodyBefore
    <3>2. CASE d # 1
      BY <2>3, <3>2 DEF InPart
    <3>. QED BY <3>1, <3>2
  <2>7. DataAt(r, d) < AbsIn(r, t, d)
    <3>1. PICK a, b \in Nat : a = DataAt(r, d) /\ b = BodyBefore(r, d)
      BY <2>5
    <3>2. a < a + (t - b)
      BY <2>4, <2>6, <3>1
    <3>. QED BY <3>1, <3>2 DEF AbsIn
  <2>. QED BY <2>3, <2>5, <2>7
<1>2. CASE x.toIndex <= H(r)
  BY <1>2
<1>. QED BY <1>1, <1>2, RevealKinds

(* There is such a reveal, or the place behind the last one. *)
LEMMA FirstBehindExists ==
  ASSUME NEW r, NEW R, NEW N, NEW ms, Asked(r, R, N, ms), NEW q \in Nat
  PROVE  \E i : FirstBehind(ms, q, i)
<1>. DEFINE s == Reveals(ms)
            L == Len(s)
            T == {k \in 1 .. L + 1 : k = L + 1 \/ s[k].toIndex > q}
<1>0. L \in Nat /\ R \in Nat
  BY AskedNumbers
<1>1. /\ \A k \in 1 .. L : s[k].toIndex \in Nat
      /\ \A i, j \in 1 .. L : i < j => s[i].toIndex <= s[j].toIndex
  <2>1. \A k \in 1 .. L : s[k] \in RevealsOf(ms)
    BY RevealsSorted
  <2>2. \A k \in 1 .. L : s[k].toIndex \in 0 .. R
    BY <2>1, RevealNumbers
  <2>3. \A i, j \in 1 .. L : i < j => s[i].toIndex <= s[j].toIndex
    BY RevealsSorted
  <2>. QED BY <2>2, <2>3
<1>. HIDE DEF s, L
<1>2. T \in SUBSET Nat /\ L + 1 \in T
  BY <1>0
<1>3. PICK i \in T : \A y \in T : i <= y
  BY <1>2, LeastOf
<1>4. i \in 1 .. L + 1
  BY <1>3
<1>5. ASSUME NEW k \in 1 .. L PROVE s[k].toIndex > q <=> k >= i
  <2>1. ASSUME s[k].toIndex > q PROVE k >= i
    <3>1. k \in T
      BY <1>0, <2>1
    <3>. QED BY <1>0, <1>3, <1>4, <3>1
  <2>2. ASSUME k >= i PROVE s[k].toIndex > q
    <3>1. i \in 1 .. L /\ i # L + 1
      BY <1>0, <1>4, <2>2
    <3>2. s[i].toIndex > q
      BY <1>3, <3>1
    <3>3. k = i \/ i < k
      BY <1>0, <1>4, <2>2
    <3>4. s[i].toIndex <= s[k].toIndex
      BY <1>1, <3>1, <3>3
    <3>5. s[i].toIndex \in Nat /\ s[k].toIndex \in Nat
      BY <1>1, <3>1
    <3>. QED BY <3>2, <3>4, <3>5
  <2>. QED BY <2>1, <2>2
<1>. QED BY <1>4, <1>5 DEF FirstBehind, L, s

(* The gap before it starts at q or earlier. *)
LEMMA GapBehind ==
  ASSUME NEW r, NEW R, NEW N, NEW ms, Asked(r, R, N, ms), NEW q \in Nat, NEW i, FirstBehind(ms, q, i)
  PROVE  GapStart(Reveals(ms), i) <= q
<1>. DEFINE s == Reveals(ms)
<1>0. R \in Nat /\ Received = R /\ ByEnd(s, R) /\ Len(s) \in Nat /\ i \in 1 .. Len(s) + 1
  BY AskedNumbers DEF Asked, FirstBehind
<1>1. CASE i = 1
  BY <1>1 DEF GapStart
<1>2. CASE i # 1
  <2>1. i - 1 \in 1 .. Len(s) /\ i > 1 /\ ~(i - 1 >= i)
    BY <1>0, <1>2
  <2>2. ~(s[i - 1].toIndex > q)
    BY <2>1 DEF FirstBehind
  <2>. HIDE DEF s
  <2>3. GapStart(s, i) = s[i - 1].toIndex /\ GapStart(s, i) \in 0 .. R
    BY <1>0, <2>1, GapPlaces
  <2>. QED BY <1>0, <2>2, <2>3 DEF s
<1>. QED BY <1>1, <1>2

-----------------------------------------------------------------------------
(* A byte that no redaction covers. *)

(* The fields of a redaction. *)
LEMMA RedactionNumbers ==
  ASSUME NEW r, NEW R, NEW N, NEW ms, Asked(r, R, N, ms), NEW x \in RedactionSet(ms)
  PROVE  /\ x.fromIndex \in 0 .. R /\ x.toIndex \in 0 .. R /\ x.fromIndex <= x.toIndex /\ (x.hash => x.fromIndex < x.toIndex) /\ x.place \in Int
         /\ x.fromIndex < x.toIndex \/ (x.fromIndex = R /\ x.toIndex = R)
         /\ x.hash \in BOOLEAN /\ x \in Redactable(R) /\ x.fromIndex \in Nat /\ x.toIndex \in Nat
<1>1. x \in Redactable(R)
  BY RedactionFields DEF Asked
<1>2. R \in Nat
  BY AskedNumbers
<1>. QED BY <1>1, <1>2, RedactableFields

(* All redactions are in the list, in order. *)
LEMMA RedactionOrder ==
  ASSUME NEW r, NEW R, NEW N, NEW ms, Asked(r, R, N, ms), NEW g, g = getResponseRedactions(ms)
  PROVE  /\ Listed(g, R) /\ Len(g) \in Nat /\ Keyed(RedactionSet(ms))
         /\ \A k \in 1 .. Len(g) : g[k] \in RedactionSet(ms)
         /\ \A x \in RedactionSet(ms) : \E k \in 1 .. Len(g) : g[k] = x
         /\ \A i, j \in 1 .. Len(g) : i < j => Before(g[i], g[j])
<1>1. Keyed(RedactionSet(ms)) /\ Listed(g, R)
  BY RedactionsKeyed DEF Asked
<1>2. g = SortByEnd(RedactionSet(ms))
  BY RedactionsSorted
<1>. QED BY <1>1, <1>2, Sorted

(* What is written is never the plaintext, and a nullifier is not an        *)
(* asterisk.                                                                *)
LEMMA WrittenNotClear ==
  ASSUME NEW R \in Nat, NEW x \in Redactable(R), NEW i \in Int
  PROVE  CharOf(x, i) # Clear /\ (x.hash => CharOf(x, i) # Star)
<1>1. x.fromIndex \in Nat
  BY RedactableFields
<1>2. PICK a \in Nat : a = x.fromIndex
  BY <1>1
<1>3. Nullifier(a, i) # Clear /\ Nullifier(a, i) # Star
  BY DEF Nullifier, Clear, Star
<1>4. Star # Clear
  BY DEF Clear, Star
<1>. QED BY <1>2, <1>3, <1>4 DEF CharOf

(* A byte left as it is, before the end of some redaction, is not covered by the *)
(* first redaction that ends behind it.                                          *)
LEMMA ClearUncovered ==
  ASSUME NEW r, NEW R, NEW N, NEW ms, Asked(r, R, N, ms), NEW g, g = getResponseRedactions(ms),
         NEW w, NEW bl, RedactedAs(w, g, Len(g), R, bl), NEW q \in 0 .. R - 1, w.plain[q + 1] = Clear,
         NEW x \in RedactionSet(ms), x.toIndex > q
  PROVE  \E z : Uncovered(ms, q, z)
<1>. DEFINE T == {n \in 1 .. Len(g) : g[n].toIndex > q}
<1>0. /\ Listed(g, R) /\ Len(g) \in Nat /\ (\A k \in 1 .. Len(g) : g[k] \in RedactionSet(ms)) /\ R \in Nat
      /\ \A i, j \in 1 .. Len(g) : i < j => Before(g[i], g[j])
  BY RedactionOrder, AskedNumbers
<1>1. \A y \in RedactionSet(ms) : \E k \in 1 .. Len(g) : g[k] = y
  BY RedactionOrder
<1>2. T \in SUBSET Nat /\ T # {}
  BY <1>0, <1>1
<1>3. PICK n \in T : \A y \in T : n <= y
  BY <1>2, LeastOf
<1>4. n \in 1 .. Len(g) /\ g[n].toIndex > q
  BY <1>3
<1>5. /\ CursorAfter(g, n - 1) \in 0 .. R /\ g[n].toIndex \in 0 .. R /\ g[n].fromIndex \in 0 .. R
      /\ g[n] \in Redactable(R) /\ OverAt(g, n) \in 0 .. R
  BY <1>0, <1>4, CursorNumbers
<1>6. CursorAfter(g, n - 1) <= q
  <2>1. CASE n = 1
    BY <2>1 DEF CursorAfter
  <2>2. CASE n # 1
    <3>1. n - 1 \in 1 .. Len(g) /\ n - 1 # 0 /\ n - 1 < n
      BY <1>0, <1>4, <2>2
    <3>2. CursorAfter(g, n - 1) = g[n - 1].toIndex
      BY <3>1 DEF CursorAfter
    <3>3. n - 1 \notin T
      BY <1>3, <1>4, <3>1
    <3>4. ~(g[n - 1].toIndex > q)
      BY <3>1, <3>3
    <3>. QED BY <1>0, <1>5, <3>2, <3>4
  <2>. QED BY <2>1, <2>2
<1>. HIDE DEF T
<1>7. PICK p \in 1 .. R : p = q + 1
  BY <1>0
<1>8. w.plain[p] = IF OverAt(g, n) < p THEN CharOf(g[n], p - 1 - OverAt(g, n)) ELSE Clear
  <2>1. WrittenAs(w, g, Len(g), R)
    BY DEF RedactedAs
  <2>2. CursorAfter(g, n - 1) < p /\ p <= g[n].toIndex
    BY <1>0, <1>4, <1>5, <1>6, <1>7
  <2>. QED BY <1>4, <2>1, <2>2 DEF WrittenAs
<1>9. ~(OverAt(g, n) < q + 1)
  <2>1. p - 1 - OverAt(g, n) \in Int
    BY <1>0, <1>5
  <2>2. CharOf(g[n], p - 1 - OverAt(g, n)) # Clear
    BY <1>0, <1>5, <2>1, WrittenNotClear
  <2>. QED BY <1>7, <1>8, <2>2
<1>10. g[n].fromIndex > q
  BY <1>0, <1>5, <1>6, <1>9 DEF OverAt, OverFrom
<1>11. ASSUME NEW y \in RedactionSet(ms), y.toIndex > q PROVE y = g[n] \/ Before(g[n], y)
  <2>1. PICK k \in 1 .. Len(g) : g[k] = y
    BY <1>1
  <2>2. k \in T
    BY <1>11, <2>1 DEF T
  <2>3. n = k \/ n < k
    BY <1>0, <1>3, <1>4, <2>1, <2>2
  <2>. QED BY <1>0, <1>4, <2>1, <2>3
<1>. QED BY <1>0, <1>4, <1>10, <1>11 DEF Uncovered

(* A reveal that ends behind q is the first such one or comes after it. *)
LEMMA RevealBehind ==
  ASSUME NEW r, NEW R, NEW N, NEW ms, Asked(r, R, N, ms), NEW q \in Nat, NEW i, FirstBehind(ms, q, i),
         NEW z \in RevealsOf(ms), z.toIndex > q
  PROVE  /\ i \in 1 .. Len(Reveals(ms)) /\ Reveals(ms)[i].toIndex <= z.toIndex
         /\ z = Reveals(ms)[i] \/ Before(Reveals(ms)[i], z)
<1>. DEFINE s == Reveals(ms)
<1>1. PICK k \in 1 .. Len(s) : s[k] = z
  BY RevealsSorted
<1>2. k >= i /\ i \in 1 .. Len(s) + 1 /\ Len(s) \in Nat
  BY <1>1, AskedNumbers DEF FirstBehind
<1>3. i \in 1 .. Len(s) /\ (i = k \/ i < k)
  BY <1>1, <1>2
<1>4. i < k => Before(s[i], s[k]) /\ s[i].toIndex <= s[k].toIndex
  BY <1>1, <1>3, RevealsSorted
<1>5. z.toIndex \in 0 .. R /\ R \in Nat
  BY RevealNumbers, AskedNumbers
<1>. QED BY <1>1, <1>3, <1>4, <1>5

(* A gap that starts behind q starts behind the first reveal that ends      *)
(* behind q.                                                                *)
LEMMA GapsBehind ==
  ASSUME NEW r, NEW R, NEW N, NEW ms, Asked(r, R, N, ms), NEW q \in Nat, NEW i, FirstBehind(ms, q, i),
         NEW y \in Gaps(Reveals(ms)), y.toIndex > q, y.fromIndex > q
  PROVE  i \in 1 .. Len(Reveals(ms)) /\ Reveals(ms)[i].toIndex <= y.fromIndex
<1>. DEFINE s == Reveals(ms)
<1>0. /\ R \in Nat /\ Received = R /\ ByEnd(s, R) /\ Len(s) \in Nat /\ i \in 1 .. Len(s) + 1
      /\ GapStart(s, i) <= q
  BY AskedNumbers, GapBehind DEF Asked, FirstBehind
<1>. HIDE DEF s
<1>1. PICK j \in 1 .. Len(s) + 1 : /\ y \in Redactable(R) /\ y.fromIndex = GapStart(s, j) /\ y.toIndex = GapEnd(s, j)
  BY <1>0, GapFields DEF s
<1>2. /\ GapStart(s, i) \in 0 .. R /\ GapEnd(s, j) \in 0 .. R /\ GapStart(s, j) \in 0 .. R
  BY <1>0, <1>1, GapPlaces
<1>3. ~(j < i)
  <2>1. j < i => GapEnd(s, j) < GapStart(s, i)
    BY <1>0, <1>1, GapsOrdered
  <2>. QED BY <1>0, <1>1, <1>2, <2>1
<1>4. j # i
  BY <1>0, <1>1, <1>2
<1>5. j > i /\ j - 1 \in 1 .. Len(s) /\ j > 1 /\ i \in 1 .. Len(s) /\ (j - 1 = i \/ i < j - 1)
  BY <1>0, <1>1, <1>3, <1>4
<1>6. GapStart(s, j) = s[j - 1].toIndex
  BY <1>0, <1>1, <1>5, GapPlaces
<1>7. s[i].toIndex <= s[j - 1].toIndex
  BY <1>0, <1>2, <1>5, <1>6 DEF ByEnd
<1>. QED BY <1>1, <1>5, <1>6, <1>7 DEF s

-----------------------------------------------------------------------------
(* A match nested in another one behind the size line of a chunk. *)

(* Positions of the body and the size line of a chunk other than the first. *)
LEMMA PosAtChunk ==
  ASSUME NEW r, NEW R, NEW N, NEW ms, Asked(r, R, N, ms), r.framing = "chunked", NEW c \in 2 .. N,
         NEW pos \in 0 .. BLen(r, R, N)
  PROVE  /\ pos <= BodyBefore(r, c) => convertResponsePosToAbsolutePos(pos) <= DataEnd(r, c - 1)
         /\ pos > BodyBefore(r, c) => convertResponsePosToAbsolutePos(pos) > DataAt(r, c)
         /\ BodyBefore(r, c) \in Nat /\ BodyBefore(r, c) > 0
         /\ DataEnd(r, c - 1) \in Nat /\ DataAt(r, c) \in Nat /\ DataEnd(r, c - 1) < DataAt(r, c)
<1>0. /\ r \in Responses /\ R \in 0 .. Len(Stream(r)) /\ N \in 0 .. M(r) /\ Good(res, r, R, N)
      /\ N \in 1 .. M(r) /\ BLen(r, R, N) \in Nat /\ N \in Nat /\ M(r) \in Nat
  BY AskedNumbers DEF Asked
<1>1. PICK d \in 1 .. N : InPart(r, N, pos, d) /\ convertResponsePosToAbsolutePos(pos) = AbsIn(r, pos, d)
  BY <1>0, Convert
<1>. DEFINE e == c - 1
<1>2. /\ c \in 1 .. M(r) /\ d \in 1 .. M(r) /\ e \in 1 .. M(r) /\ c \in 1 .. M(r) + 1 /\ e \in 1 .. M(r) + 1 /\ d \in 1 .. M(r) + 1
      /\ c \in Nat /\ d \in Nat /\ e \in Nat /\ e < c /\ c = e + 1 /\ pos \in Nat /\ c # 1
  BY <1>0, <1>1
<1>. HIDE DEF e
<1>3. \A k \in 1 .. M(r) : /\ BodyBefore(r, k) \in Nat /\ BodyUpTo(r, k) \in Nat /\ DataAt(r, k) \in Nat /\ DataEnd(r, k) \in Nat
                           /\ DataAt(r, k) < DataEnd(r, k)
                           /\ DataEnd(r, k) - DataAt(r, k) = BodyUpTo(r, k) - BodyBefore(r, k)
  <2>1. ASSUME NEW k \in 1 .. M(r)
        PROVE  /\ BodyBefore(r, k) \in Nat /\ BodyUpTo(r, k) \in Nat /\ DataAt(r, k) \in Nat /\ DataEnd(r, k) \in Nat
               /\ DataAt(r, k) < DataEnd(r, k)
               /\ DataEnd(r, k) - DataAt(r, k) = BodyUpTo(r, k) - BodyBefore(r, k)
    <3>1. k \in 1 .. M(r) + 1 /\ k <= M(r)
      BY <1>0
    <3>. QED BY <1>0, <3>1, ChunkNumbers
  <2>. QED BY <2>1
<1>4. \A k, l \in 1 .. M(r) : k < l => DataEnd(r, k) + 5 <= DataAt(r, l) /\ BodyUpTo(r, k) <= BodyBefore(r, l)
  <2>1. ASSUME NEW k \in 1 .. M(r), NEW l \in 1 .. M(r), k < l
        PROVE  DataEnd(r, k) + 5 <= DataAt(r, l) /\ BodyUpTo(r, k) <= BodyBefore(r, l)
    <3>1. l \in 1 .. M(r) + 1
      BY <1>0
    <3>. QED BY <1>0, <2>1, <3>1, ChunkOrder
  <2>. QED BY <2>1
<1>5. DataEnd(r, e) + 5 = DataAt(r, c) /\ BodyUpTo(r, e) = BodyBefore(r, c)
  BY <1>0, <1>2, ChunkOrder
<1>6. AbsIn(r, pos, d) \in DataAt(r, d) .. DataEnd(r, d)
  BY <1>0, <1>1, <1>2, InPartNumbers
<1>7. BodyBefore(r, c) > 0
  BY <1>2, <1>3, <1>5
<1>8. ASSUME pos <= BodyBefore(r, c) PROVE AbsIn(r, pos, d) <= DataEnd(r, e)
  <2>1. d < c
    <3>1. ASSUME d >= c PROVE FALSE
      <4>1. BodyBefore(r, d) < pos
        BY <1>1, <1>2, <3>1 DEF InPart
      <4>2. BodyBefore(r, c) <= BodyBefore(r, d)
        <5>1. c = d \/ c < d
          BY <1>2, <3>1
        <5>2. BodyBefore(r, c) <= BodyUpTo(r, c)
          BY <1>2, <1>3
        <5>. QED BY <1>2, <1>3, <1>4, <5>1, <5>2
      <4>. QED BY <1>2, <1>3, <1>8, <4>1, <4>2
    <3>. QED BY <1>2, <3>1
  <2>2. d = e \/ d < e
    BY <1>2, <2>1
  <2>3. DataEnd(r, d) <= DataEnd(r, e)
    BY <1>2, <1>3, <1>4, <2>2
  <2>. QED BY <1>2, <1>3, <1>6, <2>3
<1>9. ASSUME pos > BodyBefore(r, c) PROVE AbsIn(r, pos, d) > DataAt(r, c)
  <2>1. ~(d < c)
    <3>1. pos <= BodyUpTo(r, d)
      BY <1>1 DEF InPart
    <3>. QED BY <1>2, <1>3, <1>4, <1>9, <3>1
  <2>2. CASE d = c
    BY <1>2, <1>3, <1>9, <2>2 DEF AbsIn
  <2>3. CASE d > c
    <3>1. DataEnd(r, c) + 5 <= DataAt(r, d)
      BY <1>2, <1>4, <2>3
    <3>. QED BY <1>2, <1>3, <1>6, <3>1
  <2>. QED BY <1>2, <2>1, <2>2, <2>3
<1>. QED BY <1>1, <1>2, <1>3, <1>5, <1>7, <1>8, <1>9 DEF e

(* The reveal of a match that starts behind the size line inside another    *)
(* reveal, and ends in it.                                                  *)
LEMMA NestedReveals ==
  ASSUME NEW r, NEW R, NEW N, NEW ms, Asked(r, R, N, ms), r.framing = "chunked", NEW c \in 2 .. N,
         NEW i \in 1 .. Len(ms), NEW j \in 1 .. Len(ms),
         getReveal(ms[i], i).fromIndex < DataAt(r, c), DataAt(r, c) <= getReveal(ms[j], j).fromIndex,
         getReveal(ms[j], j).toIndex <= getReveal(ms[i], i).toIndex
  PROVE  NestedIn(r, ms)
<1>0. /\ r \in Responses /\ R \in 0 .. Len(Stream(r)) /\ N \in 0 .. M(r) /\ Good(res, r, R, N)
      /\ N \in 1 .. M(r) /\ BLen(r, R, N) \in Nat /\ N \in Nat /\ M(r) \in Nat /\ ms \in Seq(Items(BLen(r, R, N)))
      /\ R \in Nat /\ H(r) \in Nat
  BY AskedNumbers DEF Asked
<1>. DEFINE a == ms[i]
            b == ms[j]
            C(pos) == convertResponsePosToAbsolutePos(pos)
<1>1. /\ a.fromIndex \in 0 .. BLen(r, R, N) /\ a.toIndex \in 0 .. BLen(r, R, N)
      /\ b.fromIndex \in 0 .. BLen(r, R, N) /\ b.toIndex \in 0 .. BLen(r, R, N)
      /\ C(a.fromIndex) < DataAt(r, c) /\ DataAt(r, c) <= C(b.fromIndex) /\ C(b.toIndex) <= C(a.toIndex)
  BY MatchReveal
<1>. HIDE DEF a, b, C
<1>2. \A pos \in 0 .. BLen(r, R, N) : C(pos) \in Nat
  BY <1>0, Convert DEF C
<1>3. /\ BodyBefore(r, c) \in Nat /\ BodyBefore(r, c) > 0 /\ DataEnd(r, c - 1) \in Nat /\ DataAt(r, c) \in Nat
      /\ DataEnd(r, c - 1) < DataAt(r, c)
      /\ \A pos \in 0 .. BLen(r, R, N) :
           /\ pos <= BodyBefore(r, c) => C(pos) <= DataEnd(r, c - 1)
           /\ pos > BodyBefore(r, c) => C(pos) > DataAt(r, c)
  <2>1. \A pos \in 0 .. BLen(r, R, N) :
           /\ pos <= BodyBefore(r, c) => C(pos) <= DataEnd(r, c - 1)
           /\ pos > BodyBefore(r, c) => C(pos) > DataAt(r, c)
    BY PosAtChunk DEF C
  <2>. QED BY <1>1, <2>1, PosAtChunk
<1>4. a.fromIndex <= BodyBefore(r, c)
  <2>1. a.fromIndex > BodyBefore(r, c) => C(a.fromIndex) > DataAt(r, c)
    BY <1>1, <1>3
  <2>2. C(a.fromIndex) \in Nat /\ a.fromIndex \in Nat
    BY <1>0, <1>1, <1>2, SMTT(40)
  <2>. QED BY <1>1, <1>3, <2>1, <2>2
<1>5. BodyBefore(r, c) <= b.fromIndex
  <2>1. b.fromIndex <= BodyBefore(r, c) => C(b.fromIndex) <= DataEnd(r, c - 1)
    BY <1>1, <1>3
  <2>2. C(b.fromIndex) \in Nat /\ b.fromIndex \in Nat
    BY <1>0, <1>1, <1>2, SMTT(40)
  <2>. QED BY <1>1, <1>3, <2>1, <2>2
<1>6. b.toIndex <= a.toIndex
  <2>1. a.toIndex < b.toIndex => C(a.toIndex) < C(b.toIndex)
    BY <1>0, <1>1, ConvertMonotone DEF C
  <2>2. C(b.toIndex) \in Nat /\ b.toIndex \in Nat /\ C(a.toIndex) \in Nat /\ a.toIndex \in Nat
    BY <1>0, <1>1, <1>2, SMTT(40)
  <2>. QED BY <1>1, <2>1, <2>2
<1>7. i # j
  <2>1. i = j => a = b
    BY DEF a, b
  <2>. QED BY <1>1, <1>2, <1>3, <2>1
<1>8. i \in DOMAIN ms /\ j \in DOMAIN ms /\ c \in 2 .. Len(r.ends)
  <2>1. c \in 2 .. M(r)
    BY <1>0
  <2>. QED BY <1>0, <2>1 DEF M
<1>. QED BY <1>3, <1>4, <1>5, <1>6, <1>7, <1>8 DEF NestedIn, a, b

-----------------------------------------------------------------------------
(* A byte that is left as it is lies in a reveal. *)

(* A byte left as it is is not covered by the first redaction that ends     *)
(* behind it.                                                               *)
LEMMA LeftUncovered ==
  ASSUME NEW r, NEW R, NEW N, NEW ms, NEW w, NEW bl, NEW q, LeftClear(r, R, N, ms, w, bl, q),
         NEW x \in RedactionSet(ms), x.toIndex > q
  PROVE  \E z : Uncovered(ms, q, z)
BY ClearUncovered DEF LeftClear

(* These are the size lines in the reveals. *)
LEMMA SizeLines ==
  ASSUME NEW r, NEW R, NEW N, NEW ms, Asked(r, R, N, ms), NEW z
  PROVE  z \in HeadersOf(ms) <=> \E j, c : SizeLineIn(r, N, ms, z, j, c)
<1>1. /\ r \in Responses /\ R \in 0 .. Len(Stream(r)) /\ N \in 0 .. M(r) /\ Good(res, r, R, N)
      /\ DOMAIN ms = 1 .. Len(ms)
  BY DEF Asked
<1>2. z \in HeadersOf(ms) <=>
           /\ r.framing = "chunked"
           /\ \E i \in DOMAIN ms, c \in 2 .. N :
                /\ DataAt(r, c) > getReveal(ms[i], i).fromIndex /\ DataAt(r, c) < getReveal(ms[i], i).toIndex
                /\ z = SizeSlice(r, c)
  BY <1>1, HeadersIs
<1>. QED BY <1>1, <1>2 DEF SizeLineIn

(* The fields of such a size line. *)
LEMMA SizeLineFields ==
  ASSUME NEW r, NEW R, NEW N, NEW ms, Asked(r, R, N, ms), NEW z, NEW j, NEW c, SizeLineIn(r, N, ms, z, j, c)
  PROVE  /\ z.fromIndex = DataEnd(r, c - 1) /\ z.toIndex = DataAt(r, c) /\ z.place = -1 /\ z \in RedactionSet(ms)
         /\ z.fromIndex \in Nat /\ z.toIndex \in Nat /\ z.fromIndex + 5 = z.toIndex /\ H(r) <= z.fromIndex
         /\ getReveal(ms[j], j) \in RevealsOf(ms)
<1>1. /\ r \in Responses /\ R \in 0 .. Len(Stream(r)) /\ N \in 0 .. M(r) /\ Good(res, r, R, N) /\ R \in Nat
      /\ r.framing = "chunked" /\ c \in 2 .. N /\ z = SizeSlice(r, c)
  BY AskedNumbers DEF Asked, SizeLineIn
<1>2. /\ z \in SliceSet(R) /\ z.fromIndex = DataEnd(r, c - 1) /\ z.toIndex = DataAt(r, c)
      /\ z.place = -1 /\ z.fromIndex + 5 = z.toIndex /\ H(r) <= z.fromIndex
  BY <1>1, SizeFields
<1>3. z.fromIndex \in 0 .. R /\ z.toIndex \in 0 .. R
  BY <1>1, <1>2, SliceSetFields
<1>4. z \in RedactionSet(ms)
  <2>1. z \in HeadersOf(ms)
    BY SizeLines
  <2>. QED BY <2>1 DEF RedactionSet
<1>5. getReveal(ms[j], j) \in RevealsOf(ms)
  BY MatchReveal DEF SizeLineIn
<1>. QED BY <1>1, <1>2, <1>3, <1>4, <1>5

(* The first redaction behind an uncovered byte is a size line, or lies     *)
(* behind the first reveal that ends behind the byte.                       *)
LEMMA UncoveredKinds ==
  ASSUME NEW r, NEW R, NEW N, NEW ms, Asked(r, R, N, ms), NEW q \in Nat, NEW i, FirstBehind(ms, q, i),
         NEW z, Uncovered(ms, q, z)
  PROVE  \/ i \in 1 .. Len(Reveals(ms)) /\ Reveals(ms)[i].toIndex <= z.fromIndex
         \/ /\ i \in 1 .. Len(Reveals(ms)) /\ Reveals(ms)[i].toIndex <= z.toIndex
            /\ z = Reveals(ms)[i] \/ Before(Reveals(ms)[i], z)
         \/ \E j, c : SizeLineIn(r, N, ms, z, j, c)
<1>0. z \in RedactionSet(ms) /\ z.toIndex > q /\ z.fromIndex > q
  BY DEF Uncovered
<1>1. CASE z \in Gaps(Reveals(ms))
  BY <1>0, <1>1, GapsBehind
<1>2. CASE z \in RevealsOf(ms)
  BY <1>0, <1>2, RevealBehind
<1>3. CASE z \in HeadersOf(ms)
  BY <1>3, SizeLines
<1>4. z \in HeadersOf(ms) \/ z \in Gaps(Reveals(ms)) \/ z \in RevealsOf(ms)
  BY <1>0 DEF RedactionSet, Reveals
<1>. QED BY <1>1, <1>2, <1>3, <1>4

(* A byte that is left as it is lies in the first reveal that ends behind it,    *)
(* unless a match is nested in another one behind the size line of a chunk.      *)
LEMMA ClearInReveal ==
  ASSUME NEW r, NEW R, NEW N, NEW ms, NEW w, NEW bl, NEW q, LeftClear(r, R, N, ms, w, bl, q),
         NEW i, FirstBehind(ms, q, i), ~NestedIn(r, ms)
  PROVE  /\ i \in 1 .. Len(Reveals(ms)) /\ Reveals(ms)[i].fromIndex <= q /\ q < Reveals(ms)[i].toIndex
         /\ Reveals(ms)[i] \in RevealsOf(ms)
<1>. DEFINE s == Reveals(ms)
<1>0. /\ R \in Nat /\ Received = R /\ ByEnd(s, R) /\ Len(s) \in Nat /\ i \in 1 .. Len(s) + 1
      /\ GapStart(s, i) <= q /\ q \in Nat /\ q \in 0 .. R - 1 /\ Asked(r, R, N, ms)
  <2>1. Asked(r, R, N, ms) /\ q \in 0 .. R - 1
    BY DEF LeftClear
  <2>2. R \in Nat
    BY <2>1, AskedNumbers
  <2>3. q \in Nat
    BY <2>1, <2>2
  <2>. QED BY <2>1, <2>2, <2>3, AskedNumbers, GapBehind DEF Asked, FirstBehind
<1>1. /\ i \in 1 .. Len(s) => /\ s[i] \in RevealsOf(ms) /\ s[i].fromIndex \in 0 .. R /\ s[i].toIndex \in 0 .. R
                              /\ s[i].toIndex > q /\ s[i].fromIndex < s[i].toIndex
  <2>. SUFFICES ASSUME i \in 1 .. Len(s)
                PROVE  /\ s[i] \in RevealsOf(ms) /\ s[i].fromIndex \in 0 .. R /\ s[i].toIndex \in 0 .. R
                       /\ s[i].toIndex > q /\ s[i].fromIndex < s[i].toIndex
    OBVIOUS
  <2>1. s[i] \in RevealsOf(ms)
    BY <1>0, RevealsSorted
  <2>2. s[i].toIndex > q
    BY <1>0 DEF FirstBehind
  <2>. QED BY <1>0, <2>1, <2>2, RevealNumbers
<1>. SUFFICES ASSUME ~(i \in 1 .. Len(s) /\ s[i].fromIndex <= q) PROVE FALSE
  BY <1>0, <1>1
<1>2. /\ GapStart(s, i) \in 0 .. R /\ GapEnd(s, i) \in 0 .. R /\ q < GapEnd(s, i)
      /\ i \in 1 .. Len(s) => GapEnd(s, i) = s[i].fromIndex
  <2>. HIDE DEF s
  <2>1. /\ GapStart(s, i) \in 0 .. R /\ GapEnd(s, i) \in 0 .. R
        /\ i \in 1 .. Len(s) => GapEnd(s, i) = s[i].fromIndex
    BY <1>0, GapPlaces
  <2>2. i \notin 1 .. Len(s) => GapEnd(s, i) = R
    BY <1>0 DEF GapEnd
  <2>. QED BY <1>0, <1>1, <2>1, <2>2
<1>. DEFINE y == Slice(GapStart(s, i), GapEnd(s, i), No, 0)
<1>3. y \in RedactionSet(ms) /\ y.fromIndex = GapStart(s, i) /\ y.toIndex = GapEnd(s, i)
  <2>1. GapStart(s, i) < GapEnd(s, i)
    BY <1>0, <1>2
  <2>2. y \in Gaps(s)
    BY <1>0, <2>1, GapIn
  <2>3. y \in RedactionSet(ms)
    BY <2>2 DEF RedactionSet, Reveals
  <2>. QED BY <1>0, <1>2, <2>1, <2>3, ClearSlice
<1>. HIDE DEF y
<1>4. PICK z : Uncovered(ms, q, z)
  BY <1>2, <1>3, LeftUncovered
<1>5. z \in RedactionSet(ms) /\ z.toIndex > q /\ z.fromIndex > q /\ z # y /\ Before(z, y)
  BY <1>0, <1>2, <1>3, <1>4 DEF Uncovered
<1>6. z.fromIndex \in Nat /\ z.toIndex \in Nat /\ z.fromIndex <= z.toIndex /\ z.toIndex <= y.toIndex
  <2>1. z.fromIndex \in Nat /\ z.toIndex \in Nat /\ z.fromIndex <= z.toIndex
    BY <1>0, <1>5, RedactionNumbers
  <2>. QED BY <1>2, <1>3, <1>5, <2>1 DEF Before
<1>7. CASE \E j, c : SizeLineIn(r, N, ms, z, j, c)
  <2>1. PICK j, c : SizeLineIn(r, N, ms, z, j, c)
    BY <1>7
  <2>. DEFINE v == getReveal(ms[j], j)
  <2>2. /\ j \in 1 .. Len(ms) /\ c \in 2 .. N /\ r.framing = "chunked" /\ v \in RevealsOf(ms)
        /\ z.toIndex = DataAt(r, c) /\ H(r) <= z.fromIndex /\ v.fromIndex < DataAt(r, c) /\ DataAt(r, c) < v.toIndex
    <3>1. /\ z.toIndex = DataAt(r, c) /\ H(r) <= z.fromIndex /\ v \in RevealsOf(ms)
      BY <1>0, <2>1, SizeLineFields
    <3>2. v.fromIndex \in 0 .. R /\ v.toIndex \in 0 .. R
      BY <1>0, <3>1, RevealNumbers
    <3>3. j \in 1 .. Len(ms) /\ c \in 2 .. N /\ r.framing = "chunked" /\ DataAt(r, c) > v.fromIndex /\ DataAt(r, c) < v.toIndex
      BY <2>1 DEF SizeLineIn
    <3>. QED BY <1>6, <3>1, <3>2, <3>3
  <2>3. v.fromIndex \in 0 .. R /\ v.toIndex \in 0 .. R /\ H(r) \in Nat
    BY <1>0, <2>2, RevealNumbers, AskedNumbers
  <2>4. v.toIndex > q
    BY <1>0, <1>5, <1>6, <2>2, <2>3
  <2>5. i \in 1 .. Len(s) /\ s[i].toIndex <= v.toIndex
    BY <1>0, <2>2, <2>4, RevealBehind
  <2>6. DataAt(r, c) <= s[i].fromIndex
    BY <1>2, <1>3, <1>6, <2>2, <2>5
  <2>7. ~(s[i].toIndex <= H(r))
    BY <1>0, <1>1, <1>6, <2>2, <2>3, <2>5, <2>6, SMTT(40)
  <2>8. PICK l \in 1 .. Len(ms) : s[i] = getReveal(ms[l], l)
    BY <1>0, <1>1, <2>5, <2>7, RevealKinds
  <2>9. NestedIn(r, ms)
    BY <1>0, <2>2, <2>5, <2>6, <2>8, NestedReveals
  <2>. QED BY <2>9
<1>8. CASE i \in 1 .. Len(s) /\ (s[i].toIndex <= z.fromIndex \/ s[i].toIndex <= z.toIndex)
  BY <1>1, <1>2, <1>3, <1>6, <1>8
<1>9. \/ i \in 1 .. Len(s) /\ (s[i].toIndex <= z.fromIndex \/ s[i].toIndex <= z.toIndex)
      \/ \E j, c : SizeLineIn(r, N, ms, z, j, c)
  BY <1>0, <1>4, UncoveredKinds
<1>. QED BY <1>7, <1>8, <1>9

-----------------------------------------------------------------------------
(* The bytes of the response a match selects. *)

(* the chunks of a response, one behind the other *)
LEMMA Chunks ==
  ASSUME NEW r, NEW R, NEW N, NEW ms, Asked(r, R, N, ms), r.framing = "chunked"
  PROVE  /\ \A k \in 1 .. M(r) : /\ BodyBefore(r, k) \in Nat /\ BodyUpTo(r, k) \in Nat /\ DataAt(r, k) \in Nat
                                 /\ DataEnd(r, k) \in Nat /\ DataAt(r, k) < DataEnd(r, k)
                                 /\ DataEnd(r, k) - DataAt(r, k) = BodyUpTo(r, k) - BodyBefore(r, k)
                                 /\ BodyBefore(r, k + 1) = BodyUpTo(r, k)
         /\ \A k, l \in 1 .. M(r) : k < l => DataEnd(r, k) + 5 <= DataAt(r, l) /\ BodyUpTo(r, k) <= BodyBefore(r, l)
<1>0. r \in Responses /\ M(r) \in Nat
  BY AskedNumbers DEF Asked
<1>1. ASSUME NEW k \in 1 .. M(r)
      PROVE  /\ BodyBefore(r, k) \in Nat /\ BodyUpTo(r, k) \in Nat /\ DataAt(r, k) \in Nat /\ DataEnd(r, k) \in Nat
             /\ DataAt(r, k) < DataEnd(r, k)
             /\ DataEnd(r, k) - DataAt(r, k) = BodyUpTo(r, k) - BodyBefore(r, k)
             /\ BodyBefore(r, k + 1) = BodyUpTo(r, k)
  <2>1. k \in 1 .. M(r) + 1 /\ k <= M(r) /\ k + 1 \in 1 .. M(r) + 1
    BY <1>0
  <2>2. BodyBefore(r, k + 1) = BodyUpTo(r, k)
    BY <1>0, <2>1, ChunkOrder
  <2>. QED BY <1>0, <2>1, <2>2, ChunkNumbers
<1>2. ASSUME NEW k \in 1 .. M(r), NEW l \in 1 .. M(r), k < l
      PROVE  DataEnd(r, k) + 5 <= DataAt(r, l) /\ BodyUpTo(r, k) <= BodyBefore(r, l)
  <2>1. l \in 1 .. M(r) + 1
    BY <1>0
  <2>. QED BY <1>0, <1>2, <2>1, ChunkOrder
<1>. QED BY <1>1, <1>2

(* The byte of the response that is a byte of the body in chunk c. *)
LEMMA ByteOfChunk ==
  ASSUME NEW r, NEW R, NEW N, NEW ms, Asked(r, R, N, ms), r.framing = "chunked", NEW c \in 1 .. M(r),
         NEW pos \in Nat, BodyBefore(r, c) <= pos, pos < BodyUpTo(r, c)
  PROVE  ByteOf(r, pos) = DataAt(r, c) + (pos - BodyBefore(r, c)) + 1
<1>. DEFINE P(x) == BodyBefore(r, x) <= pos /\ pos < BodyBefore(r, x + 1)
            d == CHOOSE x \in DOMAIN r.ends : P(x)
<1>0. r \in Responses /\ M(r) \in Nat /\ DOMAIN r.ends = 1 .. M(r)
  <2>1. r \in Responses /\ M(r) \in Nat
    BY AskedNumbers DEF Asked
  <2>2. DOMAIN r.ends = 1 .. Len(r.ends)
    BY <2>1, ResponseCuts
  <2>. QED BY <2>1, <2>2 DEF M
<1>1. /\ \A k \in 1 .. M(r) : BodyBefore(r, k) \in Nat /\ BodyUpTo(r, k) \in Nat /\ BodyBefore(r, k + 1) = BodyUpTo(r, k)
      /\ \A k, l \in 1 .. M(r) : k < l => BodyUpTo(r, k) <= BodyBefore(r, l)
  BY Chunks
<1>2. P(c)
  BY <1>1
<1>3. ASSUME NEW x \in 1 .. M(r), P(x) PROVE x = c
  <2>1. BodyBefore(r, x) <= pos /\ pos < BodyUpTo(r, x)
    BY <1>1, <1>3
  <2>2. ~(x < c)
    BY <1>1, <2>1
  <2>3. ~(c < x)
    BY <1>1, <2>1
  <2>. QED BY <1>0, <2>2, <2>3
<1>4. d = c
  BY <1>0, <1>2, <1>3
<1>5. ByteOf(r, pos) = ChunkAt(r, d).fromIndex + pos - BodyBefore(r, d) + 1
  BY DEF ByteOf
<1>. HIDE DEF d
<1>6. ChunkAt(r, c).fromIndex = DataAt(r, c)
  <2>1. c \in 1 .. M(r) + 1
    BY <1>0
  <2>. QED BY <1>0, <2>1, ChunkAtPlaces
<1>7. DataAt(r, c) \in Nat
  BY Chunks
<1>. QED BY <1>1, <1>4, <1>5, <1>6, <1>7

-----------------------------------------------------------------------------
(* A byte inside a reveal is one the match selects. *)

(* A byte of the body inside the reveal of a match is a byte of the match. *)
LEMMA RevealedByte ==
  ASSUME NEW r, NEW R, NEW N, NEW ms, Asked(r, R, N, ms), NEW j \in 1 .. Len(ms), NEW q \in Nat,
         getReveal(ms[j], j).fromIndex <= q, q < getReveal(ms[j], j).toIndex,
         r.framing = "chunked" => \E c \in 1 .. N : DataAt(r, c) <= q /\ q < DataEnd(r, c)
  PROVE  ByteIn(r, ms[j], q + 1)
<1>0. /\ r \in Responses /\ R \in 0 .. Len(Stream(r)) /\ N \in 0 .. M(r) /\ Good(res, r, R, N)
      /\ BLen(r, R, N) \in Nat /\ N \in Nat /\ M(r) \in Nat /\ R \in Nat /\ H(r) \in Nat
  BY AskedNumbers DEF Asked
<1>. DEFINE f == ms[j].fromIndex
            t == ms[j].toIndex
            C(pos) == convertResponsePosToAbsolutePos(pos)
<1>1. /\ f \in 0 .. BLen(r, R, N) /\ t \in 0 .. BLen(r, R, N) /\ f < t
      /\ getReveal(ms[j], j).fromIndex = C(f) /\ getReveal(ms[j], j).toIndex = C(t)
  BY MatchReveal
<1>2. SUFFICES \E i \in f .. t - 1 : q + 1 = ByteOf(r, i)
  BY DEF ByteIn
<1>. HIDE DEF f, t
<1>3. CASE r.framing # "chunked"
  <2>1. C(f) = H(r) + f /\ C(t) = H(r) + t
    BY <1>0, <1>1, <1>3, Convert
  <2>. DEFINE i == q - H(r)
  <2>2. i \in f .. t - 1
    BY <1>0, <1>1, <2>1, SMTT(40)
  <2>3. Len(HeaderOf(r)) = H(r)
    BY <1>0, HeaderBytes
  <2>4. ByteOf(r, i) = H(r) + i + 1
    BY <1>0, <1>3, <2>3 DEF ByteOf, BodyStart
  <2>5. q + 1 = ByteOf(r, i)
    BY <1>0, <2>4
  <2>. QED BY <2>2, <2>5
<1>4. CASE r.framing = "chunked"
  <2>1. PICK c \in 1 .. N : DataAt(r, c) <= q /\ q < DataEnd(r, c)
    BY <1>4
  <2>2. c \in 1 .. M(r) /\ N \in 1 .. M(r) /\ BLen(r, R, N) = BodyUpTo(r, N)
    BY <1>0, <1>4, <2>1, AskedNumbers, SMTT(40)
  <2>3. /\ BodyBefore(r, c) \in Nat /\ BodyUpTo(r, c) \in Nat /\ DataAt(r, c) \in Nat /\ DataEnd(r, c) \in Nat
        /\ DataEnd(r, c) - DataAt(r, c) = BodyUpTo(r, c) - BodyBefore(r, c)
    BY <1>4, <2>2, Chunks
  <2>4. PICK i \in Nat : i = BodyBefore(r, c) + (q - DataAt(r, c))
    BY <2>1, <2>3
  <2>5. BodyBefore(r, c) <= i /\ i < BodyUpTo(r, c)
    BY <2>1, <2>3, <2>4
  <2>6. ByteOf(r, i) = q + 1
    <3>1. ByteOf(r, i) = DataAt(r, c) + (i - BodyBefore(r, c)) + 1
      BY <1>4, <2>2, <2>5, ByteOfChunk
    <3>2. PICK a, b \in Nat : a = DataAt(r, c) /\ b = BodyBefore(r, c)
      BY <2>3
    <3>3. ByteOf(r, i) = a + (i - b) + 1 /\ i = b + (q - a)
      BY <2>4, <3>1, <3>2
    <3>. QED BY <3>3
  <2>7. BodyUpTo(r, c) <= BodyUpTo(r, N)
    <3>1. c = N \/ c < N
      BY <1>0, <2>1
    <3>2. N \in 1 .. M(r) /\ BodyBefore(r, N) \in Nat /\ BodyUpTo(r, N) \in Nat /\ BodyBefore(r, N) <= BodyUpTo(r, N)
      <4>1. N \in 1 .. M(r) /\ BodyBefore(r, N) \in Nat /\ BodyUpTo(r, N) \in Nat /\ DataAt(r, N) < DataEnd(r, N)
            /\ DataEnd(r, N) - DataAt(r, N) = BodyUpTo(r, N) - BodyBefore(r, N) /\ DataAt(r, N) \in Nat /\ DataEnd(r, N) \in Nat
        BY <1>4, <2>2, Chunks
      <4>. QED BY <4>1
    <3>3. c < N => BodyUpTo(r, c) <= BodyBefore(r, N)
      BY <1>4, <2>2, <3>2, Chunks
    <3>. QED BY <2>3, <3>1, <3>2, <3>3
  <2>8. i + 1 \in 0 .. BLen(r, R, N) /\ i + 1 \in Nat
    BY <1>0, <2>2, <2>3, <2>5, <2>7, SMTT(40)
  <2>9. C(i + 1) = q + 1
    <3>1. InPart(r, N, i + 1, c)
      BY <2>1, <2>3, <2>5 DEF InPart
    <3>2. res.chunks = ReadChunksOf(r, N)
      BY <1>0, <1>4 DEF Good, GoodChunked
    <3>3. C(i + 1) = AbsIn(r, i + 1, c)
      BY <1>0, <1>4, <2>2, <2>8, <3>1, <3>2, ConvertChunked
    <3>4. PICK a, b \in Nat : a = DataAt(r, c) /\ b = BodyBefore(r, c)
      BY <2>3
    <3>5. C(i + 1) = a + ((i + 1) - b) /\ i = b + (q - a)
      BY <2>4, <3>3, <3>4 DEF AbsIn
    <3>6. a + ((i + 1) - b) = q + 1
      BY <3>5
    <3>. QED BY <3>5, <3>6
  <2>10. C(f) \in Nat /\ C(t) \in Nat /\ f \in Nat /\ t \in Nat
    <3>1. C(f) \in H(r) .. R /\ C(t) \in H(r) .. R
      BY <1>0, <1>1, Convert
    <3>. QED BY <1>0, <1>1, <3>1
  <2>. HIDE DEF C
  <2>11. i + 1 <= t
    <3>1. t < i + 1 => C(t) < C(i + 1)
      BY <1>0, <1>1, <2>8, ConvertMonotone DEF C
    <3>. QED BY <1>1, <2>8, <2>9, <2>10, <3>1
  <2>12. f < i + 1
    <3>1. i + 1 < f => C(i + 1) < C(f)
      BY <1>0, <1>1, <2>8, ConvertMonotone DEF C
    <3>2. i + 1 = f => C(i + 1) = C(f)
      OBVIOUS
    <3>. QED BY <1>1, <2>8, <2>9, <2>10, <3>1, <3>2
  <2>13. i \in f .. t - 1
    BY <2>4, <2>10, <2>11, <2>12
  <2>. QED BY <2>6, <2>13
<1>. QED BY <1>3, <1>4

-----------------------------------------------------------------------------
(* The size line of a chunk inside a reveal is redacted. *)

(* A byte that is left as it is, in the reveal of a match, is a byte of a chunk: *)
(* a size line in the reveal is redacted, and nothing is redacted before it.     *)
LEMMA ClearInChunk ==
  ASSUME NEW r, NEW R, NEW N, NEW ms, NEW w, NEW bl, NEW q, LeftClear(r, R, N, ms, w, bl, q),
         r.framing = "chunked", NEW i, FirstBehind(ms, q, i), NEW j \in 1 .. Len(ms),
         i \in 1 .. Len(Reveals(ms)), Reveals(ms)[i] = getReveal(ms[j], j),
         getReveal(ms[j], j).fromIndex <= q, q < getReveal(ms[j], j).toIndex
  PROVE  \E c \in 1 .. N : DataAt(r, c) <= q /\ q < DataEnd(r, c)
<1>. DEFINE x == getReveal(ms[j], j)
<1>0. /\ r \in Responses /\ R \in 0 .. Len(Stream(r)) /\ N \in 0 .. M(r) /\ Good(res, r, R, N) /\ Asked(r, R, N, ms)
      /\ BLen(r, R, N) \in Nat /\ N \in Nat /\ M(r) \in Nat /\ R \in Nat /\ H(r) \in Nat /\ N \in 1 .. M(r)
      /\ q \in Nat
  <2>1. Asked(r, R, N, ms) /\ q \in 0 .. R - 1
    BY DEF LeftClear
  <2>2. R \in Nat
    BY <2>1, AskedNumbers
  <2>. QED BY <2>1, <2>2, AskedNumbers DEF Asked
<1>1. /\ \A k \in 1 .. N : k \in 1 .. M(r) /\ DataAt(r, k) \in Nat /\ DataEnd(r, k) \in Nat /\ DataAt(r, k) < DataEnd(r, k)
      /\ \A k, l \in 1 .. N : k < l => DataEnd(r, k) + 5 <= DataAt(r, l)
  <2>1. \A k \in 1 .. N : k \in 1 .. M(r)
    BY <1>0
  <2>. QED BY <1>0, <2>1, Chunks
<1>2. /\ x \in RevealsOf(ms) /\ H(r) <= x.fromIndex /\ x.fromIndex \in Nat /\ x.toIndex \in Nat
      /\ x.fromIndex <= q /\ q < x.toIndex
  <2>1. x \in RevealsOf(ms) /\ H(r) <= x.fromIndex
    BY <1>0, MatchReveal
  <2>2. x.fromIndex \in 0 .. R /\ x.toIndex \in 0 .. R
    BY <1>0, <2>1, RevealNumbers
  <2>. QED BY <1>0, <2>1, <2>2
<1>. HIDE DEF x
<1>3. PICK d \in 1 .. N : DataAt(r, d) < x.toIndex /\ x.toIndex <= DataEnd(r, d)
  <2>1. ~(x.toIndex <= H(r))
    BY <1>0, <1>2
  <2>. QED BY <1>0, <1>2, <2>1, RevealEnds
<1>. DEFINE T == {k \in 1 .. N : q < DataEnd(r, k)}
<1>4. d \in T
  <2>1. DataAt(r, d) \in Nat /\ DataEnd(r, d) \in Nat
    BY <1>1, <1>3
  <2>2. q < DataEnd(r, d)
    BY <1>0, <1>2, <1>3, <2>1, SMTT(40)
  <2>. QED BY <1>3, <2>2
<1>5. PICK c \in T : \A y \in T : c <= y
  <2>1. T \in SUBSET Nat /\ T # {}
    BY <1>0, <1>4
  <2>. QED BY <2>1, LeastOf
<1>6. c \in 1 .. N /\ q < DataEnd(r, c) /\ c \in Nat
  BY <1>0, <1>5
<1>7. SUFFICES ASSUME q < DataAt(r, c) PROVE FALSE
  BY <1>0, <1>1, <1>6, SMTT(40)
<1>8. c # 1
  <2>1. c = 1 => q < DataAt(r, 1)
    BY <1>7
  <2>2. DataAt(r, 1) <= x.fromIndex
    <3>1. ms[j].fromIndex \in 0 .. BLen(r, R, N) /\ x.fromIndex = convertResponsePosToAbsolutePos(ms[j].fromIndex)
      BY <1>0, MatchReveal DEF x
    <3>2. PICK k \in 1 .. N : /\ InPart(r, N, ms[j].fromIndex, k)
                              /\ x.fromIndex = AbsIn(r, ms[j].fromIndex, k)
      BY <1>0, <3>1, Convert
    <3>3. ms[j].fromIndex \in Nat
      BY <1>0, <3>1
    <3>4. x.fromIndex \in DataAt(r, k) .. DataEnd(r, k)
      BY <1>0, <3>2, <3>3, InPartNumbers
    <3>5. 1 \in 1 .. N /\ (k = 1 \/ 1 < k)
      BY <1>0, <3>2
    <3>6. DataAt(r, 1) <= DataAt(r, k)
      <4>1. 1 < k => DataEnd(r, 1) + 5 <= DataAt(r, k)
        BY <1>1, <3>2, <3>5
      <4>2. DataAt(r, 1) \in Nat /\ DataEnd(r, 1) \in Nat /\ DataAt(r, 1) < DataEnd(r, 1) /\ DataAt(r, k) \in Nat
        BY <1>1, <3>2, <3>5
      <4>. QED BY <3>5, <4>1, <4>2
    <3>7. DataAt(r, 1) \in Nat /\ DataAt(r, k) \in Nat /\ DataEnd(r, k) \in Nat
      BY <1>1, <3>2, <3>5
    <3>. QED BY <1>2, <3>4, <3>6, <3>7
  <2>3. 1 \in 1 .. N
    BY <1>0
  <2>4. DataAt(r, 1) \in Nat
    BY <1>1, <2>3
  <2>. QED BY <1>0, <1>2, <2>1, <2>2, <2>4
<1>9. PICK e \in 1 .. N : e = c - 1 /\ e < c /\ e \in Nat
  <2>1. N \in Nat
    BY <1>0
  <2>2. c \in 1 .. N
    BY <1>6
  <2>. HIDE DEF T
  <2>3. c - 1 \in 1 .. N /\ c - 1 < c /\ c - 1 \in Nat
    BY <1>8, <2>1, <2>2
  <2>. QED BY <2>3, Zenon
<1>10. DataEnd(r, e) <= q
  <2>1. e \notin T
    BY <1>5, <1>6, <1>9
  <2>2. ~(q < DataEnd(r, e))
    BY <1>9, <2>1
  <2>3. DataEnd(r, e) \in Nat
    BY <1>1, <1>9
  <2>. QED BY <1>0, <2>2, <2>3
<1>. HIDE DEF T
<1>11. DataAt(r, c) < x.toIndex
  <2>1. ~(d < c)
    <3>1. d < c => d = e \/ d < e
      BY <1>0, <1>6, <1>9
    <3>2. d < c => DataEnd(r, d) <= DataEnd(r, e)
      <4>1. d < e => DataEnd(r, d) + 5 <= DataAt(r, e)
        BY <1>1, <1>3, <1>9
      <4>. QED BY <1>1, <1>9, <3>1, <4>1
    <3>3. DataEnd(r, d) \in Nat /\ DataEnd(r, e) \in Nat
      BY <1>1, <1>3, <1>9
    <3>. HIDE DEF x
    <3>. QED BY <1>0, <1>2, <1>3, <1>10, <3>2, <3>3, SMTT(40)
  <2>2. c = d \/ c < d
    BY <1>0, <1>6, <2>1
  <2>3. c < d => DataEnd(r, c) + 5 <= DataAt(r, d)
    BY <1>1, <1>3, <1>6
  <2>. QED BY <1>1, <1>2, <1>3, <1>6, <2>2, <2>3, SMTT(40)
<1>12. c \in 2 .. N
  BY <1>0, <1>6, <1>8
<1>. DEFINE z0 == SizeSlice(r, c)
<1>13. SizeLineIn(r, N, ms, z0, j, c)
  <2>1. DataAt(r, c) \in Nat
    BY <1>1, <1>6
  <2>2. DataAt(r, c) > x.fromIndex
    BY <1>0, <1>2, <1>7, <2>1
  <2>. QED BY <1>11, <1>12, <2>2 DEF SizeLineIn, x
<1>14. /\ z0.fromIndex = DataEnd(r, e) /\ z0.toIndex = DataAt(r, c) /\ z0 \in RedactionSet(ms)
       /\ z0.fromIndex \in Nat /\ z0.toIndex \in Nat
  BY <1>0, <1>9, <1>13, SizeLineFields
<1>. HIDE DEF z0
<1>15. PICK z : Uncovered(ms, q, z)
  BY <1>0, <1>7, <1>14, LeftUncovered
<1>16. /\ z \in RedactionSet(ms) /\ z.toIndex > q /\ z.fromIndex > q /\ z # z0 /\ Before(z, z0)
       /\ z.fromIndex \in Nat /\ z.toIndex \in Nat /\ z.fromIndex <= z.toIndex
  <2>1. z \in RedactionSet(ms) /\ z.toIndex > q /\ z.fromIndex > q
    BY <1>15 DEF Uncovered
  <2>2. z.fromIndex \in Nat /\ z.toIndex \in Nat /\ z.fromIndex <= z.toIndex
    BY <1>0, <2>1, RedactionNumbers
  <2>3. z0.toIndex > q /\ ~(z0.fromIndex > q)
    BY <1>0, <1>7, <1>10, <1>14
  <2>4. z0 = z \/ Before(z, z0)
    BY <1>14, <1>15, <2>3 DEF Uncovered
  <2>. QED BY <2>1, <2>2, <2>3, <2>4
<1>17. z.toIndex <= DataAt(r, c) /\ DataAt(r, c) \in Nat
  BY <1>14, <1>16 DEF Before
<1>18. CASE \E k, l : SizeLineIn(r, N, ms, z, k, l)
  <2>1. PICK k, l : SizeLineIn(r, N, ms, z, k, l)
    BY <1>18
  <2>2. l \in 2 .. N /\ z.fromIndex = DataEnd(r, l - 1) /\ z.toIndex = DataAt(r, l)
    <3>1. l \in 2 .. N
      BY <2>1 DEF SizeLineIn
    <3>. QED BY <1>0, <2>1, <3>1, SizeLineFields
  <2>3. l \in 1 .. N /\ (l = c \/ l < c \/ c < l) /\ l \in Nat
    <3>1. l \in Nat /\ l \in 1 .. N
      BY <1>0, <2>2
    <3>. QED BY <1>6, <3>1
  <2>3a. /\ DataAt(r, l) \in Nat /\ DataEnd(r, l) \in Nat /\ DataAt(r, l) < DataEnd(r, l)
         /\ DataAt(r, c) \in Nat /\ DataEnd(r, c) \in Nat /\ DataAt(r, c) < DataEnd(r, c)
         /\ DataAt(r, e) \in Nat /\ DataEnd(r, e) \in Nat /\ DataAt(r, e) < DataEnd(r, e)
    BY <1>1, <1>6, <1>9, <2>3
  <2>4. l # c
    <3>1. l = c => z.fromIndex = DataEnd(r, e)
      BY <1>9, <2>2
    <3>. QED BY <1>0, <1>10, <1>16, <2>3a, <3>1, SMTT(40)
  <2>5. ~(c < l)
    <3>1. c < l => DataEnd(r, c) + 5 <= DataAt(r, l)
      BY <1>1, <1>6, <2>3
    <3>. QED BY <1>17, <2>2, <2>3a, <3>1, SMTT(40)
  <2>6. ~(l < c)
    <3>1. l < c => l = e \/ l < e
      BY <1>6, <1>9, <2>3
    <3>2. l < e => DataEnd(r, l) + 5 <= DataAt(r, e)
      BY <1>1, <1>9, <2>3
    <3>3. l < c => DataAt(r, l) <= DataEnd(r, e)
      BY <2>3a, <3>1, <3>2
    <3>4. DataAt(r, l) > q
      BY <1>16, <2>2
    <3>5. PICK a, b \in Nat : a = DataAt(r, l) /\ b = DataEnd(r, e)
      BY <2>3a
    <3>. QED BY <1>0, <1>10, <3>3, <3>4, <3>5
  <2>. QED BY <2>3, <2>4, <2>5, <2>6
<1>19. CASE x.toIndex <= z.fromIndex \/ x.toIndex <= z.toIndex
  BY <1>2, <1>11, <1>16, <1>17, <1>19
<1>20. \/ x.toIndex <= z.fromIndex \/ x.toIndex <= z.toIndex
       \/ \E k, l : SizeLineIn(r, N, ms, z, k, l)
  BY <1>0, <1>15, UncoveredKinds DEF x
<1>. QED BY <1>18, <1>19, <1>20

-----------------------------------------------------------------------------
(* A hashed reveal that is left as it is in part has its TOPRF out of       *)
(* place.                                                                   *)

(* No redaction that comes before a hashed reveal ends where the reveal ends, when *)
(* the reveal is the first one that ends behind q.                                 *)
LEMMA EndsApart ==
  ASSUME NEW r, NEW R, NEW N, NEW ms, Asked(r, R, N, ms), NoneAtEnd(ms, R), NEW q \in Nat, NEW i, FirstBehind(ms, q, i),
         i \in 1 .. Len(Reveals(ms)), NEW x, x = Reveals(ms)[i], x.hash,
         NEW y \in RedactionSet(ms), Before(y, x)
  PROVE  y.toIndex < x.toIndex
<1>. DEFINE s == Reveals(ms)
<1>0. /\ R \in Nat /\ Received = R /\ ByEnd(s, R) /\ Len(s) \in Nat /\ i \in 1 .. Len(s) /\ H(r) \in Nat
  BY AskedNumbers DEF Asked
<1>1. /\ x \in RevealsOf(ms) /\ x.toIndex > q /\ x.fromIndex \in 0 .. R /\ x.toIndex \in 0 .. R /\ x.fromIndex < x.toIndex
  <2>1. x \in RevealsOf(ms)
    BY <1>0, RevealsSorted
  <2>2. x.toIndex > q
    BY <1>0 DEF FirstBehind
  <2>. QED BY <2>1, <2>2, RevealNumbers
<1>2. y.fromIndex \in Nat /\ y.toIndex \in Nat /\ (y.fromIndex < y.toIndex \/ y.toIndex = R)
  BY RedactionNumbers
<1>3. SUFFICES ASSUME y.toIndex = x.toIndex PROVE FALSE
  BY <1>1, <1>2 DEF Before
<1>4. CASE y \in Gaps(s)
  <2>. HIDE DEF s
  <2>1. PICK k \in 1 .. Len(s) + 1 : y.fromIndex = GapStart(s, k) /\ y.toIndex = GapEnd(s, k)
    BY <1>0, <1>4, GapFields
  <2>2. CASE k > i
    <3>1. k > 1 /\ k - 1 \in 1 .. Len(s) /\ (k - 1 = i \/ i < k - 1)
      BY <1>0, <2>1, <2>2
    <3>2. y.fromIndex = s[k - 1].toIndex
      BY <1>0, <2>1, <3>1, GapPlaces
    <3>3. s[i].toIndex <= s[k - 1].toIndex
      BY <1>0, <1>2, <3>1, <3>2 DEF ByEnd
    <3>4. x.toIndex < R
      BY <1>1 DEF NoneAtEnd
    <3>. QED BY <1>0, <1>1, <1>2, <1>3, <3>2, <3>3, <3>4 DEF s
  <2>3. CASE ~(k > i)
    <3>1. k \in 1 .. Len(s) /\ (k = i \/ k < i) /\ k <= Len(s)
      BY <1>0, <2>1, <2>3
    <3>2. GapEnd(s, k) < s[k].toIndex /\ s[k].toIndex \in 0 .. R
      BY <1>0, <2>1, <3>1, GapPlaces
    <3>3. s[k].toIndex <= s[i].toIndex
      BY <1>0, <3>1, <3>2 DEF ByEnd
    <3>. QED BY <1>0, <1>1, <1>2, <1>3, <2>1, <3>2, <3>3 DEF s
  <2>. QED BY <2>2, <2>3
<1>5. CASE y \in RevealsOf(ms)
  <2>1. y.toIndex > q
    BY <1>1, <1>3
  <2>2. y = x \/ Before(x, y)
    BY <1>5, <2>1, RevealBehind
  <2>3. x.place \in Int /\ y.place \in Int
    BY <1>1, <1>5, RevealNumbers
  <2>4. y.place < x.place
    BY <1>1, <1>2, <1>3 DEF Before
  <2>. QED BY <1>1, <1>2, <1>3, <2>2, <2>3, <2>4 DEF Before
<1>6. CASE y \in HeadersOf(ms)
  <2>1. PICK j, c : SizeLineIn(r, N, ms, y, j, c)
    BY <1>6, SizeLines
  <2>2. y.toIndex = DataAt(r, c) /\ y.fromIndex + 5 = y.toIndex /\ H(r) <= y.fromIndex
    BY <2>1, SizeLineFields
  <2>3. r.framing = "chunked" /\ c \in 2 .. N
    BY <2>1 DEF SizeLineIn
  <2>4. N \in 1 .. M(r) /\ N \in Nat /\ M(r) \in Nat
    BY <2>3, AskedNumbers
  <2>5. ~(x.toIndex <= H(r))
    BY <1>0, <1>1, <1>2, <1>3, <2>2
  <2>6. PICK d \in 1 .. N : DataAt(r, d) < x.toIndex /\ x.toIndex <= DataEnd(r, d)
    BY <1>1, <2>3, <2>5, RevealEnds
  <2>7. c \in 1 .. M(r) /\ d \in 1 .. M(r) /\ c \in Nat /\ d \in Nat
    BY <2>3, <2>4, <2>6
  <2>8. /\ DataAt(r, c) \in Nat /\ DataEnd(r, c) \in Nat /\ DataAt(r, c) < DataEnd(r, c)
        /\ DataAt(r, d) \in Nat /\ DataEnd(r, d) \in Nat
        /\ c < d => DataEnd(r, c) + 5 <= DataAt(r, d)
        /\ d < c => DataEnd(r, d) + 5 <= DataAt(r, c)
    BY <2>3, <2>7, Chunks
  <2>9. DataAt(r, d) < DataAt(r, c) /\ DataAt(r, c) <= DataEnd(r, d)
    BY <1>3, <2>2, <2>6
  <2>10. c # d
    BY <2>8, <2>9
  <2>. QED BY <2>7, <2>8, <2>9, <2>10
<1>7. y \in HeadersOf(ms) \/ y \in Gaps(s) \/ y \in RevealsOf(ms)
  BY DEF RedactionSet, Reveals
<1>. QED BY <1>4, <1>5, <1>6, <1>7

(* A byte of a hashed reveal that is left as it is: a size line in the      *)
(* reveal moved the cursor over it, and the TOPRF of the reveal is noted    *)
(* behind that line.                                                        *)
LEMMA HashedClear ==
  ASSUME NEW r, NEW R, NEW N, NEW ms, NEW w, NEW bl, NEW q, LeftClear(r, R, N, ms, w, bl, q),
         NEW i, FirstBehind(ms, q, i), i \in 1 .. Len(Reveals(ms)), NEW x, x = Reveals(ms)[i], x.hash,
         x.fromIndex <= q, q < x.toIndex
  PROVE  BadToprf(bl, w)
<1>. DEFINE s == Reveals(ms)
            g == getResponseRedactions(ms)
<1>0. /\ R \in Nat /\ Asked(r, R, N, ms) /\ NoneAtEnd(ms, R) /\ q \in Nat /\ RedactedAs(w, g, Len(g), R, bl)
  <2>1. Asked(r, R, N, ms) /\ NoneAtEnd(ms, R) /\ q \in 0 .. R - 1 /\ RedactedAs(w, g, Len(g), R, bl)
    BY DEF LeftClear
  <2>2. R \in Nat
    BY <2>1, AskedNumbers
  <2>. QED BY <2>1, <2>2
<1>1. /\ x \in RevealsOf(ms) /\ x.fromIndex \in 0 .. R /\ x.toIndex \in 0 .. R /\ x.fromIndex < x.toIndex
      /\ x \in RedactionSet(ms)
  <2>1. x \in RevealsOf(ms)
    BY <1>0, RevealsSorted
  <2>2. x \in RedactionSet(ms)
    BY <2>1 DEF RedactionSet
  <2>. QED BY <1>0, <2>1, <2>2, RevealNumbers
<1>2. PICK z : Uncovered(ms, q, z)
  BY <1>1, LeftUncovered
<1>3. /\ z \in RedactionSet(ms) /\ z.toIndex > q /\ z.fromIndex > q /\ z # x /\ Before(z, x)
      /\ z.fromIndex \in Nat /\ z.toIndex \in Nat /\ z.fromIndex <= z.toIndex
  <2>1. z \in RedactionSet(ms) /\ z.toIndex > q /\ z.fromIndex > q
    BY <1>2 DEF Uncovered
  <2>2. z.fromIndex \in Nat /\ z.toIndex \in Nat /\ z.fromIndex <= z.toIndex
    BY <1>0, <2>1, RedactionNumbers
  <2>3. ~(x.fromIndex > q) /\ x.toIndex > q
    BY <1>0, <1>1
  <2>4. x = z \/ Before(z, x)
    BY <1>1, <1>2, <2>3 DEF Uncovered
  <2>. QED BY <2>1, <2>2, <2>3, <2>4
<1>4. z.toIndex < x.toIndex
  BY <1>0, <1>3, EndsApart
<1>. HIDE DEF g
<1>5. /\ Listed(g, R) /\ Len(g) \in Nat /\ Keyed(RedactionSet(ms))
      /\ \A k \in 1 .. Len(g) : g[k] \in RedactionSet(ms)
      /\ \A y \in RedactionSet(ms) : \E k \in 1 .. Len(g) : g[k] = y
      /\ \A k, l \in 1 .. Len(g) : k < l => Before(g[k], g[l])
  BY <1>0, RedactionOrder DEF g
<1>6. PICK n \in 1 .. Len(g) : g[n] = x
  BY <1>1, <1>5
<1>7. PICK m \in 1 .. Len(g) : g[m] = z
  BY <1>3, <1>5
<1>8. m < n
  <2>1. n < m => Before(x, z)
    BY <1>5, <1>6, <1>7
  <2>2. ~Before(x, z)
    BY <1>1, <1>3, <1>4 DEF Before
  <2>. QED BY <1>3, <1>5, <1>6, <1>7, <2>1, <2>2
<1>9. n - 1 \in 1 .. Len(g) /\ n - 1 # 0 /\ n - 1 < n /\ (m = n - 1 \/ m < n - 1)
  BY <1>5, <1>6, <1>7, <1>8
<1>10. PICK c \in Nat : c = g[n - 1].toIndex
  <2>1. g[n - 1] \in RedactionSet(ms)
    BY <1>5, <1>9
  <2>. QED BY <1>0, <2>1, RedactionNumbers
<1>11. c < x.toIndex
  <2>1. g[n - 1] \in RedactionSet(ms) /\ Before(g[n - 1], x)
    BY <1>5, <1>6, <1>9
  <2>. QED BY <1>0, <1>10, <2>1, EndsApart
<1>12. z.toIndex <= c
  <2>1. m < n - 1 => g[m].toIndex <= g[n - 1].toIndex
    BY <1>5, <1>7, <1>9 DEF Listed
  <2>. QED BY <1>3, <1>7, <1>9, <1>10, <2>1
<1>13. x.fromIndex < c
  BY <1>0, <1>1, <1>3, <1>12
<1>14. CursorAfter(g, n - 1) = c /\ OverAt(g, n) = c
  <2>1. CursorAfter(g, n - 1) = c
    BY <1>9, <1>10 DEF CursorAfter
  <2>2. ~(c < x.fromIndex)
    BY <1>1, <1>13
  <2>. QED BY <1>6, <2>1, <2>2 DEF OverAt, OverFrom
<1>15. PICK p \in 1 .. R : p = c + 1
  BY <1>0, <1>1, <1>11
<1>16. w.plain[p] # Star
  <2>1. w.plain[p] = IF OverAt(g, n) < p THEN CharOf(g[n], p - 1 - OverAt(g, n)) ELSE Clear
    <3>1. WrittenAs(w, g, Len(g), R)
      BY <1>0 DEF RedactedAs
    <3>2. CursorAfter(g, n - 1) < p /\ p <= g[n].toIndex
      BY <1>1, <1>6, <1>11, <1>14, <1>15
    <3>. QED BY <1>6, <3>1, <3>2 DEF WrittenAs
  <2>2. OverAt(g, n) < p /\ p - 1 - OverAt(g, n) \in Int
    BY <1>14, <1>15
  <2>3. x \in Redactable(R)
    BY <1>0, <1>1, RedactionNumbers
  <2>. QED BY <1>0, <1>6, <2>1, <2>2, <2>3, WrittenNotClear
<1>17. PICK k \in DOMAIN w.toprfs : NotedAt(w.toprfs[k], c, R, bl, x)
  BY <1>0, <1>6, <1>14 DEF RedactedAs, NotedAs
<1>. DEFINE t == w.toprfs[k]
<1>18. t.text = x.fromIndex /\ CursorAt(bl, c, t.block, t.fromIndex)
  <2>1. c < R
    BY <1>0, <1>1, <1>11
  <2>. QED BY <1>17, <2>1 DEF NotedAt
<1>19. /\ t.block \in 1 .. Len(bl) /\ t.fromIndex < LenOf(bl, t.block) /\ StartOf(bl, t.block) + t.fromIndex = c
  BY <1>18 DEF CursorAt
<1>20. c # t.text
  BY <1>1, <1>13, <1>18
<1>. QED BY <1>15, <1>16, <1>19, <1>20 DEF BadToprf

-----------------------------------------------------------------------------
(* A TOPRF out of place is not proved. *)

(* A proof with a hash reaches the first of the hashed bytes. *)
LEMMA OffsetNear ==
  ASSUME NEW t, t.fromIndex \in Nat, t.length \in Nat
  PROVE  getIdealOffsetForToprfBlock(t) \in Nat /\ t.fromIndex < getIdealOffsetForToprfBlock(t) + ChunkSize
<1>. DEFINE f == t.fromIndex
            o == getIdealOffsetForToprfBlock(t)
<1>0. o \in 0 .. f /\ f \in Nat
  BY OffsetFacts
<1>1. /\ f % ChunkSize \in 0 .. ChunkSize - 1 /\ f = (f \div ChunkSize) * ChunkSize + (f % ChunkSize)
      /\ f % BlockSize \in 0 .. BlockSize - 1 /\ f = (f \div BlockSize) * BlockSize + (f % BlockSize)
  BY <1>0, Sizes, DivMod, Zenon
<1>2. o = (f \div ChunkSize) * ChunkSize \/ o = (f \div BlockSize) * BlockSize
  BY DEF getIdealOffsetForToprfBlock
<1>3. BlockSize <= ChunkSize
  <2>1. /\ 0 \in Nat /\ ChunkSize \in Nat /\ BlockSize \in Nat \ {0} /\ 0 < ChunkSize /\ ChunkSize % BlockSize = 0
    BY Sizes
  <2>2. 0 % BlockSize = 0
    BY <2>1
  <2>3. 0 + BlockSize <= ChunkSize
    BY <2>1, <2>2, MultipleMinus, Zenon
  <2>. QED BY <2>1, <2>3
<1>. HIDE DEF o, f
<1>4. f = o + (f % ChunkSize) \/ f = o + (f % BlockSize)
  BY <1>1, <1>2, Zenon
<1>5. f < o + ChunkSize
  BY <1>0, <1>1, <1>3, <1>4, Sizes
<1>. QED BY <1>0, <1>5 DEF o, f

(* The circuit refuses a nullifier that is not where its bytes are. *)
LEMMA BadToprfRefused ==
  ASSUME NEW R, NEW bl, Blocks(bl, R), NEW w \in Walks(R), NEW pk, ProvedAs(bl, w, pk)
  PROVE  ~BadToprf(bl, w)
<1>. SUFFICES ASSUME BadToprf(bl, w) PROVE FALSE
  OBVIOUS
<1>1. PICK k \in DOMAIN w.toprfs :
        /\ w.toprfs[k].block \in 1 .. Len(bl) /\ w.toprfs[k].fromIndex < LenOf(bl, w.toprfs[k].block)
        /\ StartOf(bl, w.toprfs[k].block) + w.toprfs[k].fromIndex # w.toprfs[k].text
        /\ w.plain[StartOf(bl, w.toprfs[k].block) + w.toprfs[k].fromIndex + 1] # Star
  BY DEF BadToprf
<1>. DEFINE t == w.toprfs[k]
            b == t.block
            f == t.fromIndex
            text == TextOf(bl, w, b)
            ts == ToprfsIn(w, b)
            size == LenOf(bl, b)
            start == StartOf(bl, b)
<1>2. t \in Toprf
  <2>1. w.toprfs \in Seq(Toprf)
    BY DEF Walks
  <2>. QED BY <1>1, <2>1
<1>3. f \in Nat /\ t.length \in Nat /\ t.length # 0 /\ t.text \in Nat
  BY <1>2 DEF Toprf
<1>4. b \in 1 .. Len(bl) /\ f < size /\ start + f # t.text /\ w.plain[start + f + 1] # Star
  BY <1>1
<1>5. k \in DOMAIN ts /\ ts[k] = t
  BY DEF ToprfsIn
<1>6. /\ text \in Seq(Chars) /\ Len(text) \in Nat /\ Len(text) = size + Suffix /\ Placed(ts) /\ size \in 0 .. Len(text)
      /\ \A i \in 1 .. size : text[i] = w.plain[start + i]
  BY <1>4, TextFacts, ToprfsPlaced
<1>7. size \in Nat /\ start \in Nat
  <2>1. start \in 0 .. R /\ size \in 0 .. R /\ R \in Nat
    BY <1>4, BlockNumbers
  <2>. QED BY <2>1
<1>8. ProvedBlock(bl, w, pk, b)
  BY <1>4 DEF ProvedAs
<1>. HIDE DEF t, b, f, text, ts, size, start
<1>9. f + 1 \in 1 .. size /\ start + (f + 1) = start + f + 1 /\ f + 1 \in 1 .. Len(text)
  BY <1>3, <1>4, <1>6, <1>7
<1>10. text[f + 1] # Star
  <2>1. text[f + 1] = w.plain[start + (f + 1)]
    BY <1>6, <1>9
  <2>. QED BY <1>4, <1>9, <2>1
<1>11. RevealedIn(bl, w, b)
  <2>1. w.plain[start + (f + 1)] # Star
    BY <1>4, <1>9
  <2>. QED BY <1>9, <2>1 DEF RevealedIn, start, size
<1>12. /\ pk[b] = Proofs(text, ts) /\ ~CannotProve(ts, Len(text)) /\ \A p \in pk[b] : Provable(start, p)
  BY <1>8, <1>11 DEF ProvedBlock, text, ts, start
<1>. DEFINE p == ToprfProof(text, t)
            s == ToprfSlice(t, Len(text))
            o == getIdealOffsetForToprfBlock(t)
<1>13. o \in Nat /\ o <= f /\ f < o + ChunkSize
  <2>1. o \in 0 .. f
    BY <1>3, OffsetFacts DEF f
  <2>2. f < o + ChunkSize
    BY <1>3, OffsetNear DEF f
  <2>. QED BY <1>3, <2>1, <2>2
<1>14. /\ s \in Slices(Len(text)) /\ OfSlice(text, p, s) /\ p \in All(text, ts)
       /\ p.fromIndex = o /\ p.toIndex = Least(o + ChunkSize, Len(text))
       /\ p.toprf = [pos |-> f - o, length |-> t.length, text |-> t.text]
  <2>1. s \in Slices(Len(text))
    BY <1>5, <1>6, <1>12, ToprfSlices, ZenonT(60) DEF Done
  <2>2. OfSlice(text, p, s)
    BY DEF OfSlice, ToprfProof, Proof
  <2>3. p \in All(text, ts)
    BY <1>5 DEF All
  <2>4. /\ p.fromIndex = o /\ p.toIndex = Least(o + ChunkSize, Len(text))
        /\ p.toprf = [pos |-> f - o, length |-> t.length, text |-> t.text]
    BY DEF ToprfProof, Proof, ToprfSlice, f
  <2>. QED BY <2>1, <2>2, <2>3, <2>4
<1>. HIDE DEF p, s, o
<1>15. p.fromIndex < f + 1 /\ f + 1 <= p.toIndex
  <2>1. f + 1 <= Len(text)
    BY <1>6, <1>9
  <2>. QED BY <1>3, <1>6, <1>13, <1>14, <2>1, Sizes DEF Least
<1>a. PICK i \in 1 .. Len(text) : i = f + 1
  BY <1>9
<1>16. i - p.fromIndex \in DOMAIN p.redacted /\ p.redacted[i - p.fromIndex] = text[i]
  BY <1>6, <1>14, <1>15, <1>a, ByteOfProof
<1>17. p \in Proofs(text, ts)
  <2>1. ~FullyRedacted(p.redacted)
    BY <1>10, <1>16, <1>a DEF FullyRedacted
  <2>. QED BY <1>14, <2>1, ProofsAreOfAll
<1>18. Provable(start, p)
  BY <1>12, <1>17
<1>19. p.toprf # NoToprf
  BY <1>3, <1>14 DEF NoToprf
<1>20. start + o + (f - o) = t.text
  BY <1>14, <1>18, <1>19 DEF Provable
<1>. QED BY <1>3, <1>4, <1>7, <1>13, <1>20

-----------------------------------------------------------------------------
(* What is shown is selected. *)

(* A byte that is left as it is is one to be shown, or a nullifier is out of place. *)
LEMMA ClearShown ==
  ASSUME NEW r, NEW R, NEW N, NEW ms, NEW w, NEW bl, NEW q, LeftClear(r, R, N, ms, w, bl, q), ~NestedIn(r, ms)
  PROVE  ShownAs(r, ms, q + 1) \/ BadToprf(bl, w)
<1>0. Asked(r, R, N, ms) /\ q \in Nat /\ R \in Nat /\ r \in Responses /\ DOMAIN ms = 1 .. Len(ms) /\ H(r) \in Nat
      /\ H(r) >= 5 /\ H(r) <= R
  <2>1. Asked(r, R, N, ms) /\ q \in 0 .. R - 1
    BY DEF LeftClear
  <2>2. R \in Nat
    BY <2>1, AskedNumbers
  <2>. QED BY <2>1, <2>2, AskedNumbers DEF Asked
<1>1. PICK i : FirstBehind(ms, q, i)
  BY <1>0, FirstBehindExists
<1>. DEFINE x == Reveals(ms)[i]
<1>2. i \in 1 .. Len(Reveals(ms)) /\ x.fromIndex <= q /\ q < x.toIndex /\ x \in RevealsOf(ms)
  BY <1>1, ClearInReveal
<1>3. CASE x.hash
  BY <1>1, <1>2, <1>3, HashedClear
<1>. HIDE DEF x
<1>4. CASE Fixed(r, x)
  <2>1. /\ x.place \in {-3, -2, -1}
        /\ x.place = -3 => x.fromIndex = 0 /\ x.toIndex = 1
        /\ x.place = -2 => x.fromIndex = H(r) - 4 /\ x.toIndex = H(r)
        /\ x.place = -1 => r.date /\ x.fromIndex = 3 /\ x.toIndex = 4
    BY <1>0, <1>4, FixedFields
  <2>2. Len(HeaderOf(r)) = H(r)
    BY <1>0, HeaderBytes
  <2>3. q + 1 \in ShownAnyway(r)
    BY <1>0, <1>2, <2>1, <2>2, SMTT(40) DEF ShownAnyway
  <2>. QED BY <2>3 DEF ShownAs
<1>5. CASE ~x.hash /\ \E j \in 1 .. Len(ms) : x = getReveal(ms[j], j)
  <2>1. PICK j \in 1 .. Len(ms) : x = getReveal(ms[j], j)
    BY <1>5
  <2>2. ~ms[j].hash /\ ms[j].hash \in BOOLEAN
    BY <1>0, <1>5, <2>1, MatchReveal
  <2>3. ms[j].hash = No
    BY <2>2, Zenon DEF No
  <2>4. r.framing = "chunked" => \E c \in 1 .. N : DataAt(r, c) <= q /\ q < DataEnd(r, c)
    BY <1>1, <1>2, <2>1, ClearInChunk DEF x
  <2>5. ByteIn(r, ms[j], q + 1)
    BY <1>0, <1>2, <2>1, <2>4, RevealedByte
  <2>. QED BY <1>0, <2>3, <2>5 DEF ShownAs
<1>6. Fixed(r, x) \/ \E j \in 1 .. Len(ms) : x = getReveal(ms[j], j)
  BY <1>0, <1>2, RevealKinds
<1>. QED BY <1>3, <1>4, <1>5, <1>6 DEF x

-----------------------------------------------------------------------------
(* What is selected is shown. *)

(* What a byte of the response has become: it is as it was if no redaction  *)
(* ends behind it, or the first that does starts behind it too, and is what *)
(* that one writes otherwise.                                               *)
LEMMA Writer ==
  ASSUME NEW r, NEW R, NEW N, NEW ms, NEW w, NEW bl, NEW q, Walked(r, R, N, ms, w, bl, q),
         NEW g, g = getResponseRedactions(ms)
  PROVE  \/ (\A x \in RedactionSet(ms) : ~(x.toIndex > q)) /\ w.plain[q + 1] = Clear
         \/ \E n : /\ FirstOver(ms, g, q, n)
                   /\ g[n].fromIndex > q => w.plain[q + 1] = Clear
                   /\ g[n].fromIndex <= q => w.plain[q + 1] = CharOf(g[n], q - OverAt(g, n)) /\ OverAt(g, n) <= q
<1>. DEFINE T == {n \in 1 .. Len(g) : g[n].toIndex > q}
<1>a. Asked(r, R, N, ms) /\ q \in 0 .. R - 1 /\ RedactedAs(w, g, Len(g), R, bl)
  BY DEF Walked
<1>0. /\ Listed(g, R) /\ Len(g) \in Nat /\ (\A k \in 1 .. Len(g) : g[k] \in RedactionSet(ms)) /\ R \in Nat
      /\ \A i, j \in 1 .. Len(g) : i < j => Before(g[i], g[j])
  BY <1>a, RedactionOrder, AskedNumbers
<1>1. \A y \in RedactionSet(ms) : \E k \in 1 .. Len(g) : g[k] = y
  BY <1>a, RedactionOrder
<1>7. PICK p \in 1 .. R : p = q + 1
  BY <1>0, <1>a
<1>w. WrittenAs(w, g, Len(g), R)
  BY <1>a DEF RedactedAs
<1>b. CASE T = {}
  <2>1. \A x \in RedactionSet(ms) : ~(x.toIndex > q)
    BY <1>1, <1>b
  <2>2. CursorAfter(g, Len(g)) \in Nat /\ CursorAfter(g, Len(g)) <= q
    <3>1. CASE Len(g) = 0
      BY <1>a, <1>0, <3>1 DEF CursorAfter
    <3>2. CASE Len(g) # 0
      <4>1. Len(g) \in 1 .. Len(g)
        BY <1>0, <3>2
      <4>2. CursorAfter(g, Len(g)) = g[Len(g)].toIndex /\ g[Len(g)].toIndex \in 0 .. R
        BY <1>0, <4>1, CursorNumbers
      <4>3. ~(g[Len(g)].toIndex > q)
        BY <1>b, <4>1
      <4>. QED BY <1>a, <1>0, <4>2, <4>3
    <3>. QED BY <3>1, <3>2
  <2>3. CursorAfter(g, Len(g)) < p
    BY <1>a, <1>0, <1>7, <2>2
  <2>4. w.plain[p] = Clear
    BY <1>w, <2>3 DEF WrittenAs
  <2>. QED BY <1>7, <2>1, <2>4
<1>c. CASE T # {}
  <2>2. T \in SUBSET Nat
    BY <1>0
  <2>3. PICK n \in T : \A y \in T : n <= y
    BY <1>c, <2>2, LeastOf
  <2>4. n \in 1 .. Len(g) /\ g[n].toIndex > q
    BY <2>3
  <2>5. /\ CursorAfter(g, n - 1) \in 0 .. R /\ g[n].toIndex \in 0 .. R /\ g[n].fromIndex \in 0 .. R
        /\ g[n] \in Redactable(R) /\ OverAt(g, n) \in 0 .. R
    BY <1>0, <2>4, CursorNumbers
  <2>6. CursorAfter(g, n - 1) <= q
    <3>1. CASE n = 1
      BY <1>a, <3>1 DEF CursorAfter
    <3>2. CASE n # 1
      <4>1. n - 1 \in 1 .. Len(g) /\ n - 1 # 0 /\ n - 1 < n
        BY <1>0, <2>4, <3>2
      <4>2. CursorAfter(g, n - 1) = g[n - 1].toIndex
        BY <4>1 DEF CursorAfter
      <4>3. n - 1 \notin T
        BY <2>3, <2>4, <4>1
      <4>4. ~(g[n - 1].toIndex > q)
        BY <4>1, <4>3
      <4>. QED BY <1>a, <1>0, <2>5, <4>2, <4>4
    <3>. QED BY <3>1, <3>2
  <2>. HIDE DEF T
  <2>7. ASSUME NEW y \in RedactionSet(ms), y.toIndex > q PROVE y = g[n] \/ Before(g[n], y)
    <3>1. PICK k \in 1 .. Len(g) : g[k] = y
      BY <1>1
    <3>2. k \in T
      BY <2>7, <3>1 DEF T
    <3>3. n = k \/ n < k
      BY <1>0, <2>3, <2>4, <3>1, <3>2
    <3>. QED BY <1>0, <2>4, <3>1, <3>3
  <2>8. FirstOver(ms, g, q, n)
    BY <1>0, <2>4, <2>6, <2>7 DEF FirstOver
  <2>9. w.plain[p] = IF OverAt(g, n) < p THEN CharOf(g[n], p - 1 - OverAt(g, n)) ELSE Clear
    <3>2. CursorAfter(g, n - 1) < p /\ p <= g[n].toIndex
      BY <1>a, <1>0, <1>7, <2>4, <2>5, <2>6
    <3>. QED BY <1>w, <2>4, <3>2 DEF WrittenAs
  <2>10. OverAt(g, n) < p <=> g[n].fromIndex <= q
    BY <1>a, <1>0, <1>7, <2>5, <2>6 DEF OverAt, OverFrom
  <2>11. p - 1 = q /\ (g[n].fromIndex > q <=> ~(g[n].fromIndex <= q)) /\ (OverAt(g, n) < p <=> OverAt(g, n) <= q)
    BY <1>a, <1>0, <1>7, <2>5
  <2>. QED BY <1>7, <2>8, <2>9, <2>10, <2>11
<1>. QED BY <1>b, <1>c

(* A reveal nested in another one is that of a nested match. *)
LEMMA RevealNested ==
  ASSUME NEW r, NEW R, NEW N, NEW ms, Asked(r, R, N, ms), NEW x \in RevealsOf(ms), NEW y \in RevealsOf(ms),
         x.fromIndex < y.fromIndex, y.toIndex <= x.toIndex
  PROVE  NestedAsked(ms)
<1>0. /\ r \in Responses /\ R \in 0 .. Len(Stream(r)) /\ N \in 0 .. M(r) /\ Good(res, r, R, N)
      /\ R \in Nat /\ H(r) \in Nat /\ H(r) >= 5 /\ H(r) <= R /\ DOMAIN ms = 1 .. Len(ms)
  BY AskedNumbers DEF Asked
<1>1. /\ x.fromIndex \in 0 .. R /\ x.toIndex \in 0 .. R /\ x.fromIndex < x.toIndex
      /\ y.fromIndex \in 0 .. R /\ y.toIndex \in 0 .. R /\ y.fromIndex < y.toIndex
  BY RevealNumbers
<1>2. CASE Fixed(r, x)
  <2>1. /\ x.place \in {-3, -2, -1}
        /\ x.place = -3 => x.fromIndex = 0 /\ x.toIndex = 1
        /\ x.place = -2 => x.fromIndex = H(r) - 4 /\ x.toIndex = H(r)
        /\ x.place = -1 => r.date /\ x.fromIndex = 3 /\ x.toIndex = 4
    BY <1>0, <1>2, FixedFields
  <2>2. CASE Fixed(r, y)
    <3>1. /\ y.place \in {-3, -2, -1}
          /\ y.place = -3 => y.fromIndex = 0 /\ y.toIndex = 1
          /\ y.place = -2 => y.fromIndex = H(r) - 4 /\ y.toIndex = H(r)
          /\ y.place = -1 => r.date /\ y.fromIndex = 3 /\ y.toIndex = 4
      BY <1>0, <2>2, FixedFields
    <3>2. r.date => H(r) >= 8
      <4>1. r.date => r.framing = "length"
        BY <1>0, ResponseFacts
      <4>. QED BY <4>1 DEF H, NL
    <3>3. PICK h, xf, xt, yf, yt \in Int : h = H(r) /\ xf = x.fromIndex /\ xt = x.toIndex /\ yf = y.fromIndex /\ yt = y.toIndex
      <4>1. H(r) \in Int /\ x.fromIndex \in Int /\ x.toIndex \in Int /\ y.fromIndex \in Int /\ y.toIndex \in Int
        BY <1>0, <1>1
      <4>. QED BY <4>1, Zenon
    <3>4. (xf = 0 /\ xt = 1) \/ (xf = h - 4 /\ xt = h) \/ (xf = 3 /\ xt = 4 /\ h >= 8)
      BY <2>1, <3>2, <3>3
    <3>5. (yf = 0 /\ yt = 1) \/ (yf = h - 4 /\ yt = h) \/ (yf = 3 /\ yt = 4 /\ h >= 8)
      BY <3>1, <3>2, <3>3
    <3>6. h >= 5 /\ xf < yf /\ yt <= xt
      BY <1>0, <3>3
    <3>. QED BY <3>4, <3>5, <3>6
  <2>3. CASE \E j \in 1 .. Len(ms) : y = getReveal(ms[j], j)
    <3>1. H(r) <= y.fromIndex
      BY <2>3, MatchReveal
    <3>2. x.toIndex <= H(r)
      BY <1>0, <1>2, FixedFields
    <3>. QED BY <1>0, <1>1, <3>1, <3>2
  <2>. QED BY <2>2, <2>3, RevealKinds
<1>3. CASE \E i \in 1 .. Len(ms) : x = getReveal(ms[i], i)
  <2>1. PICK i \in 1 .. Len(ms) : x = getReveal(ms[i], i)
    BY <1>3
  <2>2. H(r) <= x.fromIndex
    BY <2>1, MatchReveal
  <2>3. ~Fixed(r, y)
    <3>1. Fixed(r, y) => y.toIndex <= H(r)
      BY <1>0, FixedFields
    <3>. QED BY <1>0, <1>1, <2>2, <3>1
  <2>4. PICK j \in 1 .. Len(ms) : y = getReveal(ms[j], j)
    BY <2>3, RevealKinds
  <2>. DEFINE B == BLen(r, R, N)
              C(pos) == convertResponsePosToAbsolutePos(pos)
  <2>5. /\ ms[i].fromIndex \in 0 .. B /\ ms[i].toIndex \in 0 .. B /\ x.fromIndex = C(ms[i].fromIndex)
        /\ x.toIndex = C(ms[i].toIndex)
    BY <2>1, MatchReveal
  <2>a. /\ ms[j].fromIndex \in 0 .. B /\ ms[j].toIndex \in 0 .. B /\ y.fromIndex = C(ms[j].fromIndex)
        /\ y.toIndex = C(ms[j].toIndex)
    BY <2>4, MatchReveal
  <2>b. B \in Nat
    BY AskedNumbers
  <2>6. \A a, b \in 0 .. B : a < b => C(a) < C(b)
    BY <1>0, ConvertMonotone
  <2>. HIDE DEF B, C
  <2>c. PICK xf, xt, yf, yt \in 0 .. B : xf = ms[i].fromIndex /\ xt = ms[i].toIndex /\ yf = ms[j].fromIndex /\ yt = ms[j].toIndex
    BY <2>5, <2>a
  <2>d. C(xf) < C(yf) /\ C(yt) <= C(xt) /\ C(xf) \in Nat /\ C(yf) \in Nat /\ C(yt) \in Nat /\ C(xt) \in Nat
    BY <1>0, <1>1, <2>5, <2>a, <2>c
  <2>7. xf < yf
    <3>1. xf # yf
      BY <2>d
    <3>2. ~(yf < xf)
      BY <2>6, <2>d
    <3>. QED BY <2>b, <3>1, <3>2
  <2>8. yt <= xt
    <3>1. ~(xt < yt)
      BY <2>6, <2>d
    <3>. QED BY <2>b, <3>1
  <2>9. i # j
    BY <1>1, <2>1, <2>4
  <2>. QED BY <1>0, <2>7, <2>8, <2>9, <2>c DEF NestedAsked
<1>. QED BY <1>2, <1>3, RevealKinds

(* Without nested matches a gap does not overlap a reveal. *)
LEMMA GapsOutside ==
  ASSUME NEW r, NEW R, NEW N, NEW ms, Asked(r, R, N, ms), ~NestedAsked(ms), NEW x \in RevealsOf(ms),
         NEW z \in Gaps(Reveals(ms))
  PROVE  z.toIndex <= x.fromIndex \/ z.fromIndex >= x.toIndex
<1>. DEFINE s == Reveals(ms)
<1>0. /\ R \in Nat /\ Received = R /\ ByEnd(s, R) /\ Len(s) \in Nat
  BY AskedNumbers DEF Asked
<1>1. PICK k \in 1 .. Len(s) : s[k] = x
  BY RevealsSorted
<1>2. \A i \in 1 .. Len(s) : s[i] \in RevealsOf(ms)
  BY RevealsSorted
<1>. HIDE DEF s
<1>3. PICK i \in 1 .. Len(s) + 1 : /\ z \in Redactable(R) /\ z.fromIndex = GapStart(s, i) /\ z.toIndex = GapEnd(s, i)
  BY <1>0, GapFields DEF s
<1>4. /\ z.fromIndex \in 0 .. R /\ z.toIndex \in 0 .. R /\ x.fromIndex \in 0 .. R /\ x.toIndex \in 0 .. R
  BY <1>0, <1>3, RedactableFields, RevealNumbers
<1>5. CASE k < i
  <2>1. i > 1 /\ i - 1 \in 1 .. Len(s) /\ (k = i - 1 \/ k < i - 1)
    BY <1>0, <1>1, <1>3, <1>5
  <2>2. GapStart(s, i) = s[i - 1].toIndex
    BY <1>0, <1>3, <2>1, GapPlaces
  <2>3. s[k].toIndex <= s[i - 1].toIndex
    BY <1>0, <1>1, <1>3, <1>4, <2>1, <2>2 DEF ByEnd
  <2>. QED BY <1>1, <1>3, <1>4, <2>2, <2>3
<1>6. CASE k = i
  <2>1. GapEnd(s, i) = s[i].fromIndex
    BY <1>0, <1>1, <1>3, <1>6, GapPlaces
  <2>. QED BY <1>1, <1>3, <1>4, <1>6, <2>1
<1>7. CASE k > i
  <2>1. i \in 1 .. Len(s)
    BY <1>0, <1>1, <1>3, <1>7
  <2>2. GapEnd(s, i) = s[i].fromIndex
    BY <1>0, <1>3, <2>1, GapPlaces
  <2>3. s[i].toIndex <= x.toIndex /\ s[i] \in RevealsOf(ms)
    BY <1>0, <1>1, <1>2, <1>7, <2>1 DEF ByEnd
  <2>4. ~(x.fromIndex < s[i].fromIndex)
    BY <2>3, RevealNested
  <2>. QED BY <1>3, <1>4, <2>2, <2>4
<1>. QED BY <1>0, <1>1, <1>3, <1>5, <1>6, <1>7

(* A byte of the body ends where the position behind it is converted to. *)
LEMMA ByteEnds ==
  ASSUME NEW r, NEW R, NEW N, NEW ms, Asked(r, R, N, ms), NEW pos \in Nat, pos < BLen(r, R, N)
  PROVE  /\ ByteOf(r, pos) = convertResponsePosToAbsolutePos(pos + 1)
         /\ ByteOf(r, pos) \in H(r) .. R /\ pos + 1 \in 0 .. BLen(r, R, N)
         /\ r.framing = "chunked" =>
              \E c \in 1 .. N : /\ InPart(r, N, pos + 1, c) /\ BodyBefore(r, c) <= pos /\ pos < BodyUpTo(r, c)
                                /\ ByteOf(r, pos) = DataAt(r, c) + (pos - BodyBefore(r, c)) + 1
                                /\ DataAt(r, c) < ByteOf(r, pos) /\ ByteOf(r, pos) <= DataEnd(r, c)
<1>. DEFINE C(a) == convertResponsePosToAbsolutePos(a)
<1>0. /\ r \in Responses /\ R \in 0 .. Len(Stream(r)) /\ N \in 0 .. M(r) /\ Good(res, r, R, N)
      /\ BLen(r, R, N) \in Nat /\ N \in Nat /\ M(r) \in Nat /\ R \in Nat /\ H(r) \in Nat
  BY AskedNumbers DEF Asked
<1>1. pos + 1 \in 0 .. BLen(r, R, N) /\ pos + 1 \in Nat
  BY <1>0
<1>2. C(pos + 1) \in H(r) .. R
  BY <1>0, <1>1, Convert
<1>3. CASE r.framing # "chunked"
  <2>1. C(pos + 1) = H(r) + (pos + 1)
    BY <1>0, <1>1, <1>3, Convert
  <2>2. Len(HeaderOf(r)) = H(r)
    BY <1>0, HeaderBytes
  <2>3. ByteOf(r, pos) = H(r) + pos + 1
    BY <1>0, <1>3, <2>2 DEF ByteOf, BodyStart
  <2>4. H(r) + (pos + 1) = H(r) + pos + 1
    BY <1>0
  <2>. QED BY <1>1, <1>2, <1>3, <2>1, <2>3, <2>4
<1>4. CASE r.framing = "chunked"
  <2>1. PICK c \in 1 .. N : InPart(r, N, pos + 1, c) /\ C(pos + 1) = AbsIn(r, pos + 1, c)
    BY <1>0, <1>1, <1>4, Convert
  <2>2. c \in 1 .. M(r) /\ N \in 1 .. M(r)
    BY <1>0, <1>4, <2>1, AskedNumbers, SMTT(40)
  <2>3. /\ BodyBefore(r, c) \in Nat /\ BodyUpTo(r, c) \in Nat /\ DataAt(r, c) \in Nat /\ DataEnd(r, c) \in Nat
        /\ DataEnd(r, c) - DataAt(r, c) = BodyUpTo(r, c) - BodyBefore(r, c)
    BY <1>4, <2>2, Chunks
  <2>4. PICK a, e, b, u \in Nat : a = DataAt(r, c) /\ e = DataEnd(r, c) /\ b = BodyBefore(r, c) /\ u = BodyUpTo(r, c)
    BY <2>3
  <2>5. e - a = u - b /\ pos + 1 <= u
    BY <2>1, <2>3, <2>4 DEF InPart
  <2>6. b <= pos
    <3>1. c = 1 => b = 0
      BY <2>4 DEF BodyBefore
    <3>2. c # 1 => b < pos + 1
      BY <2>1, <2>4 DEF InPart
    <3>. QED BY <3>1, <3>2
  <2>7. ByteOf(r, pos) = a + (pos - b) + 1
    <3>1. pos < u
      BY <2>5
    <3>. QED BY <1>4, <2>2, <2>4, <2>6, <3>1, ByteOfChunk
  <2>8. C(pos + 1) = a + ((pos + 1) - b)
    BY <2>1, <2>4 DEF AbsIn
  <2>9. a + (pos - b) + 1 = a + ((pos + 1) - b) /\ a < a + (pos - b) + 1 /\ a + (pos - b) + 1 <= e /\ pos < u
    BY <2>5, <2>6
  <2>. QED BY <1>1, <1>2, <2>1, <2>4, <2>6, <2>7, <2>8, <2>9
<1>. QED BY <1>3, <1>4

(* The bytes of a match are in its reveal. *)
LEMMA ByteRevealed ==
  ASSUME NEW r, NEW R, NEW N, NEW ms, Asked(r, R, N, ms), NEW j \in 1 .. Len(ms), NEW q \in Nat,
         ByteIn(r, ms[j], q + 1)
  PROVE  /\ getReveal(ms[j], j).fromIndex <= q /\ q < getReveal(ms[j], j).toIndex /\ q \in 0 .. R - 1
         /\ InData(r, N, q)
<1>. DEFINE f == ms[j].fromIndex
            t == ms[j].toIndex
            B == BLen(r, R, N)
            C(a) == convertResponsePosToAbsolutePos(a)
<1>0. /\ r \in Responses /\ R \in 0 .. Len(Stream(r)) /\ N \in 0 .. M(r) /\ Good(res, r, R, N)
      /\ B \in Nat /\ R \in Nat /\ H(r) \in Nat
  BY AskedNumbers DEF Asked
<1>1. /\ f \in 0 .. B /\ t \in 0 .. B /\ f < t
      /\ getReveal(ms[j], j).fromIndex = C(f) /\ getReveal(ms[j], j).toIndex = C(t)
  BY MatchReveal
<1>2. PICK i \in f .. t - 1 : q + 1 = ByteOf(r, i)
  BY DEF ByteIn
<1>3. C(f) \in Nat /\ C(t) \in Nat
  <2>1. C(f) \in H(r) .. R /\ C(t) \in H(r) .. R
    BY <1>0, <1>1, Convert
  <2>. QED BY <1>0, <2>1
<1>4. \A a, b \in 0 .. B : a < b => C(a) < C(b)
  BY <1>0, ConvertMonotone
<1>. HIDE DEF f, t
<1>5. i \in Nat /\ i < B /\ f < i + 1 /\ i + 1 <= t
  BY <1>0, <1>1, <1>2
<1>6. /\ q + 1 = C(i + 1) /\ q + 1 \in H(r) .. R /\ i + 1 \in 0 .. B
      /\ r.framing = "chunked" => \E c \in 1 .. N : DataAt(r, c) < q + 1 /\ q + 1 <= DataEnd(r, c)
  BY <1>2, <1>5, ByteEnds
<1>. HIDE DEF B, C
<1>7. C(f) < q + 1
  BY <1>1, <1>4, <1>5, <1>6
<1>8. q + 1 <= C(t)
  <2>1. i + 1 < t => C(i + 1) < C(t)
    BY <1>1, <1>4, <1>6
  <2>2. i + 1 < t \/ i + 1 = t
    BY <1>0, <1>1, <1>5
  <2>. QED BY <1>3, <1>6, <2>1, <2>2
<1>9. InData(r, N, q)
  <2>1. SUFFICES ASSUME r.framing = "chunked" PROVE \E c \in 1 .. N : DataAt(r, c) <= q /\ q < DataEnd(r, c)
    BY DEF InData
  <2>2. PICK c \in 1 .. N : DataAt(r, c) < q + 1 /\ q + 1 <= DataEnd(r, c)
    BY <1>6, <2>1
  <2>3. c \in 1 .. M(r)
    BY <1>0, <2>1, <2>2, AskedNumbers, SMTT(40)
  <2>4. DataAt(r, c) \in Nat /\ DataEnd(r, c) \in Nat
    BY <2>1, <2>3, Chunks
  <2>5. DataAt(r, c) <= q /\ q < DataEnd(r, c)
    BY <2>2, <2>4
  <2>. QED BY <2>5
<1>. QED BY <1>0, <1>1, <1>3, <1>6, <1>7, <1>8, <1>9

(* A size line has no byte of the data of a chunk. *)
LEMMA SizeLineData ==
  ASSUME NEW r, NEW R, NEW N, NEW ms, Asked(r, R, N, ms), NEW z, NEW j, NEW c, SizeLineIn(r, N, ms, z, j, c),
         NEW q \in Nat, InData(r, N, q)
  PROVE  q < z.fromIndex \/ z.toIndex <= q
<1>0. r.framing = "chunked" /\ c \in 2 .. N /\ N \in 1 .. M(r) /\ M(r) \in Nat /\ N \in Nat
  BY AskedNumbers DEF SizeLineIn
<1>1. PICK d \in 1 .. N : DataAt(r, d) <= q /\ q < DataEnd(r, d)
  BY <1>0 DEF InData
<1>2. c \in 1 .. M(r) /\ d \in 1 .. M(r)
  BY <1>0, <1>1
<1>3. /\ DataAt(r, c) \in Nat /\ DataEnd(r, c) \in Nat /\ DataAt(r, d) \in Nat /\ DataEnd(r, d) \in Nat
      /\ DataAt(r, c) < DataEnd(r, c)
      /\ d < c => DataEnd(r, d) + 5 <= DataAt(r, c)
      /\ c < d => DataEnd(r, c) + 5 <= DataAt(r, d)
  BY <1>0, <1>2, Chunks
<1>4. z.toIndex = DataAt(r, c) /\ z.fromIndex \in Nat /\ z.fromIndex + 5 = z.toIndex
  BY SizeLineFields
<1>5. d < c \/ d = c \/ c < d
  BY <1>0, <1>1
<1>. QED BY <1>1, <1>3, <1>4, <1>5

(* No reveal ends where a size line does. *)
LEMMA SizeLineEnd ==
  ASSUME NEW r, NEW R, NEW N, NEW ms, Asked(r, R, N, ms), NEW z, NEW j, NEW c, SizeLineIn(r, N, ms, z, j, c),
         NEW x \in RevealsOf(ms)
  PROVE  x.toIndex # z.toIndex
<1>0. r.framing = "chunked" /\ c \in 2 .. N /\ N \in 1 .. M(r) /\ M(r) \in Nat /\ N \in Nat /\ H(r) \in Nat
  BY AskedNumbers DEF SizeLineIn
<1>1. z.toIndex = DataAt(r, c) /\ z.fromIndex \in Nat /\ z.fromIndex + 5 = z.toIndex /\ H(r) <= z.fromIndex
  BY SizeLineFields
<1>2. x.toIndex <= H(r) \/ \E d \in 1 .. N : DataAt(r, d) < x.toIndex /\ x.toIndex <= DataEnd(r, d)
  BY <1>0, RevealEnds
<1>3. CASE x.toIndex <= H(r)
  BY <1>0, <1>1, <1>3
<1>4. ASSUME NEW d \in 1 .. N, DataAt(r, d) < x.toIndex, x.toIndex <= DataEnd(r, d), x.toIndex = z.toIndex PROVE FALSE
  <2>1. c \in 1 .. M(r) /\ d \in 1 .. M(r)
    BY <1>0
  <2>2. /\ DataAt(r, c) \in Nat /\ DataEnd(r, c) \in Nat /\ DataAt(r, d) \in Nat /\ DataEnd(r, d) \in Nat
        /\ DataAt(r, c) < DataEnd(r, c)
        /\ d < c => DataEnd(r, d) + 5 <= DataAt(r, c)
        /\ c < d => DataEnd(r, c) + 5 <= DataAt(r, d)
    BY <1>0, <2>1, Chunks
  <2>3. d < c \/ d = c \/ c < d
    BY <1>0
  <2>. QED BY <1>1, <1>4, <2>2, <2>3
<1>. QED BY <1>2, <1>3, <1>4

(* The kinds of redactions. *)
LEMMA RedactionKinds ==
  ASSUME NEW r, NEW R, NEW N, NEW ms, Asked(r, R, N, ms), NEW z \in RedactionSet(ms)
  PROVE  \/ ~z.hash /\ \E j, c : SizeLineIn(r, N, ms, z, j, c)
         \/ ~z.hash /\ z \in Gaps(Reveals(ms))
         \/ z.hash /\ z \in RevealsOf(ms) /\ \E j \in 1 .. Len(ms) : z = getReveal(ms[j], j) /\ ms[j].hash
<1>0. r \in Responses /\ R \in 0 .. Len(Stream(r)) /\ Received = R /\ N \in 0 .. M(r) /\ Good(res, r, R, N)
      /\ ms \in Seq(Items(BLen(r, R, N)))
  BY DEF Asked
<1>1. \/ z \in HeadersOf(ms) /\ ~z.hash
      \/ z \in Gaps(Reveals(ms)) /\ ~z.hash
      \/ z \in RevealsOf(ms) /\ z.hash
  BY <1>0, RedactionFields DEF Reveals
<1>2. z \in HeadersOf(ms) => \E j, c : SizeLineIn(r, N, ms, z, j, c)
  BY SizeLines
<1>3. ASSUME z \in RevealsOf(ms), z.hash PROVE \E j \in 1 .. Len(ms) : z = getReveal(ms[j], j) /\ ms[j].hash
  <2>1. PICK j \in 1 .. Len(ms) : z = getReveal(ms[j], j)
    BY <1>3, RevealKinds
  <2>2. ms[j].hash
    BY <1>3, <2>1, MatchReveal
  <2>. QED BY <2>1, <2>2
<1>. QED BY <1>1, <1>2, <1>3

(* What is selected to be shown, and not to be hashed, is left as it is. *)
LEMMA ShownStays ==
  ASSUME NEW r, NEW R, NEW N, NEW ms, NEW w, NEW bl, NEW q, Walked(r, R, N, ms, w, bl, q), ~NestedAsked(ms),
         NEW x \in RevealsOf(ms), x.fromIndex <= q, q < x.toIndex, ~HashedAs(r, ms, q + 1),
         q < H(r) \/ InData(r, N, q)
  PROVE  w.plain[q + 1] = Clear
<1>. DEFINE g == getResponseRedactions(ms)
<1>0. /\ Asked(r, R, N, ms) /\ R \in Nat /\ H(r) \in Nat /\ q \in Nat /\ DOMAIN ms = 1 .. Len(ms)
  <2>1. Asked(r, R, N, ms) /\ q \in 0 .. R - 1
    BY DEF Walked
  <2>. QED BY <2>1, AskedNumbers DEF Asked
<1>1. SUFFICES ASSUME NEW n, FirstOver(ms, g, q, n), g[n].fromIndex <= q PROVE FALSE
  <2>. HIDE DEF g
  <2>1. \/ w.plain[q + 1] = Clear
        \/ \E n : FirstOver(ms, g, q, n) /\ (g[n].fromIndex > q => w.plain[q + 1] = Clear)
    BY Writer DEF g
  <2>2. ASSUME NEW n, FirstOver(ms, g, q, n) PROVE g[n].fromIndex > q \/ g[n].fromIndex <= q
    <3>1. g[n] \in RedactionSet(ms)
      BY <2>2 DEF FirstOver
    <3>2. g[n].fromIndex \in Nat
      BY <1>0, <3>1, RedactionNumbers
    <3>. QED BY <1>0, <3>2
  <2>. QED BY <2>1, <2>2
<1>. DEFINE z == g[n]
<1>2. z \in RedactionSet(ms) /\ z.toIndex > q /\ z.fromIndex <= q
  BY <1>1 DEF FirstOver
<1>. HIDE DEF z, g
<1>3. z.fromIndex \in Nat /\ z.toIndex \in Nat
  BY <1>0, <1>2, RedactionNumbers
<1>4. x.fromIndex \in Nat /\ x.toIndex \in Nat
  <2>1. x.fromIndex \in 0 .. R /\ x.toIndex \in 0 .. R
    BY <1>0, RevealNumbers
  <2>. QED BY <1>0, <2>1
<1>5. ASSUME NEW j, NEW c, SizeLineIn(r, N, ms, z, j, c) PROVE FALSE
  <2>1. H(r) <= z.fromIndex
    BY <1>0, <1>5, SizeLineFields
  <2>2. InData(r, N, q)
    BY <1>0, <1>2, <1>3, <2>1
  <2>3. q < z.fromIndex \/ z.toIndex <= q
    BY <1>0, <1>5, <2>2, SizeLineData
  <2>. QED BY <1>0, <1>2, <1>3, <2>3
<1>6. ASSUME z \in Gaps(Reveals(ms)) PROVE FALSE
  <2>1. z.toIndex <= x.fromIndex \/ z.fromIndex >= x.toIndex
    BY <1>0, <1>6, GapsOutside
  <2>. QED BY <1>0, <1>2, <1>3, <1>4, <2>1
<1>7. ASSUME NEW j \in 1 .. Len(ms), z = getReveal(ms[j], j), ms[j].hash PROVE FALSE
  <2>1. H(r) <= z.fromIndex
    BY <1>0, <1>7, MatchReveal
  <2>2. InData(r, N, q)
    BY <1>0, <1>2, <1>3, <2>1
  <2>3. ByteIn(r, ms[j], q + 1)
    BY <1>0, <1>2, <1>7, <2>2, RevealedByte DEF InData
  <2>. QED BY <1>0, <1>7, <2>3 DEF HashedAs
<1>. QED BY <1>0, <1>2, <1>5, <1>6, <1>7, RedactionKinds

(* A hashed slice whose start another redaction has passed is noted where   *)
(* other bytes than the hashed ones are.                                    *)
LEMMA LateToprf ==
  ASSUME NEW R \in Nat, NEW g, Listed(g, R), NEW w, NEW bl, RedactedAs(w, g, Len(g), R, bl), NEW n \in 1 .. Len(g),
         g[n].hash, g[n].fromIndex < CursorAfter(g, n - 1), CursorAfter(g, n - 1) < g[n].toIndex
  PROVE  BadToprf(bl, w)
<1>. DEFINE x == g[n]
<1>0. /\ CursorAfter(g, n - 1) \in 0 .. R /\ x \in Redactable(R) /\ x.toIndex \in 0 .. R /\ x.fromIndex \in 0 .. R
  BY CursorNumbers
<1>1. PICK c \in Nat : c = CursorAfter(g, n - 1)
  BY <1>0
<1>2. x.fromIndex < c /\ c < x.toIndex /\ x.hash
  BY <1>1
<1>3. OverAt(g, n) = c
  <2>1. ~(c < x.fromIndex)
    BY <1>0, <1>2
  <2>. QED BY <1>1, <2>1 DEF OverAt, OverFrom
<1>4. PICK p \in 1 .. R : p = c + 1
  BY <1>0, <1>2
<1>5. w.plain[p] # Star
  <2>1. w.plain[p] = IF OverAt(g, n) < p THEN CharOf(g[n], p - 1 - OverAt(g, n)) ELSE Clear
    <3>1. WrittenAs(w, g, Len(g), R)
      BY DEF RedactedAs
    <3>2. CursorAfter(g, n - 1) < p /\ p <= g[n].toIndex
      BY <1>0, <1>1, <1>2, <1>4
    <3>. QED BY <3>1, <3>2 DEF WrittenAs
  <2>2. OverAt(g, n) < p /\ p - 1 - OverAt(g, n) \in Int
    BY <1>3, <1>4
  <2>. QED BY <1>0, <2>1, <2>2, WrittenNotClear
<1>6. PICK k \in DOMAIN w.toprfs : NotedAt(w.toprfs[k], c, R, bl, x)
  BY <1>3 DEF RedactedAs, NotedAs
<1>. DEFINE t == w.toprfs[k]
<1>7. t.text = x.fromIndex /\ CursorAt(bl, c, t.block, t.fromIndex)
  <2>1. c < R
    BY <1>0, <1>2
  <2>. QED BY <1>6, <2>1 DEF NotedAt
<1>8. /\ t.block \in 1 .. Len(bl) /\ t.fromIndex < LenOf(bl, t.block) /\ StartOf(bl, t.block) + t.fromIndex = c
  BY <1>7 DEF CursorAt
<1>9. c # t.text
  BY <1>0, <1>2, <1>7
<1>. QED BY <1>4, <1>5, <1>8, <1>9 DEF BadToprf

(* What is selected to be hashed becomes a nullifier, or a nullifier is out of place. *)
LEMMA HashedNullified ==
  ASSUME NEW r, NEW R, NEW N, NEW ms, NEW w, NEW bl, NEW q, Walked(r, R, N, ms, w, bl, q), ~NestedAsked(ms),
         NEW j \in 1 .. Len(ms), ms[j].hash, ByteIn(r, ms[j], q + 1)
  PROVE  w.plain[q + 1] \notin {Clear, Star} \/ BadToprf(bl, w)
<1>. DEFINE g == getResponseRedactions(ms)
            x == getReveal(ms[j], j)
            T == {n \in 1 .. Len(g) : g[n].hash /\ g[n].toIndex > q}
<1>0. /\ Asked(r, R, N, ms) /\ R \in Nat /\ H(r) \in Nat /\ q \in Nat /\ q \in 0 .. R - 1
      /\ RedactedAs(w, g, Len(g), R, bl) /\ NoneAtEnd(ms, R)
  <2>1. Asked(r, R, N, ms) /\ q \in 0 .. R - 1 /\ RedactedAs(w, g, Len(g), R, bl) /\ NoneAtEnd(ms, R)
    BY DEF Walked
  <2>. QED BY <2>1, AskedNumbers
<1>1. /\ Listed(g, R) /\ Len(g) \in Nat
      /\ \A k \in 1 .. Len(g) : g[k] \in RedactionSet(ms)
      /\ \A y \in RedactionSet(ms) : \E k \in 1 .. Len(g) : g[k] = y
  BY <1>0, RedactionOrder
<1>. HIDE DEF g
<1>2. /\ x.fromIndex <= q /\ q < x.toIndex /\ InData(r, N, q)
  BY <1>0, ByteRevealed
<1>3. /\ x \in RevealsOf(ms) /\ x.hash /\ x \in RedactionSet(ms)
  <2>1. x \in RevealsOf(ms) /\ x.hash
    BY <1>0, MatchReveal
  <2>. QED BY <2>1 DEF RedactionSet
<1>. HIDE DEF x
<1>4. x.fromIndex \in Nat /\ x.toIndex \in Nat
  BY <1>0, <1>3, RedactionNumbers
<1>5. PICK m \in 1 .. Len(g) : g[m] = x
  BY <1>1, <1>3
<1>6. T \in SUBSET Nat /\ m \in T
  BY <1>0, <1>1, <1>2, <1>3, <1>4, <1>5
<1>7. PICK n \in T : \A l \in T : n <= l
  <2>1. T # {}
    BY <1>6
  <2>. QED BY <1>6, <2>1, LeastOf
<1>. DEFINE y == g[n]
<1>8. n \in 1 .. Len(g) /\ y.hash /\ y.toIndex > q /\ n <= m
  BY <1>6, <1>7
<1>9. y \in RedactionSet(ms) /\ y \in RevealsOf(ms) /\ y.fromIndex \in Nat /\ y.toIndex \in Nat /\ y \in Redactable(R)
      /\ y.fromIndex < y.toIndex /\ y.toIndex < R
  <2>1. y \in RedactionSet(ms)
    BY <1>1, <1>8
  <2>2. y \in RevealsOf(ms)
    BY <1>0, <1>8, <2>1, RedactionKinds
  <2>3. y.toIndex < R
    BY <1>0, <1>8, <2>2 DEF NoneAtEnd
  <2>. QED BY <1>0, <1>8, <2>1, <2>2, <2>3, RedactionNumbers
<1>10. y.fromIndex <= q
  <2>1. y.toIndex <= x.toIndex
    <3>1. n = m \/ n < m
      BY <1>1, <1>5, <1>8
    <3>. QED BY <1>1, <1>4, <1>5, <1>8, <3>1 DEF Listed
  <2>2. ~(x.fromIndex < y.fromIndex)
    BY <1>0, <1>3, <1>9, <2>1, RevealNested
  <2>. QED BY <1>0, <1>2, <1>4, <1>9, <2>2
<1>11. PICK c \in Nat : c = CursorAfter(g, n - 1) /\ c <= y.toIndex
  <2>1. CursorAfter(g, n - 1) \in 0 .. R /\ CursorAfter(g, n - 1) <= y.toIndex
    BY <1>0, <1>1, <1>8, CursorNumbers
  <2>. QED BY <1>0, <2>1
<1>12. CASE c <= q
  <2>1. PICK p \in 1 .. R : p = q + 1
    BY <1>0
  <2>2. w.plain[p] = IF OverAt(g, n) < p THEN CharOf(y, p - 1 - OverAt(g, n)) ELSE Clear
    <3>1. WrittenAs(w, g, Len(g), R)
      BY <1>0 DEF RedactedAs
    <3>2. CursorAfter(g, n - 1) < p /\ p <= y.toIndex
      BY <1>0, <1>8, <1>9, <1>11, <1>12, <2>1, SMTT(40)
    <3>. QED BY <1>8, <3>1, <3>2 DEF WrittenAs
  <2>3. OverAt(g, n) \in Nat /\ OverAt(g, n) < p
    <3>1. OverAt(g, n) = c \/ OverAt(g, n) = y.fromIndex
      BY <1>11 DEF OverAt, OverFrom
    <3>. QED BY <1>0, <1>9, <1>10, <1>11, <1>12, <2>1, <3>1
  <2>4. p - 1 - OverAt(g, n) \in Int
    BY <2>1, <2>3
  <2>5. CharOf(y, p - 1 - OverAt(g, n)) \notin {Clear, Star}
    BY <1>0, <1>8, <1>9, <2>4, WrittenNotClear
  <2>. QED BY <2>1, <2>2, <2>3, <2>5
<1>13. CASE c > q
  <2>1. n - 1 \in 1 .. Len(g) /\ n - 1 # 0 /\ ~(n <= n - 1)
    <3>1. n # 1
      BY <1>0, <1>11, <1>13 DEF CursorAfter
    <3>. QED BY <1>1, <1>8, <3>1
  <2>. DEFINE v == g[n - 1]
  <2>2. c = v.toIndex
    BY <1>11, <2>1 DEF CursorAfter
  <2>3. ~v.hash
    <3>1. n - 1 \notin T
      BY <1>7, <2>1
    <3>. QED BY <1>13, <2>1, <2>2, <3>1
  <2>4. v \in RedactionSet(ms)
    BY <1>1, <2>1
  <2>. HIDE DEF v
  <2>5. v.fromIndex \in Nat /\ (v.fromIndex < v.toIndex \/ v.toIndex = R)
    BY <1>0, <2>4, RedactionNumbers
  <2>6. v \notin Gaps(Reveals(ms))
    <3>1. v \in Gaps(Reveals(ms)) => v.toIndex <= y.fromIndex \/ v.fromIndex >= y.toIndex
      BY <1>0, <1>9, GapsOutside
    <3>. QED BY <1>0, <1>9, <1>10, <1>11, <1>13, <2>2, <2>5, <3>1, SMTT(40)
  <2>7. c # y.toIndex
    <3>1. PICK i, d : SizeLineIn(r, N, ms, v, i, d)
      BY <1>0, <2>3, <2>4, <2>6, RedactionKinds
    <3>. QED BY <1>0, <1>9, <2>2, <3>1, SizeLineEnd
  <2>8. y.fromIndex < c /\ c < y.toIndex
    BY <1>0, <1>9, <1>10, <1>11, <1>13, <2>7, SMTT(40)
  <2>. QED BY <1>0, <1>1, <1>8, <1>11, <2>8, LateToprf
<1>. QED BY <1>0, <1>11, <1>12, <1>13

(* The size line of a chunk inside a reveal is inside the match. *)
LEMMA SplitMatch ==
  ASSUME NEW r, NEW R, NEW N, NEW ms, Asked(r, R, N, ms), r.framing = "chunked", NEW c \in 2 .. N,
         NEW j \in 1 .. Len(ms),
         getReveal(ms[j], j).fromIndex < DataAt(r, c), DataAt(r, c) < getReveal(ms[j], j).toIndex
  PROVE  c \in 2 .. Len(r.ends) /\ ms[j].fromIndex <= BodyBefore(r, c) /\ BodyBefore(r, c) < ms[j].toIndex
<1>. DEFINE f == ms[j].fromIndex
            t == ms[j].toIndex
            B == BLen(r, R, N)
            C(a) == convertResponsePosToAbsolutePos(a)
<1>0. B \in Nat /\ N \in 1 .. M(r) /\ M(r) \in Nat /\ N \in Nat
  BY AskedNumbers
<1>1. /\ f \in 0 .. B /\ t \in 0 .. B /\ C(f) < DataAt(r, c) /\ DataAt(r, c) < C(t)
  BY MatchReveal
<1>2. /\ t <= BodyBefore(r, c) => C(t) <= DataEnd(r, c - 1)
      /\ BodyBefore(r, c) \in Nat
      /\ DataEnd(r, c - 1) \in Nat /\ DataAt(r, c) \in Nat /\ DataEnd(r, c - 1) < DataAt(r, c)
  BY <1>1, PosAtChunk
<1>3. f > BodyBefore(r, c) => C(f) > DataAt(r, c)
  BY <1>1, PosAtChunk
<1>4. C(f) \in Nat /\ C(t) \in Nat
  <2>1. /\ r \in Responses /\ R \in 0 .. Len(Stream(r)) /\ N \in 0 .. M(r) /\ Good(res, r, R, N)
        /\ R \in Nat /\ H(r) \in Nat
    BY AskedNumbers DEF Asked
  <2>2. C(f) \in H(r) .. R /\ C(t) \in H(r) .. R
    BY <1>1, <2>1, Convert
  <2>. QED BY <2>1, <2>2
<1>. HIDE DEF f, t, B, C
<1>5. c \in 2 .. Len(r.ends)
  BY <1>0 DEF M
<1>6. f <= BodyBefore(r, c) /\ BodyBefore(r, c) < t
  BY <1>0, <1>1, <1>2, <1>3, <1>4
<1>. QED BY <1>5, <1>6 DEF f, t

(* A match without the start of a chunk in it is as long as its reveal. *)
LEMMA MatchInChunk ==
  ASSUME NEW r, NEW R, NEW N, NEW ms, Asked(r, R, N, ms), NEW j \in 1 .. Len(ms),
         NEW x, x = getReveal(ms[j], j),
         \A c \in 2 .. Len(r.ends) : ~(ms[j].fromIndex <= BodyBefore(r, c) /\ BodyBefore(r, c) < ms[j].toIndex)
  PROVE  /\ x.toIndex - x.fromIndex = ms[j].toIndex - ms[j].fromIndex
         /\ ByteOf(r, ms[j].fromIndex) = x.fromIndex + 1
         /\ ByteIn(r, ms[j], x.fromIndex + 1) /\ ByteIn(r, ms[j], x.toIndex)
<1>. DEFINE B == BLen(r, R, N)
            C(a) == convertResponsePosToAbsolutePos(a)
<1>0. /\ r \in Responses /\ R \in 0 .. Len(Stream(r)) /\ N \in 0 .. M(r) /\ Good(res, r, R, N)
      /\ B \in Nat /\ N \in Nat /\ M(r) \in Nat /\ R \in Nat /\ H(r) \in Nat
  BY AskedNumbers DEF Asked
<1>1. /\ ms[j].fromIndex \in 0 .. B /\ ms[j].toIndex \in 0 .. B /\ ms[j].fromIndex < ms[j].toIndex
      /\ x.fromIndex = C(ms[j].fromIndex) /\ x.toIndex = C(ms[j].toIndex)
  BY MatchReveal
<1>2. PICK f, t \in Nat : f = ms[j].fromIndex /\ t = ms[j].toIndex /\ f < t /\ t <= B
  BY <1>0, <1>1
<1>3. x.fromIndex = C(f) /\ x.toIndex = C(t) /\ f \in 0 .. B /\ t \in 0 .. B
  BY <1>1, <1>2
<1>4. PICK l \in Nat : l = t - 1 /\ l + 1 = t /\ l < B
  BY <1>0, <1>2, SMTT(40)
<1>5. ByteOf(r, l) = C(t)
  BY <1>4, ByteEnds
<1>6. ByteIn(r, ms[j], x.toIndex)
  <2>1. l \in f .. t - 1
    BY <1>2, <1>4
  <2>. QED BY <1>2, <1>3, <1>5, <2>1 DEF ByteIn
<1>7. ByteIn(r, ms[j], ByteOf(r, f))
  <2>1. f \in f .. t - 1
    BY <1>2
  <2>. QED BY <1>2, <2>1 DEF ByteIn
<1>8. C(t) - C(f) = t - f /\ ByteOf(r, f) = C(f) + 1
  <2>1. CASE r.framing # "chunked"
    <3>1. C(f) = H(r) + f /\ C(t) = H(r) + t
      BY <1>0, <1>3, <2>1, Convert
    <3>2. f < B /\ f + 1 \in 0 .. B
      BY <1>0, <1>2, SMTT(40)
    <3>3. ByteOf(r, f) = C(f + 1) /\ C(f + 1) = H(r) + (f + 1)
      BY <1>0, <2>1, <3>2, ByteEnds, Convert
    <3>. QED BY <1>0, <3>1, <3>3
  <2>2. CASE r.framing = "chunked"
    <3>1. f < B
      BY <1>0, <1>2
    <3>2. PICK c \in 1 .. N : /\ BodyBefore(r, c) <= f /\ f < BodyUpTo(r, c)
                              /\ ByteOf(r, f) = DataAt(r, c) + (f - BodyBefore(r, c)) + 1
      BY <2>2, <3>1, ByteEnds
    <3>3. c \in 1 .. M(r) /\ N \in 1 .. M(r) /\ B = BodyUpTo(r, N)
      BY <1>0, <2>2, <3>2, AskedNumbers, SMTT(40)
    <3>4. /\ BodyBefore(r, c) \in Nat /\ BodyUpTo(r, c) \in Nat /\ DataAt(r, c) \in Nat
          /\ BodyBefore(r, c + 1) = BodyUpTo(r, c)
      BY <2>2, <3>3, Chunks
    <3>5. PICK a, b, u \in Nat : a = DataAt(r, c) /\ b = BodyBefore(r, c) /\ u = BodyUpTo(r, c)
      BY <3>4
    <3>6. c = 1 \/ b < f
      <4>1. SUFFICES ASSUME c # 1, b = f PROVE FALSE
        BY <3>2, <3>5
      <4>2. c \in 2 .. Len(r.ends)
        BY <3>3, <4>1 DEF M
      <4>3. ~(ms[j].fromIndex <= BodyBefore(r, c) /\ BodyBefore(r, c) < ms[j].toIndex)
        BY <4>2
      <4>4. ~(f <= f /\ f < t)
        BY <1>2, <3>5, <4>1, <4>3
      <4>. QED BY <1>2, <4>4
    <3>7. t <= u
      <4>1. SUFFICES ASSUME u < t PROVE FALSE
        BY <1>2, <3>5
      <4>2. c # N
        BY <1>0, <1>2, <3>3, <3>5, <4>1
      <4>3. c + 1 \in 2 .. Len(r.ends)
        BY <1>0, <3>2, <3>3, <4>2, SMTT(40) DEF M
      <4>4. BodyBefore(r, c + 1) = u /\ f <= u
        BY <3>2, <3>4, <3>5
      <4>. QED BY <1>2, <4>1, <4>3, <4>4
    <3>8. InPart(r, N, f, c) /\ InPart(r, N, t, c)
      <4>1. InPart(r, N, f, c)
        BY <3>2, <3>5, <3>6 DEF InPart
      <4>2. b <= t /\ b < t
        BY <1>2, <3>2, <3>5, SMTT(40)
      <4>. QED BY <3>2, <3>5, <3>7, <4>1, <4>2 DEF InPart
    <3>9. res.chunks = ReadChunksOf(r, N) /\ f \in 0 .. BodyUpTo(r, N) /\ t \in 0 .. BodyUpTo(r, N)
      BY <1>0, <1>3, <2>2, <3>3 DEF Good, GoodChunked
    <3>10. C(f) = AbsIn(r, f, c) /\ C(t) = AbsIn(r, t, c)
      BY <1>0, <2>2, <3>3, <3>8, <3>9, ConvertChunked
    <3>11. C(f) = a + (f - b) /\ C(t) = a + (t - b) /\ ByteOf(r, f) = a + (f - b) + 1
      BY <3>2, <3>5, <3>10 DEF AbsIn
    <3>. HIDE DEF C
    <3>. QED BY <3>11
  <2>. QED BY <2>1, <2>2
<1>. HIDE DEF C
<1>. QED BY <1>2, <1>3, <1>6, <1>7, <1>8

(* The last byte of the response is not one that can be hashed. *)
LEMMA HashedBeforeEnd ==
  ASSUME NEW r, NEW R, NEW N, NEW ms, Asked(r, R, N, ms), NEW bl, Blocks(bl, R),
         NEW j \in 1 .. Len(ms), HashableAt(r, bl, ms, j)
  PROVE  getReveal(ms[j], j).toIndex < R
<1>. DEFINE x == getReveal(ms[j], j)
<1>1. \A c \in 2 .. Len(r.ends) : ~(ms[j].fromIndex <= BodyBefore(r, c) /\ BodyBefore(r, c) < ms[j].toIndex)
  BY DEF HashableAt
<1>2. ByteIn(r, ms[j], x.toIndex)
  BY <1>1, MatchInChunk
<1>3. R \in Nat /\ H(r) \in Nat /\ H(r) >= 5 /\ H(r) <= R
  BY AskedNumbers
<1>4. x \in RevealsOf(ms)
  BY MatchReveal
<1>5. x.toIndex \in 0 .. R
  BY <1>4, RevealNumbers
<1>6. bl[Len(bl)] = R
  BY <1>3 DEF Blocks
<1>7. ~ByteIn(r, ms[j], R)
  BY <1>6 DEF HashableAt
<1>8. x.toIndex # R
  BY <1>2, <1>7
<1>. HIDE DEF x
<1>9. x.toIndex < R
  BY <1>3, <1>5, <1>8
<1>. QED BY <1>9 DEF x

(* Bytes that can be hashed are not at the end of the response. *)
LEMMA HashableNoneAtEnd ==
  ASSUME NEW r, NEW R, NEW N, NEW ms, Asked(r, R, N, ms), NEW bl, Blocks(bl, R), Hashable(r, bl, ms)
  PROVE  NoneAtEnd(ms, R)
<1>1. SUFFICES ASSUME NEW x \in RevealsOf(ms), x.hash PROVE x.toIndex < R
  BY DEF NoneAtEnd
<1>2. PICK j \in 1 .. Len(ms) : x = getReveal(ms[j], j)
  BY <1>1, RevealKinds
<1>3. ms[j].hash
  BY <1>1, <1>2, MatchReveal
<1>4. j \in DOMAIN ms
  BY DEF Asked
<1>5. HashableAt(r, bl, ms, j)
  BY <1>3, <1>4 DEF Hashable
<1>. QED BY <1>2, <1>5, HashedBeforeEnd

(* Nothing is redacted in front of bytes to be hashed that reaches into them. *)
LEMMA HashReached ==
  ASSUME NEW r, NEW R, NEW N, NEW ms, Asked(r, R, N, ms), ~NestedAsked(ms), NEW bl, Blocks(bl, R),
         NEW g, g = getResponseRedactions(ms), NEW n \in 1 .. Len(g),
         NEW j \in 1 .. Len(ms), g[n] = getReveal(ms[j], j), HashableAt(r, bl, ms, j)
  PROVE  /\ CursorAfter(g, n - 1) \in Nat /\ CursorAfter(g, n - 1) <= g[n].fromIndex
<1>. DEFINE x == g[n]
<1>0. /\ R \in Nat /\ r \in Responses /\ R \in 0 .. Len(Stream(r)) /\ N \in 0 .. M(r) /\ Good(res, r, R, N)
      /\ DOMAIN ms = 1 .. Len(ms)
  BY AskedNumbers DEF Asked
<1>1. /\ Listed(g, R) /\ Len(g) \in Nat /\ \A k \in 1 .. Len(g) : g[k] \in RedactionSet(ms)
  BY RedactionOrder
<1>a. \A i, k \in 1 .. Len(g) : i < k => Before(g[i], g[k])
  BY RedactionOrder
<1>2. CursorAfter(g, n - 1) \in Nat /\ x.fromIndex \in Nat /\ x.toIndex \in Nat /\ CursorAfter(g, n - 1) <= x.toIndex
  <2>1. /\ CursorAfter(g, n - 1) \in 0 .. R /\ x.fromIndex \in 0 .. R /\ x.toIndex \in 0 .. R
        /\ CursorAfter(g, n - 1) <= x.toIndex
    BY <1>0, <1>1, CursorNumbers
  <2>. QED BY <1>0, <2>1
<1>3. SUFFICES ASSUME x.fromIndex < CursorAfter(g, n - 1) PROVE FALSE
  BY <1>2
<1>4. n - 1 \in 1 .. Len(g) /\ n - 1 # 0 /\ n - 1 < n
  <2>1. n # 1
    BY <1>2, <1>3 DEF CursorAfter
  <2>. QED BY <1>1, <2>1
<1>. DEFINE v == g[n - 1]
<1>5. v \in RedactionSet(ms) /\ v.toIndex = CursorAfter(g, n - 1) /\ Before(v, x)
  BY <1>1, <1>a, <1>4 DEF CursorAfter
<1>6. x = getReveal(ms[j], j) /\ x \in RevealsOf(ms)
  BY MatchReveal
<1>. HIDE DEF x, v
<1>7. v.fromIndex \in Nat /\ v.toIndex \in Nat /\ v.fromIndex < v.toIndex /\ x.fromIndex < v.toIndex /\ v.toIndex <= x.toIndex
  <2>1. v.fromIndex \in Nat /\ v.toIndex \in Nat /\ (v.fromIndex < v.toIndex \/ v.toIndex = R)
    BY <1>5, RedactionNumbers
  <2>2. x.toIndex < R
    BY <1>6, HashedBeforeEnd
  <2>. QED BY <1>0, <1>2, <1>3, <1>5, <2>1, <2>2
<1>8. ASSUME v \in Gaps(Reveals(ms)) PROVE FALSE
  <2>1. v.toIndex <= x.fromIndex \/ v.fromIndex >= x.toIndex
    BY <1>6, <1>8, GapsOutside
  <2>. QED BY <1>2, <1>7, <2>1
<1>9. ASSUME NEW i, NEW c, SizeLineIn(r, N, ms, v, i, c) PROVE FALSE
  <2>1. r.framing = "chunked" /\ c \in 2 .. N
    BY <1>9 DEF SizeLineIn
  <2>2. v.toIndex = DataAt(r, c) /\ x.toIndex # v.toIndex
    BY <1>6, <1>9, SizeLineFields, SizeLineEnd
  <2>3. x.fromIndex < DataAt(r, c) /\ DataAt(r, c) < x.toIndex
    BY <1>2, <1>7, <2>2
  <2>4. c \in 2 .. Len(r.ends) /\ ms[j].fromIndex <= BodyBefore(r, c) /\ BodyBefore(r, c) < ms[j].toIndex
    BY <1>6, <2>1, <2>3, SplitMatch
  <2>. QED BY <2>4 DEF HashableAt
<1>10. ASSUME NEW i \in 1 .. Len(ms), v = getReveal(ms[i], i) PROVE FALSE
  <2>. DEFINE B == BLen(r, R, N)
              C(a) == convertResponsePosToAbsolutePos(a)
  <2>1. i # j
    <3>1. ~Before(x, x)
      <4>1. x.place \in Int
        BY <1>6, RevealNumbers
      <4>. QED BY <1>2, <4>1 DEF Before
    <3>. QED BY <1>5, <1>6, <1>10, <3>1
  <2>2. /\ ms[j].fromIndex \in 0 .. B /\ ms[j].toIndex \in 0 .. B /\ x.fromIndex = C(ms[j].fromIndex)
        /\ x.toIndex = C(ms[j].toIndex)
    BY <1>6, MatchReveal
  <2>3. /\ ms[i].fromIndex \in 0 .. B /\ ms[i].toIndex \in 0 .. B /\ v.fromIndex = C(ms[i].fromIndex)
        /\ v.toIndex = C(ms[i].toIndex)
    BY <1>10, MatchReveal
  <2>4. B \in Nat
    BY AskedNumbers
  <2>5. \A a, b \in 0 .. B : a < b => C(a) < C(b)
    BY <1>0, ConvertMonotone
  <2>. HIDE DEF B, C
  <2>6. PICK jf, jt, f, t \in 0 .. B : jf = ms[j].fromIndex /\ jt = ms[j].toIndex /\ f = ms[i].fromIndex /\ t = ms[i].toIndex
    BY <2>2, <2>3
  <2>7. C(jf) < C(t) /\ C(f) < C(jt) /\ C(jf) \in Nat /\ C(t) \in Nat /\ C(f) \in Nat /\ C(jt) \in Nat
    BY <1>2, <1>7, <2>2, <2>3, <2>6
  <2>8. jf < t
    <3>1. jf # t /\ ~(t < jf)
      BY <2>5, <2>7
    <3>. QED BY <2>4, <3>1
  <2>9. f < jt
    <3>1. f # jt /\ ~(jt < f)
      BY <2>5, <2>7
    <3>. QED BY <2>4, <3>1
  <2>10. Overlap(ms[j], ms[i])
    BY <2>4, <2>6, <2>8, <2>9 DEF Overlap
  <2>. QED BY <1>0, <2>1, <2>10 DEF HashableAt
<1>. QED BY <1>5, <1>8, <1>9, <1>10, RedactionKinds

(* A redaction that hashes is the reveal of a match, all of it. *)
LEMMA HashedSlice ==
  ASSUME NEW r, NEW R, NEW N, NEW ms, Asked(r, R, N, ms), ~NestedAsked(ms), NEW bl, Blocks(bl, R),
         Hashable(r, bl, ms), NEW g, g = getResponseRedactions(ms), NEW n \in 1 .. Len(g), g[n].hash
  PROVE  \E j : HashOf(r, R, bl, ms, g, n, j)
<1>. DEFINE x == g[n]
<1>0. R \in Nat /\ DOMAIN ms = 1 .. Len(ms)
  BY AskedNumbers DEF Asked
<1>1. x \in RedactionSet(ms) /\ Listed(g, R)
  BY RedactionOrder
<1>2. PICK j \in 1 .. Len(ms) : x = getReveal(ms[j], j) /\ ms[j].hash
  BY <1>1, RedactionKinds
<1>3. HashableAt(r, bl, ms, j)
  BY <1>0, <1>2 DEF Hashable
<1>4. x.fromIndex \in Nat /\ x.toIndex \in 0 .. R /\ x.toIndex \in Nat /\ x.fromIndex < x.toIndex
  BY <1>1, RedactionNumbers
<1>5. CursorAfter(g, n - 1) \in Nat /\ CursorAfter(g, n - 1) <= x.fromIndex
  BY <1>2, <1>3, HashReached
<1>6. OverAt(g, n) = x.fromIndex
  BY <1>4, <1>5 DEF OverAt, OverFrom
<1>7. /\ x.toIndex - x.fromIndex = ms[j].toIndex - ms[j].fromIndex
      /\ ByteOf(r, ms[j].fromIndex) = x.fromIndex + 1
      /\ ByteIn(r, ms[j], x.fromIndex + 1) /\ ByteIn(r, ms[j], x.toIndex)
  <2>1. \A c \in 2 .. Len(r.ends) : ~(ms[j].fromIndex <= BodyBefore(r, c) /\ BodyBefore(r, c) < ms[j].toIndex)
    BY <1>3 DEF HashableAt
  <2>. QED BY <1>2, <2>1, MatchInChunk
<1>8. \E b \in DOMAIN bl : StartOf(bl, b) <= x.fromIndex /\ x.toIndex <= bl[b]
  <2>1. PICK b \in DOMAIN bl : \A p : ByteIn(r, ms[j], p) => ~(p <= StartOf(bl, b)) /\ ~(p > bl[b])
    BY <1>3 DEF HashableAt
  <2>2. ~(x.fromIndex + 1 <= StartOf(bl, b)) /\ ~(x.toIndex > bl[b])
    BY <1>7, <2>1
  <2>3. b \in 1 .. Len(bl)
    BY <2>1 DEF Blocks
  <2>4. StartOf(bl, b) \in 0 .. R /\ bl[b] \in 0 .. R
    BY <2>3, BlockNumbers
  <2>5. StartOf(bl, b) <= x.fromIndex /\ x.toIndex <= bl[b]
    BY <1>0, <1>4, <2>2, <2>4
  <2>. QED BY <2>1, <2>5
<1>. QED BY <1>0, <1>2, <1>4, <1>5, <1>6, <1>7, <1>8 DEF HashOf

(* The records end one behind the other. *)
LEMMA BlocksRise ==
  ASSUME NEW R, NEW bl, Blocks(bl, R), NEW a \in 1 .. Len(bl), NEW b \in 1 .. Len(bl), a <= b
  PROVE  bl[a] <= bl[b]
<1>0. R \in Nat /\ Len(bl) \in Nat /\ \A i \in 1 .. Len(bl) : bl[i] \in 0 .. R /\ StartOf(bl, i) <= bl[i]
  BY DEF Blocks
<1>. DEFINE T == {j \in 1 .. Len(bl) : a <= j /\ ~(bl[a] <= bl[j])}
<1>1. SUFFICES ASSUME T # {} PROVE FALSE
  OBVIOUS
<1>2. PICK j \in T : \A y \in T : j <= y
  <2>1. T \in SUBSET Nat
    BY <1>0
  <2>. QED BY <1>1, <2>1, LeastOf
<1>3. j \in 1 .. Len(bl) /\ a <= j /\ ~(bl[a] <= bl[j])
  BY <1>2
<1>4. j # a
  BY <1>0, <1>3
<1>5. j - 1 \in 1 .. Len(bl) /\ a <= j - 1 /\ j # 1 /\ ~(j <= j - 1)
  BY <1>0, <1>3, <1>4
<1>6. j - 1 \notin T
  BY <1>2, <1>5
<1>7. bl[a] <= bl[j - 1]
  BY <1>5, <1>6
<1>8. bl[j - 1] <= bl[j]
  BY <1>0, <1>3, <1>5 DEF StartOf
<1>9. bl[a] \in Nat /\ bl[j - 1] \in Nat /\ bl[j] \in Nat
  BY <1>0, <1>3, <1>5
<1>. QED BY <1>3, <1>7, <1>8, <1>9

(* A byte is in one record only. *)
LEMMA BlockUnique ==
  ASSUME NEW R, NEW bl, Blocks(bl, R), NEW a \in 1 .. Len(bl), NEW b \in 1 .. Len(bl), NEW c \in Nat,
         StartOf(bl, a) <= c, c < bl[a], StartOf(bl, b) <= c, c < bl[b]
  PROVE  a = b
<1>0. R \in Nat /\ Len(bl) \in Nat /\ \A i \in 1 .. Len(bl) : bl[i] \in Nat
  BY DEF Blocks
<1>1. ASSUME NEW i \in 1 .. Len(bl), NEW j \in 1 .. Len(bl), i < j, c < bl[i], StartOf(bl, j) <= c PROVE FALSE
  <2>1. j - 1 \in 1 .. Len(bl) /\ i <= j - 1 /\ j # 1
    BY <1>0, <1>1
  <2>2. bl[i] <= bl[j - 1]
    BY <2>1, BlocksRise
  <2>3. bl[j - 1] <= c
    BY <1>1, <2>1 DEF StartOf
  <2>. QED BY <1>0, <1>1, <2>1, <2>2, <2>3, SMTT(40)
<1>2. ~(a < b) /\ ~(b < a)
  BY <1>1
<1>. QED BY <1>0, <1>2

(* Every TOPRF names the bytes of a match that is hashed. *)
LEMMA ToprfPlace ==
  ASSUME NEW r, NEW R, NEW N, NEW ms, NEW w, NEW bl, HashWalk(r, R, N, ms, w, bl),
         NEW g, g = getResponseRedactions(ms), NEW f, NotedBy(f, w, g, Len(g), R, bl), NEW k \in DOMAIN w.toprfs
  PROVE  ToprfInPlace(bl, w.toprfs[k]) /\ \E j : ToprfOf(r, R, bl, ms, g, f[k], j, w.toprfs[k])
<1>. DEFINE t == w.toprfs[k]
            n == f[k]
            x == g[n]
<1>0. /\ Asked(r, R, N, ms) /\ ~NestedAsked(ms) /\ Blocks(bl, R) /\ Hashable(r, bl, ms) /\ w \in Walks(R)
      /\ R \in Nat
  BY AskedNumbers DEF HashWalk
<1>1. n \in 1 .. Len(g) /\ x.hash /\ NotedAt(t, OverAt(g, n), R, bl, x)
  BY DEF NotedBy
<1>2. PICK j : HashOf(r, R, bl, ms, g, n, j)
  BY <1>0, <1>1, HashedSlice
<1>3. HashableAt(r, bl, ms, j)
  BY <1>0, <1>2 DEF HashOf, Hashable
<1>4. t.text = x.fromIndex /\ t.length = x.toIndex - x.fromIndex
  BY <1>1 DEF NotedAt
<1>5. PICK a, e, b : /\ a = x.fromIndex /\ e = x.toIndex /\ a \in Nat /\ e \in Nat /\ a < e /\ e <= R
                     /\ b \in DOMAIN bl /\ StartOf(bl, b) <= a /\ e <= bl[b] /\ OverAt(g, n) = a
  BY <1>2 DEF HashOf
<1>6. CursorAt(bl, a, t.block, t.fromIndex)
  BY <1>0, <1>1, <1>5 DEF NotedAt
<1>. DEFINE d == t.block
            i == t.fromIndex
<1>7. d \in 1 .. Len(bl) /\ i \in Nat /\ i < LenOf(bl, d) /\ StartOf(bl, d) + i = a
  BY <1>6 DEF CursorAt
<1>8. b \in 1 .. Len(bl)
  BY <1>5, <1>0 DEF Blocks
<1>. HIDE DEF t, n, x, d, i
<1>9. PICK sd, ed, ld \in Nat : /\ sd = StartOf(bl, d) /\ ed = bl[d] /\ ld = LenOf(bl, d) /\ sd + ld = ed
  <2>1. /\ StartOf(bl, d) \in 0 .. R /\ bl[d] \in 0 .. R /\ LenOf(bl, d) \in 0 .. R
        /\ StartOf(bl, d) + LenOf(bl, d) = bl[d]
    BY <1>0, <1>7, BlockNumbers
  <2>. QED BY <1>0, <2>1
<1>b. PICK sb, eb \in Nat : sb = StartOf(bl, b) /\ eb = bl[b]
  <2>1. StartOf(bl, b) \in 0 .. R /\ bl[b] \in 0 .. R
    BY <1>0, <1>8, BlockNumbers
  <2>. QED BY <1>0, <2>1
<1>10. t.length \in Nat /\ t.length = e - a
  BY <1>4, <1>5
<1>c. /\ i \in Nat /\ i < ld /\ sd + i = a /\ sb <= a /\ e <= eb /\ a \in Nat /\ e \in Nat /\ a < e
  BY <1>5, <1>7, <1>9, <1>b, Zenon
<1>d. sd + ld = ed
  BY <1>9
<1>11. sd <= a /\ a < ed /\ sb <= a /\ a < eb
  BY <1>c, <1>d
<1>12. d = b
  BY <1>0, <1>5, <1>7, <1>8, <1>9, <1>b, <1>11, BlockUnique
<1>13. i + t.length <= LenOf(bl, d)
  <2>1. e <= ed
    BY <1>5, <1>9, <1>12
  <2>2. i + t.length <= ld
    BY <1>c, <1>d, <1>10, <2>1
  <2>. QED BY <1>9, <2>2, Zenon
<1>14. Fits(t)
  <2>1. i % BlockSize \in 0 .. BlockSize - 1 /\ BlockSize \in Nat /\ ChunkSize \in Nat
    BY <1>7, Sizes, DivMod
  <2>2. e - a = ms[j].toIndex - ms[j].fromIndex
    BY <1>2, <1>5 DEF HashOf, x
  <2>3. ~(ms[j].toIndex - ms[j].fromIndex + BlockSize - 1 > ChunkSize)
    BY <1>3 DEF HashableAt
  <2>4. ~(t.length + BlockSize - 1 > ChunkSize)
    BY <1>10, <2>2, <2>3
  <2>5. (i % BlockSize) + t.length <= ChunkSize
    BY <1>10, <2>1, <2>4
  <2>. QED BY <2>5 DEF Fits, i
<1>15. ToprfInPlace(bl, t)
  BY <1>4, <1>5, <1>7, <1>13, <1>14 DEF ToprfInPlace, d, i
<1>16. ToprfOf(r, R, bl, ms, g, n, j, t)
  BY <1>1, <1>2, <1>3, <1>4 DEF ToprfOf, x
<1>. QED BY <1>15, <1>16 DEF t, n

(* Two of them are far apart. *)
LEMMA ToprfsApart ==
  ASSUME NEW r, NEW R, NEW N, NEW ms, NEW w, NEW bl, HashWalk(r, R, N, ms, w, bl),
         NEW g, g = getResponseRedactions(ms), NEW m, NEW n, m # n, NEW i, NEW j, NEW s, NEW t,
         ToprfOf(r, R, bl, ms, g, m, i, s), ToprfOf(r, R, bl, ms, g, n, j, t)
  PROVE  FarApart(s, t)
<1>0. Asked(r, R, N, ms) /\ R \in Nat
  BY AskedNumbers DEF HashWalk
<1>1. /\ m \in 1 .. Len(g) /\ i \in DOMAIN ms /\ ms[i].hash /\ g[m] = getReveal(ms[i], i)
      /\ s.text = g[m].fromIndex /\ ByteOf(r, ms[i].fromIndex) = g[m].fromIndex + 1 /\ HashableAt(r, bl, ms, i)
      /\ g[m].fromIndex \in Nat
  BY DEF ToprfOf, HashOf
<1>2. /\ n \in 1 .. Len(g) /\ j \in DOMAIN ms /\ ms[j].hash /\ g[n] = getReveal(ms[j], j)
      /\ t.text = g[n].fromIndex /\ ByteOf(r, ms[j].fromIndex) = g[n].fromIndex + 1
      /\ g[n].fromIndex \in Nat
  BY DEF ToprfOf, HashOf
<1>3. i # j
  <2>1. SUFFICES ASSUME i = j PROVE FALSE
    OBVIOUS
  <2>2. g[m] = g[n]
    BY <1>1, <1>2, <2>1
  <2>3. (m < n => Before(g[m], g[n])) /\ (n < m => Before(g[n], g[m])) /\ g[m] \in RedactionSet(ms)
    BY <1>0, <1>1, <1>2, RedactionOrder
  <2>4. m < n \/ n < m
    <3>1. Len(g) \in Nat
      BY <1>0, RedactionOrder
    <3>. QED BY <1>1, <1>2, <3>1
  <2>5. Before(g[m], g[m])
    BY <2>2, <2>3, <2>4
  <2>6. g[m].toIndex \in Int /\ g[m].place \in Int
    BY <1>0, <2>3, RedactionNumbers
  <2>. QED BY <2>5, <2>6 DEF Before
<1>4. ByteOf(r, ms[i].fromIndex) - ByteOf(r, ms[j].fromIndex) \notin 1 - 2 * ChunkSize .. 2 * ChunkSize - 1
  BY <1>1, <1>2, <1>3 DEF HashableAt
<1>5. PICK a, b, c \in Nat : a = s.text /\ b = t.text /\ c = ChunkSize
  BY <1>1, <1>2, Sizes
<1>6. (a + 1) - (b + 1) \notin 1 - 2 * c .. 2 * c - 1
  BY <1>1, <1>2, <1>4, <1>5
<1>7. a + 2 * c <= b \/ b + 2 * c <= a
  BY <1>5, <1>6
<1>. QED BY <1>5, <1>7 DEF FarApart

(* The nullifiers are where the bytes to be hashed are, and nowhere else. *)
LEMMA WalkInPlace ==
  ASSUME NEW r, NEW R, NEW N, NEW ms, NEW w, NEW bl, HashWalk(r, R, N, ms, w, bl)
  PROVE  InPlace(bl, R, w)
<1>. DEFINE g == getResponseRedactions(ms)
<1>0. /\ Asked(r, R, N, ms) /\ R \in Nat /\ Blocks(bl, R) /\ w \in Walks(R)
      /\ RedactedAs(w, g, Len(g), R, bl)
  BY AskedNumbers DEF HashWalk
<1>1. PICK f : NotedBy(f, w, g, Len(g), R, bl)
  BY <1>0 DEF RedactedAs, NotedOnly
<1>2. \A k \in DOMAIN w.toprfs :
        ToprfInPlace(bl, w.toprfs[k]) /\ \E j : ToprfOf(r, R, bl, ms, g, f[k], j, w.toprfs[k])
  BY <1>1, ToprfPlace
<1>3. ASSUME NEW k \in DOMAIN w.toprfs, NEW l \in DOMAIN w.toprfs, k # l
      PROVE  FarApart(w.toprfs[k], w.toprfs[l])
  <2>1. f[k] # f[l]
    BY <1>1, <1>3 DEF NotedBy
  <2>2. PICK i : ToprfOf(r, R, bl, ms, g, f[k], i, w.toprfs[k])
    BY <1>2
  <2>3. PICK j : ToprfOf(r, R, bl, ms, g, f[l], j, w.toprfs[l])
    BY <1>2
  <2>. QED BY <2>1, <2>2, <2>3, ToprfsApart
<1>. HIDE DEF g
<1>4. ASSUME NEW p \in 1 .. R, NEW k \in DOMAIN w.toprfs, InHash(w.toprfs[k], p)
      PROVE  w.plain[p] = Nullifier(w.toprfs[k].text, p - 1 - w.toprfs[k].text)
  <2>. DEFINE t == w.toprfs[k]
              n == f[k]
  <2>1. PICK j : ToprfOf(r, R, bl, ms, g, n, j, t)
    BY <1>2
  <2>2. /\ n \in 1 .. Len(g) /\ t.text = g[n].fromIndex /\ t.length = g[n].toIndex - g[n].fromIndex /\ g[n].hash
        /\ g[n].fromIndex \in Nat /\ g[n].toIndex \in 0 .. R /\ g[n].fromIndex < g[n].toIndex
        /\ CursorAfter(g, n - 1) \in Nat /\ CursorAfter(g, n - 1) <= g[n].fromIndex /\ OverAt(g, n) = g[n].fromIndex
    BY <2>1 DEF ToprfOf, HashOf
  <2>3. t.text < p /\ p <= t.text + t.length
    BY <1>4 DEF InHash
  <2>4. WrittenAs(w, g, Len(g), R)
    BY <1>0 DEF RedactedAs
  <2>. HIDE DEF t, n
  <2>5. CursorAfter(g, n - 1) < p /\ p <= g[n].toIndex /\ OverAt(g, n) < p
    BY <1>0, <2>2, <2>3
  <2>6. w.plain[p] = CharOf(g[n], p - 1 - OverAt(g, n))
    BY <2>2, <2>4, <2>5 DEF WrittenAs
  <2>7. w.plain[p] = Nullifier(t.text, p - 1 - t.text)
    BY <2>2, <2>6 DEF CharOf
  <2>. QED BY <2>7 DEF t
<1>5. ASSUME NEW p \in 1 .. R
      PROVE  w.plain[p] \in {Clear, Star} \/ \E k \in DOMAIN w.toprfs : InHash(w.toprfs[k], p)
  <2>1. PICK q \in 0 .. R - 1 : q + 1 = p
    <3>1. p - 1 \in 0 .. R - 1 /\ (p - 1) + 1 = p
      BY <1>0
    <3>. QED BY <3>1
  <2>2. Walked(r, R, N, ms, w, bl, q)
    <3>1. NoneAtEnd(ms, R)
      BY HashableNoneAtEnd DEF HashWalk
    <3>. QED BY <1>0, <2>1, <3>1 DEF Walked, g
  <2>3. \/ w.plain[q + 1] = Clear
        \/ \E n : /\ FirstOver(ms, g, q, n)
                  /\ g[n].fromIndex > q => w.plain[q + 1] = Clear
                  /\ g[n].fromIndex <= q => w.plain[q + 1] = CharOf(g[n], q - OverAt(g, n)) /\ OverAt(g, n) <= q
    BY <2>2, Writer DEF g
  <2>4. ASSUME NEW n, FirstOver(ms, g, q, n),
               g[n].fromIndex > q => w.plain[q + 1] = Clear,
               g[n].fromIndex <= q => w.plain[q + 1] = CharOf(g[n], q - OverAt(g, n)) /\ OverAt(g, n) <= q
        PROVE  w.plain[p] \in {Clear, Star} \/ \E k \in DOMAIN w.toprfs : InHash(w.toprfs[k], p)
    <3>1. n \in 1 .. Len(g) /\ g[n] \in RedactionSet(ms) /\ g[n].toIndex > q
      BY <2>4 DEF FirstOver
    <3>2. g[n].fromIndex \in Nat /\ g[n].toIndex \in Nat /\ g[n].hash \in BOOLEAN
      BY <1>0, <3>1, RedactionNumbers
    <3>3. CASE g[n].fromIndex > q
      BY <2>1, <2>4, <3>3
    <3>4. CASE g[n].fromIndex <= q /\ ~g[n].hash
      BY <2>1, <2>4, <3>4 DEF CharOf
    <3>5. CASE g[n].fromIndex <= q /\ g[n].hash
      <4>1. NotedAs(w, g, Len(g), R, bl)
        BY <1>0 DEF RedactedAs
      <4>2. PICK k \in DOMAIN w.toprfs : NotedAt(w.toprfs[k], OverAt(g, n), R, bl, g[n])
        BY <3>1, <3>5, <4>1 DEF NotedAs
      <4>3. w.toprfs[k].text = g[n].fromIndex /\ w.toprfs[k].length = g[n].toIndex - g[n].fromIndex
        BY <4>2 DEF NotedAt
      <4>4. InHash(w.toprfs[k], p)
        BY <1>0, <2>1, <3>1, <3>2, <3>5, <4>3 DEF InHash
      <4>. QED BY <4>4
    <3>. QED BY <1>0, <2>1, <3>2, <3>3, <3>4, <3>5
  <2>. QED BY <2>1, <2>3, <2>4
<1>. QED BY <1>2, <1>3, <1>4, <1>5 DEF InPlace

(* A number of blocks is not larger than the bytes they hold. *)
LEMMA RoundedUp ==
  ASSUME NEW a \in Nat \ {0}, NEW c \in Nat \ {0}
  PROVE  (a + c - 1) \div c \in Nat /\ (a + c - 1) \div c <= a
<1>. DEFINE e == (a + c - 1) \div c
<1>1. a + c - 1 \in Nat
  OBVIOUS
<1>2. e \in Nat /\ (a + c - 1) % c \in 0 .. c - 1 /\ a + c - 1 = e * c + ((a + c - 1) % c)
  BY <1>1, DivMod
<1>3. e * c <= a + c - 1
  BY <1>1, <1>2
<1>. HIDE DEF e
<1>4. SUFFICES ASSUME e > a PROVE FALSE
  BY <1>2 DEF e
<1>5. PICK d \in Nat : e = a + 1 + d
  <2>1. e - a - 1 \in Nat /\ e = a + 1 + (e - a - 1)
    BY <1>2, <1>4
  <2>. QED BY <2>1
<1>6. e * c = a * c + c + d * c
  BY <1>5
<1>7. a * c >= a /\ d * c \in Nat /\ a * c \in Nat
  <2>1. PICK k \in Nat : c = k + 1
    <3>1. c - 1 \in Nat /\ c = (c - 1) + 1
      OBVIOUS
    <3>. QED BY <3>1
  <2>2. a * c = a * k + a
    BY <2>1
  <2>3. a * k \in Nat /\ d * c \in Nat
    OBVIOUS
  <2>. QED BY <2>2, <2>3
<1>. QED BY <1>3, <1>6, <1>7

(* The TOPRFs of a record whose nullifiers are in place. *)
LEMMA ToprfsInBlock ==
  ASSUME NEW R, NEW bl, Blocks(bl, R), NEW w \in Walks(R), InPlace(bl, R, w), NEW b \in 1 .. Len(bl),
         NEW ts, ts = ToprfsIn(w, b), NEW k \in DOMAIN ts, NEW t, t = ts[k]
  PROVE  /\ k \in DOMAIN w.toprfs /\ t = w.toprfs[k] /\ t.block = b
         /\ t.fromIndex \in Nat /\ t.length \in Nat \ {0} /\ t.length \in Nat /\ t.length > 0 /\ t.text \in Nat
         /\ t.text = StartOf(bl, b) + t.fromIndex /\ t.fromIndex + t.length <= LenOf(bl, b) /\ Fits(t)
<1>1. k \in DOMAIN w.toprfs /\ t = w.toprfs[k] /\ t.block = b
  BY DEF ToprfsIn
<1>2. t \in Toprf
  <2>1. w.toprfs \in Seq(Toprf)
    BY DEF Walks
  <2>. QED BY <1>1, <2>1
<1>3. ToprfInPlace(bl, t)
  BY <1>1 DEF InPlace
<1>4. t.fromIndex \in Nat /\ t.length \in Nat \ {0} /\ t.length \in Nat /\ t.length > 0 /\ t.text \in Nat
  BY <1>2 DEF Toprf
<1>. QED BY <1>1, <1>3, <1>4 DEF ToprfInPlace

(* They can be proved. *)
LEMMA InPlaceFits ==
  ASSUME NEW R, NEW bl, Blocks(bl, R), NEW w \in Walks(R), InPlace(bl, R, w), NEW b \in 1 .. Len(bl),
         NEW ts, ts = ToprfsIn(w, b), NEW size \in Nat, LenOf(bl, b) \in 0 .. size
  PROVE  ~CannotProve(ts, size)
<1>. DEFINE start == StartOf(bl, b)
<1>0. start \in Nat
  <2>1. start \in 0 .. R /\ R \in Nat
    BY BlockNumbers
  <2>. QED BY <2>1
<1>1. \A k \in DOMAIN ts :
        /\ k \in DOMAIN w.toprfs /\ ts[k] = w.toprfs[k] /\ ts[k].fromIndex \in Nat /\ ts[k].length \in Nat
        /\ ts[k].length > 0 /\ ts[k].text \in Nat /\ ts[k].text = start + ts[k].fromIndex
        /\ ts[k].fromIndex + ts[k].length <= LenOf(bl, b) /\ Fits(ts[k])
  BY ToprfsInBlock
<1>2. ASSUME NEW k \in DOMAIN ts PROVE ~(ts[k].fromIndex + ts[k].length > size)
  BY <1>1
<1>3. ASSUME NEW k \in DOMAIN ts PROVE ~CannotFit(ts[k])
  <2>1. PICK f, l \in Nat : f = ts[k].fromIndex /\ l = ts[k].length /\ l > 0 /\ (f % BlockSize) + l <= ChunkSize
    BY <1>1 DEF Fits
  <2>2. /\ f % BlockSize \in 0 .. BlockSize - 1 /\ f = (f \div BlockSize) * BlockSize + (f % BlockSize)
    BY Sizes, DivMod
  <2>3. PICK a \in Nat \ {0} : a = f + l
    BY <2>1
  <2>4. PICK e \in Nat : e = (a + BlockSize - 1) \div BlockSize /\ e <= a
    BY Sizes, RoundedUp
  <2>5. PICK m, d, c \in Int : m = f % BlockSize /\ d = (f \div BlockSize) * BlockSize /\ c = ChunkSize
    <3>1. f \div BlockSize \in Nat /\ BlockSize \in Nat /\ ChunkSize \in Nat
      BY Sizes, DivMod
    <3>. QED BY <2>2, <3>1, Sizes
  <2>6. f = d + m /\ m + l <= c
    BY <2>1, <2>2, <2>5
  <2>7. ~(e - d > c)
    BY <2>1, <2>3, <2>4, <2>6, SMTT(40)
  <2>8. ~((ts[k].fromIndex + ts[k].length + BlockSize - 1) \div BlockSize - (ts[k].fromIndex \div BlockSize) * BlockSize > ChunkSize)
    BY <2>1, <2>3, <2>4, <2>5, <2>7
  <2>. QED BY <2>8 DEF CannotFit
<1>4. ASSUME NEW i \in DOMAIN ts, NEW j \in DOMAIN ts, i # j
      PROVE  ~Overlap(ToprfSlice(ts[i], size), ToprfSlice(ts[j], size))
  <2>1. FarApart(ts[i], ts[j])
    BY <1>1, <1>4 DEF InPlace
  <2>2. PICK f, g, c \in Nat : /\ f = ts[i].fromIndex /\ g = ts[j].fromIndex /\ c = ChunkSize
                              /\ ts[i].text = start + f /\ ts[j].text = start + g
    BY <1>1, Sizes
  <2>3. f + 2 * c <= g \/ g + 2 * c <= f
    BY <1>0, <2>1, <2>2, SMTT(40) DEF FarApart
  <2>4. PICK o \in Nat : o = getIdealOffsetForToprfBlock(ts[i]) /\ o <= f /\ f < o + c
    <3>1. getIdealOffsetForToprfBlock(ts[i]) \in 0 .. ts[i].fromIndex
      BY <1>1, OffsetFacts
    <3>2. ts[i].fromIndex < getIdealOffsetForToprfBlock(ts[i]) + ChunkSize
      BY <1>1, OffsetNear
    <3>. QED BY <2>2, <3>1, <3>2
  <2>5. PICK q \in Nat : q = getIdealOffsetForToprfBlock(ts[j]) /\ q <= g /\ g < q + c
    <3>1. getIdealOffsetForToprfBlock(ts[j]) \in 0 .. ts[j].fromIndex
      BY <1>1, OffsetFacts
    <3>2. ts[j].fromIndex < getIdealOffsetForToprfBlock(ts[j]) + ChunkSize
      BY <1>1, OffsetNear
    <3>. QED BY <2>2, <3>1, <3>2
  <2>6. /\ ToprfSlice(ts[i], size).fromIndex = o /\ ToprfSlice(ts[i], size).toIndex = Least(o + c, size)
        /\ ToprfSlice(ts[j], size).fromIndex = q /\ ToprfSlice(ts[j], size).toIndex = Least(q + c, size)
    BY <2>2, <2>4, <2>5 DEF ToprfSlice
  <2>7. Least(o + c, size) <= o + c /\ Least(q + c, size) <= q + c /\ Least(o + c, size) \in Nat /\ Least(q + c, size) \in Nat
    BY DEF Least
  <2>8. Least(o + c, size) <= q \/ Least(q + c, size) <= o
    BY <2>3, <2>4, <2>5, <2>7, SMTT(40)
  <2>. QED BY <2>6, <2>7, <2>8 DEF Overlap
<1>. QED BY <1>2, <1>3, <1>4 DEF CannotProve

(* The circuit accepts their proofs. *)
LEMMA InPlaceProvable ==
  ASSUME NEW R, NEW bl, Blocks(bl, R), NEW w \in Walks(R), InPlace(bl, R, w), NEW b \in 1 .. Len(bl),
         NEW ts, ts = ToprfsIn(w, b), NEW text, text = TextOf(bl, w, b)
  PROVE  ~CannotProve(ts, Len(text)) /\ \A p \in Proofs(text, ts) : Provable(StartOf(bl, b), p)
<1>0. text \in Seq(Chars) /\ Len(text) \in Nat /\ LenOf(bl, b) \in 0 .. Len(text) /\ Placed(ts)
  BY TextFacts, ToprfsPlaced
<1>1. ~CannotProve(ts, Len(text))
  BY <1>0, InPlaceFits
<1>2. \A i \in DOMAIN ts : Fits(ts[i]) /\ ts[i].text = StartOf(bl, b) + ts[i].fromIndex
  BY ToprfsInBlock
<1>3. StartOf(bl, b) \in Nat
  <2>1. StartOf(bl, b) \in 0 .. R /\ R \in Nat
    BY BlockNumbers
  <2>. QED BY <2>1
<1>4. ASSUME NEW p \in Proofs(text, ts) PROVE Provable(StartOf(bl, b), p)
  BY <1>0, <1>1, <1>2, <1>3, ProofsAreProvable
<1>. QED BY <1>1, <1>4

(* Behind its plaintext a record is clear. *)
LEMMA TextSuffix ==
  ASSUME NEW R, NEW bl, Blocks(bl, R), NEW b \in 1 .. Len(bl), NEW w \in Walks(R), NEW text, text = TextOf(bl, w, b),
         NEW i \in 1 .. Len(text), ~(i <= LenOf(bl, b))
  PROVE  text[i] = Clear
<1>0. /\ StartOf(bl, b) \in 0 .. R /\ bl[b] \in 0 .. R /\ LenOf(bl, b) \in 0 .. R
      /\ StartOf(bl, b) + LenOf(bl, b) = bl[b] /\ R \in Nat
  BY BlockNumbers
<1>1. PICK m, n, l \in Nat : m = StartOf(bl, b) /\ n = bl[b] /\ l = LenOf(bl, b) /\ m + l = n /\ n <= R
  BY <1>0
<1>a. R \in Nat /\ m + l = n /\ n <= R
  BY <1>0, <1>1
<1>. DEFINE a == SubSeq(w.plain, m + 1, n)
            z == [k \in 1 .. Suffix |-> Clear]
<1>2. w.plain \in [1 .. R -> Chars]
  BY DEF Walks
<1>3. a \in Seq(Chars) /\ Len(a) = l
  <2>1. m + 1 \in Int /\ n \in Int /\ \A j \in m + 1 .. n : w.plain[j] \in Chars
    BY <1>2, <1>a
  <2>2. a \in Seq(Chars) /\ Len(a) = (IF m + 1 <= n THEN n - (m + 1) + 1 ELSE 0)
    BY <2>1, SubSeqProperties
  <2>. QED BY <1>a, <2>2
<1>4. z \in Seq(Chars) /\ Len(z) = Suffix /\ Suffix \in Nat /\ \A k \in 1 .. Suffix : z[k] = Clear
  <2>1. Suffix \in Nat
    BY SuffixAssumption
  <2>. QED BY <2>1, SomeChars
<1>. HIDE DEF a, z
<1>5. text = a \o z
  BY <1>1 DEF TextOf, a, z
<1>6. /\ Len(a \o z) = Len(a) + Len(z)
      /\ \A k \in 1 .. Len(a) + Len(z) : (a \o z)[k] = IF k <= Len(a) THEN a[k] ELSE z[k - Len(a)]
  BY <1>3, <1>4, ConcatProperties
<1>7. Len(text) = l + Suffix /\ \A k \in 1 .. l + Suffix : text[k] = IF k <= l THEN a[k] ELSE z[k - l]
  BY <1>3, <1>4, <1>5, <1>6
<1>8. i \in 1 .. l + Suffix /\ ~(i <= l) /\ i - l \in 1 .. Suffix
  BY <1>1, <1>4, <1>7, SMTT(40)
<1>9. text[i] = z[i - l]
  BY <1>7, <1>8
<1>. QED BY <1>4, <1>8, <1>9

(* byte y of a record is one of those the TOPRF is of *)
LEMMA HashedInText ==
  ASSUME NEW R, NEW bl, Blocks(bl, R), NEW w \in Walks(R), InPlace(bl, R, w), NEW b \in 1 .. Len(bl),
         NEW ts, ts = ToprfsIn(w, b), NEW text, text = TextOf(bl, w, b), NEW k \in DOMAIN ts,
         NEW y \in 1 .. Len(text), ts[k].fromIndex < y, y <= ts[k].fromIndex + ts[k].length
  PROVE  /\ text[y] = Nullifier(ts[k].text, y - 1 - ts[k].fromIndex)
         /\ Holds(ToprfSlice(ts[k], Len(text)), y - 1)
<1>. DEFINE t == ts[k]
<1>0. /\ Len(text) \in Nat /\ LenOf(bl, b) \in 0 .. Len(text)
      /\ \A i \in 1 .. LenOf(bl, b) : StartOf(bl, b) + i \in 1 .. R /\ text[i] = w.plain[StartOf(bl, b) + i]
  BY TextFacts
<1>1. /\ k \in DOMAIN w.toprfs /\ t = w.toprfs[k] /\ t.fromIndex \in Nat /\ t.length \in Nat \ {0} /\ t.text \in Nat
      /\ t.text = StartOf(bl, b) + t.fromIndex /\ t.fromIndex + t.length <= LenOf(bl, b) /\ Fits(t)
  BY ToprfsInBlock
<1>2. PICK s, f, l, n \in Nat : /\ s = StartOf(bl, b) /\ f = t.fromIndex /\ l = t.length /\ n = LenOf(bl, b)
                                /\ t.text = s + f /\ f + l <= n /\ n <= Len(text)
  <2>1. StartOf(bl, b) \in 0 .. R /\ R \in Nat
    BY BlockNumbers
  <2>. QED BY <1>0, <1>1, <2>1, SMTT(40)
<1>3. f < y /\ y <= f + l /\ y \in 1 .. n
  BY <1>2
<1>4. s + y \in 1 .. R /\ text[y] = w.plain[s + y]
  BY <1>0, <1>2, <1>3
<1>5. InHash(t, s + y)
  <2>1. s + f < s + y /\ s + y <= s + f + l
    BY <1>3
  <2>. QED BY <1>2, <2>1 DEF InHash
<1>. HIDE DEF t
<1>6. w.plain[s + y] = Nullifier(t.text, (s + y) - 1 - t.text)
  BY <1>1, <1>4, <1>5 DEF InPlace
<1>7. (s + y) - 1 - t.text = y - 1 - t.fromIndex
  BY <1>2, <1>3
<1>8. Holds(ToprfSlice(t, Len(text)), y - 1)
  <2>1. PICK o \in Nat : o = getIdealOffsetForToprfBlock(t) /\ o <= f
    <3>1. getIdealOffsetForToprfBlock(t) \in 0 .. t.fromIndex
      BY <1>1, OffsetFacts
    <3>. QED BY <1>2, <3>1
  <2>2. ToprfSlice(t, Len(text)).fromIndex = o /\ ToprfSlice(t, Len(text)).toIndex = Least(o + ChunkSize, Len(text))
    BY <2>1 DEF ToprfSlice
  <2>3. Least(o + ChunkSize, Len(text)) \in Nat
    BY <1>0, Sizes DEF Least
  <2>4. t.fromIndex + t.length <= Len(text)
    BY <1>2
  <2>5. t.fromIndex + t.length <= ToprfSlice(t, Len(text)).toIndex
    BY <1>0, <1>1, <2>4, HashInSlice
  <2>6. PICK e \in Nat : e = ToprfSlice(t, Len(text)).toIndex /\ f + l <= e
    BY <1>2, <2>2, <2>3, <2>5
  <2>7. o <= y - 1 /\ y - 1 < e
    BY <1>3, <2>1, <2>6
  <2>. QED BY <2>2, <2>6, <2>7 DEF Holds
<1>. QED BY <1>4, <1>6, <1>7, <1>8 DEF t

(* The other bytes of a record are clear or asterisks. *)
LEMMA OthersInText ==
  ASSUME NEW R, NEW bl, Blocks(bl, R), NEW w \in Walks(R), InPlace(bl, R, w), NEW b \in 1 .. Len(bl),
         NEW ts, ts = ToprfsIn(w, b), NEW text, text = TextOf(bl, w, b), NEW y \in 1 .. Len(text)
  PROVE  \/ text[y] \in {Clear, Star}
         \/ \E k \in DOMAIN ts : ts[k].fromIndex < y /\ y <= ts[k].fromIndex + ts[k].length
<1>0. /\ Len(text) \in Nat /\ LenOf(bl, b) \in 0 .. Len(text)
      /\ \A i \in 1 .. LenOf(bl, b) : StartOf(bl, b) + i \in 1 .. R /\ text[i] = w.plain[StartOf(bl, b) + i]
  BY TextFacts
<1>1. CASE ~(y <= LenOf(bl, b))
  BY <1>1, TextSuffix
<1>2. CASE y <= LenOf(bl, b)
  <2>1. PICK s, n, e \in Nat : s = StartOf(bl, b) /\ n = LenOf(bl, b) /\ e = bl[b] /\ s + n = e
    <3>1. /\ StartOf(bl, b) \in 0 .. R /\ R \in Nat /\ LenOf(bl, b) \in 0 .. R /\ bl[b] \in 0 .. R
          /\ StartOf(bl, b) + LenOf(bl, b) = bl[b]
      BY BlockNumbers
    <3>. QED BY <3>1
  <2>2. y \in 1 .. n
    BY <1>2, <2>1
  <2>3. s + y \in 1 .. R /\ text[y] = w.plain[s + y]
    BY <1>0, <2>1, <2>2
  <2>4. CASE w.plain[s + y] \in {Clear, Star}
    BY <2>3, <2>4
  <2>5. CASE \E k \in DOMAIN w.toprfs : InHash(w.toprfs[k], s + y)
    <3>1. PICK k \in DOMAIN w.toprfs : InHash(w.toprfs[k], s + y)
      BY <2>5
    <3>. DEFINE t == w.toprfs[k]
                a == t.block
    <3>2. t \in Toprf
      <4>1. w.toprfs \in Seq(Toprf)
        BY DEF Walks
      <4>. QED BY <4>1
    <3>3. PICK f, l, x \in Nat : f = t.fromIndex /\ l = t.length /\ x = t.text
      BY <3>2 DEF Toprf
    <3>4. a \in 1 .. Len(bl) /\ StartOf(bl, a) + f = x /\ f + l <= LenOf(bl, a)
      BY <3>3 DEF InPlace, ToprfInPlace
    <3>. HIDE DEF a
    <3>5. PICK sa, na, ea \in Nat : sa = StartOf(bl, a) /\ na = LenOf(bl, a) /\ ea = bl[a] /\ sa + na = ea
      <4>1. /\ StartOf(bl, a) \in 0 .. R /\ R \in Nat /\ LenOf(bl, a) \in 0 .. R /\ bl[a] \in 0 .. R
            /\ StartOf(bl, a) + LenOf(bl, a) = bl[a]
        BY <3>4, BlockNumbers
      <4>. QED BY <4>1
    <3>6. x < s + y /\ s + y <= x + l
      BY <3>1, <3>3 DEF InHash
    <3>7. sa + f = x /\ f + l <= na
      BY <3>4, <3>5
    <3>8. PICK c \in Nat : c = s + y - 1
      BY <2>2
    <3>9. sa <= c /\ c < ea /\ s <= c /\ c < e
      <4>1. s + n = e /\ sa + na = ea
        BY <2>1, <3>5
      <4>. QED BY <2>2, <3>6, <3>7, <3>8, <4>1
    <3>10. a = b
      BY <2>1, <3>4, <3>5, <3>9, BlockUnique
    <3>11. k \in DOMAIN ts /\ ts[k] = t
      BY <3>10 DEF ToprfsIn, a
    <3>12. sa = s
      BY <2>1, <3>5, <3>10
    <3>13. f < y /\ y <= f + l
      BY <2>2, <3>6, <3>7, <3>12
    <3>. QED BY <3>3, <3>11, <3>13
  <2>. QED BY <2>3, <2>4, <2>5 DEF InPlace
<1>. QED BY <1>1, <1>2

(* The attestor takes the redacted plaintexts of the proofs. *)
LEMMA InPlaceCongruent ==
  ASSUME NEW R, NEW bl, Blocks(bl, R), NEW w \in Walks(R), InPlace(bl, R, w), NEW b \in 1 .. Len(bl),
         NEW ts, ts = ToprfsIn(w, b), NEW text, text = TextOf(bl, w, b), NEW p \in Proofs(text, ts)
  PROVE  Congruent(p)
<1>. DEFINE S == Done(ts, Len(text)) \cup Rest(Done(ts, Len(text)), Len(text))
<1>0. text \in Seq(Chars) /\ Len(text) \in Nat /\ LenOf(bl, b) \in 0 .. Len(text) /\ Placed(ts)
  BY TextFacts, ToprfsPlaced
<1>1. ~CannotProve(ts, Len(text))
  BY InPlaceProvable
<1>2. p \in All(text, ts)
  BY ProofsAreOfAll
<1>3. /\ Done(ts, Len(text)) \in SUBSET Slices(Len(text)) /\ Apart(Done(ts, Len(text)))
      /\ \A i, j \in DOMAIN ts : i # j => ToprfSlice(ts[i], Len(text)) # ToprfSlice(ts[j], Len(text))
  BY <1>0, <1>1, ToprfSlices
<1>4. /\ Rest(Done(ts, Len(text)), Len(text)) \subseteq Slices(Len(text)) /\ Apart(S)
      /\ Done(ts, Len(text)) \cap Rest(Done(ts, Len(text)), Len(text)) = {}
  BY <1>0, <1>3, SlicesTile
<1>5. \A k \in DOMAIN ts : ToprfSlice(ts[k], Len(text)) \in Done(ts, Len(text))
  BY DEF Done
<1>6. ASSUME NEW s \in S, NEW z \in S, NEW y \in Int, Holds(s, y), Holds(z, y) PROVE s = z
  <2>1. s \in Slices(Len(text)) /\ z \in Slices(Len(text))
    BY <1>3, <1>4
  <2>2. s.fromIndex \in Int /\ s.toIndex \in Int /\ z.fromIndex \in Int /\ z.toIndex \in Int
    BY <1>0, <2>1, SliceFields
  <2>3. Overlap(s, z)
    BY <1>6, <2>2 DEF Holds, Overlap
  <2>. QED BY <1>4, <2>3 DEF Apart
<1>. HIDE DEF S
<1>7. ASSUME NEW s \in S, OfSlice(text, p, s), NEW i \in DOMAIN p.redacted
      PROVE  \E y \in 1 .. Len(text) : y = s.fromIndex + i /\ p.redacted[i] = text[y] /\ Holds(s, y - 1) /\ i \in Nat
  <2>1. s \in Slices(Len(text))
    BY <1>3, <1>4 DEF S
  <2>2. PICK a, e \in Nat : a = s.fromIndex /\ e = s.toIndex /\ a < e /\ e <= Len(text)
    <3>1. s.fromIndex \in 0 .. Len(text) /\ s.toIndex \in 0 .. Len(text) /\ s.fromIndex < s.toIndex
      BY <1>0, <2>1, SliceFields
    <3>. QED BY <1>0, <3>1
  <2>3. p.redacted = SubSeq(text, a + 1, e)
    BY <1>7, <2>2 DEF OfSlice
  <2>4. a + 1 \in Int /\ e \in Int /\ \A j \in a + 1 .. e : text[j] \in Chars
    BY <1>0, <2>2
  <2>. DEFINE c == SubSeq(text, a + 1, e)
  <2>5. /\ c \in Seq(Chars) /\ Len(c) = (IF a + 1 <= e THEN e - (a + 1) + 1 ELSE 0)
        /\ \A j \in 1 .. e - (a + 1) + 1 : c[j] = text[(a + 1) + j - 1]
    BY <2>4, SubSeqProperties
  <2>. HIDE DEF c
  <2>6. Len(c) = e - a
    BY <2>2, <2>5
  <2>7. i \in 1 .. e - a /\ i \in Nat
    BY <2>2, <2>3, <2>5, <2>6, SMTT(40) DEF c
  <2>8. i \in 1 .. e - (a + 1) + 1 /\ (a + 1) + i - 1 = a + i
    BY <2>2, <2>7
  <2>9. p.redacted[i] = text[a + i]
    BY <2>3, <2>5, <2>8 DEF c
  <2>10. a + i \in 1 .. Len(text) /\ a <= (a + i) - 1 /\ (a + i) - 1 < e
    BY <1>0, <2>2, <2>7
  <2>11. Holds(s, (a + i) - 1)
    BY <2>2, <2>10 DEF Holds
  <2>. QED BY <2>2, <2>7, <2>9, <2>10, <2>11
<1>8. ASSUME NEW m \in DOMAIN ts, p = ToprfProof(text, ts[m]) PROVE Congruent(p)
  <2>. DEFINE t == ts[m]
              s == ToprfSlice(t, Len(text))
  <2>1. s \in S /\ OfSlice(text, p, s)
    BY <1>5, <1>8 DEF S, OfSlice, ToprfProof, Proof
  <2>2. p.toprf = [pos |-> t.fromIndex - s.fromIndex, length |-> t.length, text |-> t.text]
    BY <1>8 DEF ToprfProof, Proof
  <2>3. p.toprf.pos = t.fromIndex - s.fromIndex /\ p.toprf.length = t.length /\ p.toprf.text = t.text
    BY <2>2
  <2>4. PICK f, l, a \in Nat : f = t.fromIndex /\ l = t.length /\ a = s.fromIndex
    <3>1. t.fromIndex \in Nat /\ t.length \in Nat
      BY <1>0 DEF Placed
    <3>2. s.fromIndex \in 0 .. Len(text)
      BY <1>0, <1>3, <1>5, SliceFields
    <3>. QED BY <1>0, <3>1, <3>2
  <2>. HIDE DEF s
  <2>5. ASSUME NEW i \in DOMAIN p.redacted
        PROVE  IF i > p.toprf.pos /\ i <= p.toprf.pos + p.toprf.length
               THEN p.redacted[i] = Nullifier(p.toprf.text, i - p.toprf.pos - 1)
               ELSE p.redacted[i] \in {Clear, Star}
    <3>1. PICK y \in 1 .. Len(text) : y = a + i /\ p.redacted[i] = text[y] /\ Holds(s, y - 1) /\ i \in Nat
      BY <1>7, <2>1, <2>4
    <3>a. p.toprf.pos = f - a /\ p.toprf.length = l /\ y = a + i /\ i \in Nat /\ t.fromIndex = f
      BY <2>3, <2>4, <3>1
    <3>b. (i > f - a /\ i <= (f - a) + l <=> f < y /\ y <= f + l) /\ y - 1 - f = i - (f - a) - 1
      BY <3>a, SMTT(40)
    <3>2. i > p.toprf.pos /\ i <= p.toprf.pos + p.toprf.length <=> f < y /\ y <= f + l
      BY <3>a, <3>b, Zenon
    <3>3. CASE f < y /\ y <= f + l
      <4>0. ts[m].fromIndex < y /\ y <= ts[m].fromIndex + ts[m].length
        BY <2>4, <3>3
      <4>1. text[y] = Nullifier(ts[m].text, y - 1 - ts[m].fromIndex)
        BY <4>0, HashedInText
      <4>2. y - 1 - t.fromIndex = i - p.toprf.pos - 1
        BY <3>a, <3>b, Zenon
      <4>. QED BY <2>3, <3>1, <3>2, <3>3, <4>1, <4>2
    <3>4. CASE ~(f < y /\ y <= f + l)
      <4>1. text[y] \in {Clear, Star}
        <5>1. SUFFICES ASSUME text[y] \notin {Clear, Star} PROVE FALSE
          OBVIOUS
        <5>2. PICK k \in DOMAIN ts : ts[k].fromIndex < y /\ y <= ts[k].fromIndex + ts[k].length
          BY <5>1, OthersInText
        <5>3. k # m
          BY <2>4, <3>4, <5>2
        <5>4. Holds(ToprfSlice(ts[k], Len(text)), y - 1)
          BY <5>2, HashedInText
        <5>5. ToprfSlice(ts[k], Len(text)) \in S
          BY <1>5 DEF S
        <5>6. ToprfSlice(ts[k], Len(text)) = s
          BY <1>6, <2>1, <3>1, <5>4, <5>5
        <5>. QED BY <1>3, <5>3, <5>6 DEF s
      <4>. QED BY <3>1, <3>2, <3>4, <4>1
    <3>. QED BY <3>3, <3>4
  <2>. QED BY <2>5 DEF Congruent
<1>9. ASSUME NEW s \in Rest(Done(ts, Len(text)), Len(text)), p = Proof(text, s, NoToprf) PROVE Congruent(p)
  <2>1. s \in S /\ OfSlice(text, p, s)
    BY <1>9 DEF S, OfSlice, Proof
  <2>2. p.toprf.pos = 0 /\ p.toprf.length = 0
    BY <1>9 DEF Proof, NoToprf
  <2>3. ASSUME NEW i \in DOMAIN p.redacted
        PROVE  IF i > p.toprf.pos /\ i <= p.toprf.pos + p.toprf.length
               THEN p.redacted[i] = Nullifier(p.toprf.text, i - p.toprf.pos - 1)
               ELSE p.redacted[i] \in {Clear, Star}
    <3>1. PICK y \in 1 .. Len(text) : p.redacted[i] = text[y] /\ Holds(s, y - 1) /\ i \in Nat
      BY <1>7, <2>1
    <3>2. ~(i > p.toprf.pos /\ i <= p.toprf.pos + p.toprf.length)
      BY <2>2, <3>1
    <3>3. text[y] \in {Clear, Star}
      <4>1. SUFFICES ASSUME text[y] \notin {Clear, Star} PROVE FALSE
        OBVIOUS
      <4>2. PICK k \in DOMAIN ts : ts[k].fromIndex < y /\ y <= ts[k].fromIndex + ts[k].length
        BY <4>1, OthersInText
      <4>3. Holds(ToprfSlice(ts[k], Len(text)), y - 1)
        BY <4>2, HashedInText
      <4>4. ToprfSlice(ts[k], Len(text)) \in S
        BY <1>5 DEF S
      <4>5. ToprfSlice(ts[k], Len(text)) = s
        BY <1>6, <2>1, <3>1, <4>3, <4>4
      <4>. QED BY <1>4, <1>5, <1>9, <4>5
    <3>. QED BY <3>1, <3>2, <3>3
  <2>. QED BY <2>3 DEF Congruent
<1>. QED BY <1>2, <1>8, <1>9 DEF All

(* When the TOPRF of every hashed reveal was noted in a block, none of them *)
(* ends where the response does: the slice behind it is redacted first, and *)
(* the cursor is then behind the last block.                                *)
LEMMA NoneAtEndNoted ==
  ASSUME NEW r, NEW R, NEW N, NEW ms, NEW w, NEW bl, Asked(r, R, N, ms), ~OutOf(bl, w),
         RedactedAs(w, getResponseRedactions(ms), Len(getResponseRedactions(ms)), R, bl)
  PROVE  NoneAtEnd(ms, R)
<1>. DEFINE g == getResponseRedactions(ms)
            s == Reveals(ms)
            L == Len(s)
            e == Slice(R, R, No, 0)
<1>0. /\ R \in Nat /\ L \in Nat /\ ByEnd(s, R) /\ NotedAs(w, g, Len(g), R, bl) /\ Received = R
  BY AskedNumbers DEF Asked, RedactedAs
<1>1. SUFFICES ASSUME NEW x \in RevealsOf(ms), x.hash, ~(x.toIndex < R) PROVE FALSE
  BY DEF NoneAtEnd
<1>2. x.toIndex = R
  <2>1. x.toIndex \in 0 .. R
    BY RevealNumbers
  <2>. QED BY <1>0, <1>1, <2>1
<1>3. PICK j \in 1 .. Len(ms) : x = getReveal(ms[j], j) /\ x.place = j
  BY <1>1, RevealKinds
<1>4. PICK i \in 1 .. L : s[i] = x
  BY RevealsSorted
<1>5. L \in 1 .. L /\ s[L].toIndex = R
  <2>1. L \in 1 .. L /\ (i = L \/ i < L)
    BY <1>0, <1>4
  <2>2. s[L].toIndex \in 0 .. R /\ s[i].toIndex = R
    <3>1. s[L] \in SliceSet(R)
      BY <1>0, <2>1 DEF ByEnd
    <3>. QED BY <1>0, <1>2, <1>4, <3>1, SliceSetFields
  <2>3. i < L => s[i].toIndex <= s[L].toIndex
    BY <1>0, <1>4, <2>1 DEF ByEnd
  <2>. QED BY <1>0, <2>1, <2>2, <2>3
<1>6. e \in RedactionSet(ms)
  <2>1. L + 1 \in 1 .. L + 1 /\ L + 1 # 1 /\ (L + 1) - 1 = L /\ L + 1 > L
    BY <1>5
  <2>2. GapStart(s, L + 1) = R /\ GapEnd(s, L + 1) = R
    BY <1>0, <1>5, <2>1 DEF GapStart, GapEnd
  <2>3. Slice(GapStart(s, L + 1), GapEnd(s, L + 1), No, 0) \in Gaps(s)
    BY <2>1, GapIn
  <2>4. e \in Gaps(s)
    BY <2>2, <2>3
  <2>. QED BY <2>4 DEF RedactionSet, Reveals
<1>7. x \in RedactionSet(ms)
  BY <1>1 DEF RedactionSet
<1>8. e.toIndex = R /\ e.place = 0
  BY DEF Slice
<1>9. /\ Len(g) \in Nat
      /\ \A y \in RedactionSet(ms) : \E k \in 1 .. Len(g) : g[k] = y
      /\ \A h, k \in 1 .. Len(g) : h < k => Before(g[h], g[k])
      /\ Listed(g, R)
  BY RedactionOrder
<1>10. PICK m, n \in 1 .. Len(g) : g[m] = e /\ g[n] = x
  BY <1>6, <1>7, <1>9
<1>. HIDE DEF g, s, L, e
<1>11. ~Before(x, e) /\ e # x
  <2>1. Len(ms) \in Nat
    BY AskedNumbers
  <2>2. j \in Nat /\ j # 0 /\ ~(j < 0)
    BY <2>1
  <2>3. ~(R < R)
    BY <1>0
  <2>. QED BY <1>2, <1>3, <1>8, <2>2, <2>3 DEF Before
<1>12. m < n
  <2>1. ~(n < m) /\ m # n
    BY <1>9, <1>10, <1>11
  <2>. QED BY <1>9, <2>1
<1>13. CursorAfter(g, n - 1) \in 0 .. R /\ OverAt(g, n) \in 0 .. R /\ OverAt(g, n) >= CursorAfter(g, n - 1)
  BY <1>0, <1>9, CursorNumbers
<1>14. CursorAfter(g, n - 1) = R
  <2>1. n - 1 \in 1 .. Len(g) /\ n - 1 # 0 /\ (m = n - 1 \/ m < n - 1)
    BY <1>9, <1>12
  <2>2. g[m].toIndex <= g[n - 1].toIndex \/ m = n - 1
    BY <1>9, <2>1 DEF Listed
  <2>3. g[n - 1].toIndex = CursorAfter(g, n - 1)
    BY <2>1 DEF CursorAfter
  <2>. QED BY <1>0, <1>8, <1>10, <1>13, <2>2, <2>3
<1>15. ~(OverAt(g, n) < R)
  BY <1>0, <1>13, <1>14
<1>16. PICK k \in DOMAIN w.toprfs : NotedAt(w.toprfs[k], OverAt(g, n), R, bl, g[n])
  BY <1>0, <1>1, <1>10 DEF NotedAs
<1>17. w.toprfs[k].block \notin 1 .. Len(bl)
  BY <1>15, <1>16 DEF NotedAt
<1>. QED BY <1>17 DEF OutOf

(* The bytes selected, and those always shown, stay as they are; a nullifier *)
(* is written over those that are hashed.                                    *)
LEMMA WalkShows ==
  ASSUME NEW r, NEW R, NEW N, NEW ms, NEW w, NEW bl, Asked(r, R, N, ms), ~NestedAsked(ms),
         NoneAtEnd(ms, R),
         RedactedAs(w, getResponseRedactions(ms), Len(getResponseRedactions(ms)), R, bl)
  PROVE  ShowsSelected(r, R, bl, ms, w)
<1>0. /\ r \in Responses /\ R \in Nat /\ H(r) \in Nat /\ H(r) >= 5 /\ H(r) <= R /\ DOMAIN ms = 1 .. Len(ms)
      /\ Good(res, r, R, N)
  BY AskedNumbers DEF Asked
<1>1. SUFFICES ASSUME NEW p \in 1 .. R
               PROVE  /\ ShownAs(r, ms, p) /\ ~HashedAs(r, ms, p) => w.plain[p] = Clear
                      /\ HashedAs(r, ms, p) => w.plain[p] \notin {Clear, Star} \/ BadToprf(bl, w)
  BY DEF ShowsSelected
<1>2. PICK q \in 0 .. R - 1 : q + 1 = p
  <2>1. p - 1 \in 0 .. R - 1 /\ (p - 1) + 1 = p
    BY <1>0
  <2>. QED BY <2>1
<1>3. Walked(r, R, N, ms, w, bl, q) /\ q \in Nat
  BY <1>0, <1>2 DEF Walked
<1>4. ASSUME HashedAs(r, ms, p) PROVE w.plain[p] \notin {Clear, Star} \/ BadToprf(bl, w)
  <2>1. PICK j \in 1 .. Len(ms) : ms[j].hash /\ ByteIn(r, ms[j], p)
    BY <1>0, <1>4 DEF HashedAs
  <2>2. ByteIn(r, ms[j], q + 1)
    BY <1>2, <2>1
  <2>3. w.plain[q + 1] \notin {Clear, Star} \/ BadToprf(bl, w)
    BY <1>3, <2>1, <2>2, HashedNullified
  <2>. QED BY <1>2, <2>3
<1>5. ASSUME p \in ShownAnyway(r), ~HashedAs(r, ms, p) PROVE w.plain[p] = Clear
  <2>0. GoodHeader(res, r)
    BY <1>0 DEF Good
  <2>1. Len(HeaderOf(r)) = H(r)
    BY <1>0, HeaderBytes
  <2>2. q = 0 \/ (H(r) - 4 <= q /\ q < H(r)) \/ (r.date /\ q = 3)
    BY <1>0, <1>2, <1>5, <2>1, SMTT(40) DEF ShownAnyway
  <2>3. ASSUME NEW x, Fixed(r, x), x.fromIndex <= q, q < x.toIndex PROVE w.plain[p] = Clear
    <3>1. x \in RevealsOf(ms)
      BY <1>0, <2>0, <2>3, RevealIs
    <3>2. x.toIndex <= H(r) /\ x.toIndex \in Nat
      <4>1. x \in SliceSet(R) /\ x.toIndex <= H(r)
        BY <1>0, <2>3, FixedFields
      <4>. QED BY <1>0, <4>1, SliceSetFields
    <3>3. q < H(r)
      BY <1>0, <1>3, <2>3, <3>2
    <3>4. w.plain[q + 1] = Clear
      BY <1>2, <1>3, <1>5, <2>3, <3>1, <3>3, ShownStays
    <3>. QED BY <1>2, <3>4
  <2>4. CASE q = 0
    <3>. DEFINE x == Slice(0, 1, No, -3)
    <3>1. Fixed(r, x) /\ x.fromIndex = 0 /\ x.toIndex = 1
      BY DEF Fixed, Slice
    <3>. QED BY <2>3, <2>4, <3>1
  <2>5. CASE H(r) - 4 <= q /\ q < H(r)
    <3>. DEFINE x == Slice(H(r) - 4, H(r), No, -2)
    <3>1. Fixed(r, x) /\ x.fromIndex = H(r) - 4 /\ x.toIndex = H(r)
      BY DEF Fixed, Slice
    <3>. QED BY <2>3, <2>5, <3>1
  <2>6. CASE r.date /\ q = 3
    <3>. DEFINE x == Slice(3, 4, No, -1)
    <3>1. Fixed(r, x) /\ x.fromIndex = 3 /\ x.toIndex = 4
      BY <2>6 DEF Fixed, Slice
    <3>. QED BY <2>3, <2>6, <3>1
  <2>. QED BY <2>2, <2>4, <2>5, <2>6
<1>6. ASSUME NEW j \in 1 .. Len(ms), ByteIn(r, ms[j], p), ~HashedAs(r, ms, p) PROVE w.plain[p] = Clear
  <2>1. ByteIn(r, ms[j], q + 1) /\ ~HashedAs(r, ms, q + 1)
    BY <1>2, <1>6
  <2>2. getReveal(ms[j], j).fromIndex <= q /\ q < getReveal(ms[j], j).toIndex /\ InData(r, N, q)
    BY <1>3, <2>1, ByteRevealed
  <2>3. getReveal(ms[j], j) \in RevealsOf(ms)
    BY MatchReveal
  <2>4. w.plain[q + 1] = Clear
    BY <1>3, <2>1, <2>2, <2>3, ShownStays
  <2>. QED BY <1>2, <2>4
<1>. QED BY <1>0, <1>4, <1>5, <1>6 DEF ShownAs

(* A group that getResponseRedactions refuses to hash cannot be. *)
LEMMA SplitHashed ==
  ASSUME NEW r, NEW R, NEW N, NEW ms, Asked(r, R, N, ms), SplitGroup(ms), NEW bl
  PROVE  ~Hashable(r, bl, ms)
<1>0. /\ r \in Responses /\ R \in 0 .. Len(Stream(r)) /\ N \in 0 .. M(r) /\ Good(res, r, R, N) /\ DOMAIN ms = 1 .. Len(ms)
  BY DEF Asked
<1>1. PICK i \in 1 .. Len(ms) : ms[i].hash /\ getRedactionsForChunkHeaders(getReveal(ms[i], i)) # {}
  BY <1>0 DEF SplitGroup
<1>2. PICK x : x \in getRedactionsForChunkHeaders(getReveal(ms[i], i))
  BY <1>1
<1>3. /\ r.framing = "chunked"
      /\ \E c \in 2 .. N : DataAt(r, c) > getReveal(ms[i], i).fromIndex /\ DataAt(r, c) < getReveal(ms[i], i).toIndex
  BY <1>0, <1>2, HeaderIs
<1>4. PICK c \in 2 .. N : getReveal(ms[i], i).fromIndex < DataAt(r, c) /\ DataAt(r, c) < getReveal(ms[i], i).toIndex
  BY <1>3
<1>5. c \in 2 .. Len(r.ends) /\ ms[i].fromIndex <= BodyBefore(r, c) /\ BodyBefore(r, c) < ms[i].toIndex
  BY <1>3, <1>4, SplitMatch
<1>. QED BY <1>0, <1>1, <1>5 DEF Hashable, HashableAt

(* A good response that arrived whole is refused by getResponseRedactions    *)
(* only for that.                                                            *)
LEMMA RefusedGood ==
  ASSUME ParserInv, phase = "parsed", NEW ms \in Requests, Refused(ms), ms # None, Whole, response.status = 200,
         response.size > 0, NEW bl
  PROVE  ~Hashable(response, bl, ms)
<1>0. /\ response \in Responses /\ blocks \in Seq(0 .. Len(Stream(response)))
  BY DEF ParserInv, ReceivedInv
<1>1. ~res.threw /\ res.bodyStartIndex = BodyStart(response)
  BY ParserInv_Sent DEF ParsedAsSent
<1>2. res.bodyStartIndex # None
  <2>1. BodyStart(response) \in Int
    BY <1>0, HeaderBytes DEF BodyStart
  <2>. QED BY <1>1, <2>1, NoneAssumption
<1>3. PICK R \in 0 .. Len(Stream(response)) : R = Received
  BY <1>0, ReceivedInStream
<1>4. PICK x : Settled(x, response, R) /\ res = streamEnded(x)
  BY <1>3 DEF ParserInv, ReadInv
<1>5. PICK N \in 0 .. M(response) : Good(res, response, R, N)
  BY <1>0, <1>1, <1>2, <1>4, GoodParse
<1>6. ms \in Seq(Items(BLen(response, R, N)))
  <2>1. /\ BLen(response, R, N) \in 0 .. response.size /\ response.size \in Nat
        /\ Len(res.body) = BLen(response, R, N)
    BY <1>0, <1>5, GoodNumbers
  <2>2. BLen(response, R, N) \in Nat
    BY <2>1
  <2>. QED BY <2>1, <2>2, RequestItems
<1>7. Asked(response, R, N, ms)
  BY <1>0, <1>3, <1>5, <1>6 DEF Asked
<1>8. res.statusCode \div 100 = 2
  <2>1. res.statusCode = 200
    BY <1>5 DEF Good, GoodHeader
  <2>2. 200 \div 100 = 2
    OBVIOUS
  <2>. QED BY <2>1, <2>2
<1>9. SplitGroup(ms)
  BY <1>1, <1>2, <1>8 DEF Refused
<1>. QED BY <1>7, <1>9, SplitHashed

-----------------------------------------------------------------------------
(* The inductive invariant of the whole, and the theorems about what the    *)
(* attestor sees.                                                           *)

(* getBlocksToReveal makes such a walk. *)
LEMMA WalkOfRequest ==
  ASSUME response \in Responses, NEW R \in 0 .. Len(Stream(response)), Received = R, Blocks(blocks, R),
         NEW N \in 0 .. M(response), Good(res, response, R, N), NEW ms \in Seq(Items(BLen(response, R, N)))
  PROVE  WalkedAs(response, R, blocks, ms, Redacted(getResponseRedactions(ms)))
<1>. DEFINE g == getResponseRedactions(ms)
            w == Redacted(g)
<1>1. Listed(g, R) /\ R \in Nat
  BY RedactionsKeyed, GoodNumbers
<1>2. g \in Seq(Redactable(R))
  BY <1>1 DEF Listed
<1>3. w \in Walks(R)
  BY <1>1, <1>2, RedactedWalks
<1>4. ASSUME NoEmpty(blocks), ~NestedIn(response, ms), ~OutOf(blocks, w), NEW p \in 1 .. R, w.plain[p] = Clear
      PROVE  ShownAs(response, ms, p) \/ BadToprf(blocks, w)
  <2>1. RedactedAs(w, g, Len(g), R, blocks)
    BY <1>1, <1>4, RedactedIs
  <2>2. Asked(response, R, N, ms)
    BY DEF Asked
  <2>3. PICK q \in 0 .. R - 1 : q + 1 = p
    <3>1. p - 1 \in 0 .. R - 1 /\ (p - 1) + 1 = p
      BY <1>1
    <3>. QED BY <3>1
  <2>. HIDE DEF w, g
  <2>4. LeftClear(response, R, N, ms, w, blocks, q)
    <3>1. NoneAtEnd(ms, R)
      BY <1>4, <2>1, <2>2, NoneAtEndNoted DEF g
    <3>. QED BY <1>4, <2>1, <2>2, <2>3, <3>1 DEF LeftClear, g
  <2>. QED BY <1>4, <2>3, <2>4, ClearShown
<1>5. ASSUME NoEmpty(blocks), ~NestedAsked(ms)
      PROVE  /\ ~OutOf(blocks, w) => ShowsSelected(response, R, blocks, ms, w)
             /\ Hashable(response, blocks, ms) => InPlace(blocks, R, w)
  <2>1. RedactedAs(w, g, Len(g), R, blocks)
    BY <1>1, <1>5, RedactedIs
  <2>2. Asked(response, R, N, ms)
    BY DEF Asked
  <2>. HIDE DEF w
  <2>3. ASSUME ~OutOf(blocks, w) PROVE ShowsSelected(response, R, blocks, ms, w)
    <3>1. NoneAtEnd(ms, R)
      BY <2>1, <2>2, <2>3, NoneAtEndNoted
    <3>. QED BY <1>5, <2>1, <2>2, <3>1, WalkShows
  <2>4. Hashable(response, blocks, ms) => HashWalk(response, R, N, ms, w, blocks)
    BY <1>3, <1>5, <2>1, <2>2 DEF HashWalk
  <2>. QED BY <2>3, <2>4, WalkInPlace
<1>. HIDE DEF w, g
<1>. QED BY <1>3, <1>4, <1>5 DEF WalkedAs, w, g

-----------------------------------------------------------------------------

(* It holds before the first record. *)
LEMMA RevealInit_Inv == Init => RevealInv
<1>. SUFFICES ASSUME Init PROVE RevealInv
  OBVIOUS
<1>1. ParserInv
  BY ParserInit_Inv
<1>2. blocks = <<>> /\ phase = "receiving"
  BY DEF Init, ParserInit
<1>3. Received = 0
  BY <1>2 DEF Received
<1>4. Blocks(blocks, Received)
  BY <1>2, <1>3 DEF Blocks
<1>. QED BY <1>1, <1>2, <1>4 DEF RevealInv, BlocksInv, WalkInv, ProofInv, ViewInv, RefusedInv, Redacting, Proven

(* One more record. *)
LEMMA BlocksGrow ==
  ASSUME NEW R0, NEW bl, Blocks(bl, R0), R0 = IF bl = <<>> THEN 0 ELSE bl[Len(bl)], NEW R \in Nat, R0 <= R
  PROVE  Blocks(Append(bl, R), R)
<1>. DEFINE c == Append(bl, R)
<1>0. R0 \in Nat /\ bl \in Seq(0 .. R0) /\ Len(bl) \in Nat /\ \A i \in 1 .. Len(bl) : StartOf(bl, i) <= bl[i]
  BY DEF Blocks
<1>1. bl \in Seq(0 .. R)
  <2>1. \A i \in 1 .. Len(bl) : bl[i] \in 0 .. R
    BY <1>0
  <2>2. bl = [i \in 1 .. Len(bl) |-> bl[i]]
    BY <1>0
  <2>. QED BY <1>0, <2>1, <2>2
<1>2. /\ c \in Seq(0 .. R) /\ Len(c) = Len(bl) + 1 /\ c[Len(bl) + 1] = R
      /\ \A i \in 1 .. Len(bl) : c[i] = bl[i]
  BY <1>1, AppendProperties
<1>. HIDE DEF c
<1>3. ASSUME NEW i \in 1 .. Len(c) PROVE StartOf(c, i) <= c[i]
  <2>1. CASE i \in 1 .. Len(bl)
    <3>1. i # 1 => i - 1 \in 1 .. Len(bl)
      BY <1>0, <2>1
    <3>2. StartOf(c, i) = StartOf(bl, i)
      BY <1>2, <3>1 DEF StartOf
    <3>. QED BY <1>0, <1>2, <2>1, <3>2
  <2>2. CASE i = Len(bl) + 1
    <3>1. CASE Len(bl) = 0
      BY <1>2, <2>2, <3>1 DEF StartOf
    <3>2. CASE Len(bl) # 0
      <4>1. i # 1 /\ i - 1 = Len(bl) /\ Len(bl) \in 1 .. Len(bl) /\ bl # <<>>
        BY <1>0, <2>2, <3>2
      <4>2. StartOf(c, i) = R0
        BY <1>2, <4>1 DEF StartOf
      <4>. QED BY <1>2, <2>2, <4>2
    <3>. QED BY <3>1, <3>2
  <2>. QED BY <1>0, <1>2, <2>1, <2>2
<1>. QED BY <1>0, <1>2, <1>3 DEF Blocks, c

(* Receiving a record keeps the records in order. *)
LEMMA Blocks_Inv ==
  ASSUME RevealInv, ParserNext
  PROVE  BlocksInv'
<1>0. /\ response \in Responses /\ blocks \in Seq(0 .. Len(Stream(response))) /\ Blocks(blocks, Received)
  BY DEF RevealInv, BlocksInv, ParserInv, ReceivedInv
<1>1. Received \in 0 .. Len(Stream(response)) /\ Len(Stream(response)) \in Nat
  BY <1>0, ReceivedInStream
<1>2. ASSUME NEW n \in 0 .. Len(Stream(response)) - Received, OnMessage(n) PROVE BlocksInv'
  <2>1. PICK R0 \in Nat : R0 = Received
    BY <1>1
  <2>2. PICK R \in Nat : R = R0 + n
    BY <1>1, <2>1
  <2>3. blocks' = Append(blocks, R)
    BY <1>2, <2>1, <2>2 DEF OnMessage
  <2>4. R0 = IF blocks = <<>> THEN 0 ELSE blocks[Len(blocks)]
    BY <2>1 DEF Received
  <2>5. R0 <= R
    BY <1>1, <2>1, <2>2
  <2>6. Blocks(Append(blocks, R), R)
    BY <1>0, <2>1, <2>4, <2>5, BlocksGrow
  <2>7. Received' = R
    <3>1. /\ Len(blocks') = Len(blocks) + 1 /\ blocks'[Len(blocks')] = R /\ blocks' # <<>>
      <4>1. R \in 0 .. Len(Stream(response))
        BY <1>1, <2>1, <2>2
      <4>2. /\ Len(blocks') = Len(blocks) + 1 /\ blocks'[Len(blocks')] = R /\ blocks' \in Seq(0 .. Len(Stream(response)))
        BY <1>0, <2>3, <4>1, AppendProperties
      <4>. QED BY <1>0, <4>2
    <3>. QED BY <3>1 DEF Received
  <2>. QED BY <2>3, <2>6, <2>7 DEF BlocksInv
<1>3. ASSUME blocks' = blocks PROVE BlocksInv'
  <2>1. Received' = Received
    BY <1>3 DEF Received
  <2>. QED BY <1>0, <1>3, <2>1 DEF BlocksInv
<1>. QED BY <1>2, <1>3 DEF ParserNext, ResponseTimer, OnClose, Finish

(* The walk of the requests that were made of a parsed response. *)
LEMMA RequestWalked ==
  ASSUME RevealInv, phase = "parsed", NEW ms \in Requests, ms # None, ~res.threw, res.bodyStartIndex # None
  PROVE  WalkedAs(response, Received, blocks, ms, Redacted(getResponseRedactions(ms)))
<1>1. /\ response \in Responses /\ blocks \in Seq(0 .. Len(Stream(response))) /\ Blocks(blocks, Received)
  BY DEF RevealInv, BlocksInv, ParserInv, ReceivedInv
<1>2. PICK R \in 0 .. Len(Stream(response)) : R = Received
  BY <1>1, ReceivedInStream
<1>3. PICK x : Settled(x, response, R) /\ res = streamEnded(x)
  BY <1>2 DEF RevealInv, ParserInv, ReadInv
<1>4. PICK N \in 0 .. M(response) : Good(res, response, R, N)
  BY <1>1, <1>3, GoodParse
<1>5. BLen(response, R, N) \in Nat /\ Len(res.body) = BLen(response, R, N)
  <2>1. /\ BLen(response, R, N) \in 0 .. response.size /\ response.size \in Nat
        /\ Len(res.body) = BLen(response, R, N)
    BY <1>1, <1>4, GoodNumbers
  <2>. QED BY <2>1
<1>6. ms \in Seq(Items(BLen(response, R, N)))
  BY <1>5, RequestItems
<1>7. WalkedAs(response, R, blocks, ms, Redacted(getResponseRedactions(ms)))
  BY <1>1, <1>2, <1>4, <1>6, WalkOfRequest
<1>. QED BY <1>2, <1>7

(* getBlocksToReveal preserves the invariant. *)
LEMMA GetBlocks_Inv ==
  ASSUME RevealInv, NEW ms \in Requests, GetBlocksToReveal(ms)
  PROVE  WalkInv' /\ ProofInv' /\ ViewInv'
<1>0. phase = "parsed" /\ matches' = ms /\ UNCHANGED <<response, blocks, res>> /\ Received' = Received
  BY DEF GetBlocksToReveal, Received
<1>1. CASE phase' \notin {"redacted", "accepted"}
  BY <1>0, <1>1 DEF GetBlocksToReveal, WalkInv, ProofInv, ViewInv, Redacting, Proven
<1>2. CASE phase' = "accepted"
  <2>1. ms = None
    BY <1>2 DEF GetBlocksToReveal
  <2>. QED BY <1>0, <1>2, <2>1 DEF WalkInv, ProofInv, ViewInv, Redacting, Proven
<1>3. CASE phase' = "redacted"
  <2>1. /\ ~Refused(ms) /\ ms # None /\ walk' = Redacted(getResponseRedactions(ms))
        /\ ~OutOfBlocks(Redacted(getResponseRedactions(ms)))
    BY <1>3 DEF GetBlocksToReveal
  <2>2. ~res.threw /\ res.bodyStartIndex # None
    BY <2>1 DEF Refused
  <2>9. WalkedAs(response, Received, blocks, ms, Redacted(getResponseRedactions(ms)))
    BY <1>0, <2>1, <2>2, RequestWalked
  <2>10. WalkedAs(response', Received', blocks', matches', walk')
    BY <1>0, <2>1, <2>9
  <2>11. ~OutOf(blocks', walk')
    <3>1. DOMAIN blocks = 1 .. Len(blocks)
      BY DEF RevealInv, BlocksInv, Blocks
    <3>. QED BY <1>0, <2>1, <3>1 DEF OutOf, OutOfBlocks
  <2>. QED BY <1>0, <1>3, <2>1, <2>10, <2>11 DEF WalkInv, ProofInv, ViewInv, Redacting, Proven
<1>. QED BY <1>1, <1>2, <1>3

(* So does generateProofs. *)
LEMMA GenerateProofs_Inv ==
  ASSUME RevealInv, GenerateProofs
  PROVE  WalkInv' /\ ProofInv' /\ ViewInv'
<1>0. /\ phase = "redacted" /\ UNCHANGED <<response, blocks, matches, walk>> /\ Received' = Received
      /\ Blocks(blocks, Received)
  BY DEF GenerateProofs, Received, RevealInv, BlocksInv
<1>1. CASE phase' # "proved"
  BY <1>0, <1>1 DEF GenerateProofs, WalkInv, ProofInv, ViewInv, Redacting, Proven
<1>2. CASE phase' = "proved"
  <2>1. /\ \A b \in Shown : /\ ~CannotProve(ToprfsOf(b), Len(RedactedPlaintext(b)))
                            /\ \A p \in ProofsOf(b) : Provable(BlockStart(b), p)
        /\ packets' = [b \in DOMAIN blocks |-> IF b \in Shown THEN ProofsOf(b) ELSE {}]
    BY <1>2 DEF GenerateProofs
  <2>2. ASSUME NEW b \in 1 .. Len(blocks) PROVE ProvedBlock(blocks, walk, packets', b)
    <3>1. b \in DOMAIN blocks /\ (b \in Shown <=> RevealedIn(blocks, walk, b))
      BY <1>0, BlocksAre DEF Shown, Blocks
    <3>2. CASE b \in Shown
      <4>1. /\ packets'[b] = ProofsOf(b) /\ ~CannotProve(ToprfsOf(b), Len(RedactedPlaintext(b)))
            /\ \A p \in ProofsOf(b) : Provable(BlockStart(b), p)
        BY <2>1, <3>1, <3>2
      <4>. QED BY <3>1, <3>2, <4>1, BlocksAre DEF ProvedBlock
    <3>3. CASE b \notin Shown
      <4>1. packets'[b] = {}
        BY <2>1, <3>1, <3>3
      <4>. QED BY <3>1, <3>3, <4>1 DEF ProvedBlock
    <3>. QED BY <3>2, <3>3
  <2>3. ProvedAs(blocks', walk', packets')
    BY <1>0, <2>2 DEF ProvedAs
  <2>. QED BY <1>0, <1>2, <2>3 DEF RevealInv, WalkInv, ProofInv, ViewInv, Redacting, Proven
<1>. QED BY <1>1, <1>2

(* So does decryptTranscript: the view is put together from the proofs of   *)
(* each block.                                                              *)
LEMMA Decrypt_Inv ==
  ASSUME RevealInv, DecryptTranscript
  PROVE  WalkInv' /\ ProofInv' /\ ViewInv'
<1>0. /\ phase = "proved" /\ UNCHANGED <<response, blocks, matches, walk, packets>> /\ Received' = Received
      /\ Blocks(blocks, Received) /\ matches # None /\ WalkedAs(response, Received, blocks, matches, walk)
      /\ ~OutOf(blocks, walk)
      /\ ProvedAs(blocks, walk, packets)
  BY DEF DecryptTranscript, Received, RevealInv, BlocksInv, WalkInv, ProofInv, Redacting, Proven
<1>1. CASE phase' # "accepted"
  BY <1>0, <1>1 DEF DecryptTranscript, WalkInv, ProofInv, ViewInv, Redacting, Proven
<1>2. CASE phase' = "accepted"
  <2>. DEFINE D(p) == Decrypted(packets[BlockOf(p)], BlockLen(BlockOf(p)))[p - BlockStart(BlockOf(p))]
  <2>1. view' = [p \in 1 .. Received |-> D(p)]
    BY <1>2 DEF DecryptTranscript
  <2>2. walk \in Walks(Received) /\ Received \in Nat
    BY <1>0 DEF WalkedAs, Blocks
  <2>3. ASSUME NEW p \in 1 .. Received PROVE D(p) = walk.plain[p]
    <3>. DEFINE b == BlockOf(p)
    <3>1. b \in DOMAIN blocks /\ BlockStart(b) < p /\ p <= blocks[b]
      <4>1. DOMAIN blocks = 1 .. Len(blocks)
        BY <1>0 DEF Blocks
      <4>2. \E x \in DOMAIN blocks : BlockStart(x) < p /\ p <= blocks[x]
        BY <1>0, <4>1, BlockHolds, BlocksAre
      <4>. QED BY <4>2 DEF BlockOf
    <3>. HIDE DEF b
    <3>2. /\ b \in 1 .. Len(blocks) /\ StartOf(blocks, b) < p /\ p <= blocks[b]
          /\ BlockLen(b) = LenOf(blocks, b) /\ BlockStart(b) = StartOf(blocks, b)
      BY <1>0, <3>1, BlocksAre DEF Blocks
    <3>3. /\ StartOf(blocks, b) \in 0 .. Received /\ blocks[b] \in 0 .. Received
          /\ LenOf(blocks, b) \in 0 .. Received /\ StartOf(blocks, b) + LenOf(blocks, b) = blocks[b]
      BY <1>0, <3>2, BlockNumbers
    <3>4. PICK s, l, e \in Nat : s = StartOf(blocks, b) /\ l = LenOf(blocks, b) /\ e = blocks[b]
      BY <2>2, <3>3
    <3>5. p - s \in 1 .. l /\ s + (p - s) = p
      BY <2>2, <3>2, <3>3, <3>4, SMTT(40)
    <3>6. Decrypted(packets[b], l)[p - s] = walk.plain[s + (p - s)]
      BY <1>0, <2>2, <3>2, <3>4, <3>5, BlockSeen DEF ProvedAs
    <3>. QED BY <3>2, <3>4, <3>5, <3>6 DEF b
  <2>. HIDE DEF D
  <2>4. walk.plain = [p \in 1 .. Received |-> walk.plain[p]]
    BY <2>2 DEF Walks
  <2>5. view' = walk.plain
    BY <2>1, <2>3, <2>4
  <2>. QED BY <1>0, <1>2, <2>5 DEF WalkInv, ProofInv, ViewInv, Redacting, Proven
<1>. QED BY <1>1, <1>2

(* getBlocksToReveal refuses a good response only because of bytes that      *)
(* cannot be hashed.                                                         *)
LEMMA GetBlocks_Refused ==
  ASSUME RevealInv, NEW ms \in Requests, GetBlocksToReveal(ms)
  PROVE  RefusedInv'
<1>. DEFINE w == Redacted(getResponseRedactions(ms))
<1>0. phase = "parsed" /\ matches' = ms /\ UNCHANGED <<response, blocks>> /\ (Whole' <=> Whole) /\ ParserInv
  BY DEF GetBlocksToReveal, Received, Whole, RevealInv
<1>1. SUFFICES ASSUME phase' = "refused", ms # None, Whole, response.status = 200, response.size > 0,
                      NoEmpty(blocks), ~NestedAsked(ms), Hashable(response, blocks, ms)
               PROVE  FALSE
  BY <1>0 DEF RefusedInv
<1>2. ~Refused(ms)
  BY <1>0, <1>1, RefusedGood
<1>3. OutOfBlocks(w)
  BY <1>1, <1>2 DEF GetBlocksToReveal
<1>4. ~res.threw /\ res.bodyStartIndex # None
  BY <1>1, <1>2 DEF Refused
<1>5. WalkedAs(response, Received, blocks, ms, w)
  BY <1>0, <1>1, <1>4, RequestWalked
<1>6. InPlace(blocks, Received, w)
  BY <1>1, <1>5 DEF WalkedAs
<1>7. DOMAIN blocks = 1 .. Len(blocks)
  BY DEF RevealInv, BlocksInv, Blocks
<1>. HIDE DEF w
<1>8. PICK k \in DOMAIN w.toprfs : w.toprfs[k].block \notin DOMAIN blocks
  BY <1>3 DEF OutOfBlocks
<1>9. ToprfInPlace(blocks, w.toprfs[k])
  BY <1>6 DEF InPlace
<1>. QED BY <1>7, <1>8, <1>9 DEF ToprfInPlace

(* So does generateProofs: when all nullifiers are in place it can prove     *)
(* every record.                                                             *)
LEMMA GenerateProofs_Refused ==
  ASSUME RevealInv, GenerateProofs
  PROVE  RefusedInv'
<1>0. /\ phase = "redacted" /\ UNCHANGED <<response, blocks, matches>>
      /\ Blocks(blocks, Received) /\ WalkedAs(response, Received, blocks, matches, walk)
  BY DEF GenerateProofs, RevealInv, BlocksInv, WalkInv, Redacting
<1>1. SUFFICES ASSUME phase' = "refused", NoEmpty(blocks), ~NestedAsked(matches), Hashable(response, blocks, matches)
               PROVE  FALSE
  BY <1>0 DEF RefusedInv
<1>2. InPlace(blocks, Received, walk) /\ walk \in Walks(Received)
  BY <1>0, <1>1 DEF WalkedAs
<1>3. PICK b \in Shown : \/ CannotProve(ToprfsOf(b), Len(RedactedPlaintext(b)))
                        \/ \E p \in ProofsOf(b) : ~Provable(BlockStart(b), p)
  BY <1>1 DEF GenerateProofs
<1>4. b \in 1 .. Len(blocks)
  BY <1>0, <1>3 DEF Shown, Blocks
<1>. DEFINE ts == ToprfsIn(walk, b)
            text == TextOf(blocks, walk, b)
<1>5. /\ ToprfsOf(b) = ts /\ RedactedPlaintext(b) = text /\ ProofsOf(b) = Proofs(text, ts)
      /\ BlockStart(b) = StartOf(blocks, b)
  BY BlocksAre
<1>6. ~CannotProve(ts, Len(text)) /\ \A p \in Proofs(text, ts) : Provable(StartOf(blocks, b), p)
  BY <1>0, <1>2, <1>4, InPlaceProvable
<1>. HIDE DEF ts, text
<1>. QED BY <1>3, <1>5, <1>6

(* And the attestor accepts the proofs of such records. *)
LEMMA Decrypt_Refused ==
  ASSUME RevealInv, DecryptTranscript
  PROVE  RefusedInv'
<1>0. /\ phase = "proved" /\ UNCHANGED <<response, blocks, matches>>
      /\ Blocks(blocks, Received) /\ WalkedAs(response, Received, blocks, matches, walk)
      /\ ProvedAs(blocks, walk, packets)
  BY DEF DecryptTranscript, RevealInv, BlocksInv, WalkInv, ProofInv, Redacting, Proven
<1>1. SUFFICES ASSUME phase' = "refused", NoEmpty(blocks), ~NestedAsked(matches), Hashable(response, blocks, matches)
               PROVE  FALSE
  BY <1>0 DEF RefusedInv
<1>2. InPlace(blocks, Received, walk) /\ walk \in Walks(Received)
  BY <1>0, <1>1 DEF WalkedAs
<1>3. PICK b \in DOMAIN blocks : \E p \in packets[b] : ~Congruent(p)
  BY <1>1 DEF DecryptTranscript
<1>4. b \in 1 .. Len(blocks)
  BY <1>0, <1>3 DEF Blocks
<1>5. PICK p \in packets[b] : ~Congruent(p)
  BY <1>3
<1>6. p \in Proofs(TextOf(blocks, walk, b), ToprfsIn(walk, b))
  BY <1>0, <1>4, <1>5 DEF ProvedAs, ProvedBlock
<1>. QED BY <1>0, <1>2, <1>4, <1>5, <1>6, InPlaceCongruent

(* Steps that leave the state alone, or end in a failure, preserve it. *)
LEMMA RevealKept ==
  ASSUME RevealInv, UNCHANGED <<response, blocks, matches, walk, packets, view>>,
         phase' = phase \/ phase' \in {"receiving", "parsed", "failed"}
  PROVE  BlocksInv' /\ WalkInv' /\ ProofInv' /\ ViewInv' /\ RefusedInv'
<1>1. Received' = Received /\ (Whole' <=> Whole)
  BY DEF Received, Whole
<1>. QED BY <1>1 DEF RevealInv, BlocksInv, WalkInv, ProofInv, ViewInv, RefusedInv, Redacting, Proven

(* Every step preserves it. *)
LEMMA RevealNext_Inv == RevealInv /\ [Next]_vars => RevealInv'
<1>. SUFFICES ASSUME RevealInv, [Next]_vars PROVE RevealInv'
  OBVIOUS
<1>0. ParserInv'
  BY ParserNext_Inv DEF RevealInv
<1>1. CASE Receive
  <2>1. BlocksInv'
    BY <1>1, Blocks_Inv DEF Receive
  <2>2. phase' \in {"receiving", "parsed"}
    BY <1>1 DEF Receive, ParserNext, OnMessage, ResponseTimer, OnClose, Finish
  <2>3. WalkInv' /\ ProofInv' /\ ViewInv' /\ RefusedInv'
    BY <2>2 DEF WalkInv, ProofInv, ViewInv, RefusedInv, Redacting, Proven
  <2>. QED BY <1>0, <2>1, <2>3 DEF RevealInv
<1>2. CASE \E ms \in Requests : GetBlocksToReveal(ms)
  <2>1. blocks' = blocks
    BY <1>2 DEF GetBlocksToReveal
  <2>2. BlocksInv'
    BY <2>1 DEF RevealInv, BlocksInv, Received
  <2>3. WalkInv' /\ ProofInv' /\ ViewInv' /\ RefusedInv'
    BY <1>2, GetBlocks_Inv, GetBlocks_Refused
  <2>. QED BY <1>0, <2>2, <2>3 DEF RevealInv
<1>3. CASE \E ms \in Requests : PerformOprfFails(ms)
  <2>1. UNCHANGED <<response, blocks, matches, walk, packets, view>> /\ phase' = "failed"
    BY <1>3 DEF PerformOprfFails, revealVars
  <2>. QED BY <1>0, <2>1, RevealKept DEF RevealInv
<1>4. CASE GenerateProofs
  <2>2. BlocksInv'
    BY <1>4 DEF RevealInv, BlocksInv, Received, GenerateProofs
  <2>. QED BY <1>0, <1>4, <2>2, GenerateProofs_Inv, GenerateProofs_Refused DEF RevealInv
<1>5. CASE DecryptTranscript
  <2>2. BlocksInv'
    BY <1>5 DEF RevealInv, BlocksInv, Received, DecryptTranscript
  <2>. QED BY <1>0, <1>5, <2>2, Decrypt_Inv, Decrypt_Refused DEF RevealInv
<1>6. CASE UNCHANGED vars
  <2>1. UNCHANGED <<response, blocks, matches, walk, packets, view>> /\ phase' = phase
    BY <1>6 DEF vars, parserVars, revealVars
  <2>. QED BY <1>0, <2>1, RevealKept DEF RevealInv
<1>. QED BY <1>1, <1>2, <1>3, <1>4, <1>5, <1>6 DEF Next

(* It holds always. *)
LEMMA RevealInv_Always == Spec => []RevealInv
  BY RevealInit_Inv, RevealNext_Inv, PTL DEF Spec

(* The invariant implies AttestorSeesClientsView. *)
LEMMA RevealInv_Seen == RevealInv => AttestorSeesClientsView
<1>. SUFFICES ASSUME RevealInv, phase = "accepted", matches # None
              PROVE  /\ view = walk.plain
                     /\ \A b \in DOMAIN blocks : \A p, q \in packets[b] : p # q => ~Overlap(p, q)
  BY DEF AttestorSeesClientsView
<1>1. /\ view = walk.plain /\ ProvedAs(blocks, walk, packets) /\ WalkedAs(response, Received, blocks, matches, walk)
      /\ Blocks(blocks, Received)
  BY DEF RevealInv, BlocksInv, WalkInv, ProofInv, ViewInv, Redacting, Proven
<1>2. walk \in Walks(Received) /\ DOMAIN blocks = 1 .. Len(blocks)
  BY <1>1 DEF WalkedAs, Blocks
<1>3. ASSUME NEW b \in 1 .. Len(blocks) PROVE \A p, q \in packets[b] : p # q => ~Overlap(p, q)
  BY <1>1, <1>2, BlockSeen DEF ProvedAs
<1>. QED BY <1>1, <1>2, <1>3

(* For every response, cut into records in any way, and all requests: an    *)
(* attestor that accepts the claim has decrypted (decryptTranscript) byte   *)
(* by byte what the client redacted (getBlocksToReveal), and the proofs of  *)
(* a record do not overlap.                                                 *)
THEOREM AttestorSeesClientsView_Always == Spec => []AttestorSeesClientsView
  BY RevealInv_Always, RevealInv_Seen, PTL

(* No record is empty. *)
LEMMA NoEmptyRecord ==
  ASSUME Blocks(blocks, Received), ~EmptyRecord
  PROVE  NoEmpty(blocks)
<1>1. ASSUME NEW b \in 1 .. Len(blocks) PROVE LenOf(blocks, b) > 0
  <2>1. b \in DOMAIN blocks /\ BlockLen(b) = LenOf(blocks, b)
    BY BlocksAre DEF Blocks
  <2>2. LenOf(blocks, b) # 0
    BY <2>1 DEF EmptyRecord
  <2>3. LenOf(blocks, b) \in 0 .. Received /\ Received \in Nat
    BY BlockNumbers
  <2>. QED BY <2>2, <2>3
<1>. QED BY <1>1 DEF NoEmpty

(* Bytes that are to be hashed and cannot be. *)
LEMMA CannotHashIs ==
  ASSUME Blocks(blocks, Received), ~Hashable(response, blocks, matches)
  PROVE  CannotHash \/ HashAtEnd
<1>1. PICK i \in DOMAIN matches : matches[i].hash /\ ~HashableAt(response, blocks, matches, i)
  BY DEF Hashable
<1>2. \A m : \A p : p \in BytesOf(m) <=> ByteIn(response, m, p)
  <2>1. \A k : ByteOf(response, k) = ByteAt(k)
    BY DEF ByteOf, ByteAt
  <2>. QED BY <2>1, Zenon DEF BytesOf, ByteIn
<1>3. \A k : ByteOf(response, k) = ByteAt(k)
  BY DEF ByteOf, ByteAt
<1>4. \A b : BlockStart(b) = StartOf(blocks, b)
  BY BlocksAre
<1>. DEFINE h == matches[i]
            Split == \E c \in 2 .. Len(response.ends) : h.fromIndex <= BodyBefore(response, c) /\ BodyBefore(response, c) < h.toIndex
            Cut == \A b \in DOMAIN blocks : \E p \in BytesOf(h) : p <= BlockStart(b) \/ p > blocks[b]
            Long == h.toIndex - h.fromIndex + BlockSize - 1 > ChunkSize
            Near == \E j \in DOMAIN matches \ {i} :
                      \/ Overlap(h, matches[j])
                      \/ /\ matches[j].hash
                         /\ ByteAt(h.fromIndex) - ByteAt(matches[j].fromIndex) \in 1 - 2 * ChunkSize .. 2 * ChunkSize - 1
            AtEnd == Received \in BytesOf(h)
<1>5. Split \/ Cut \/ Long \/ Near \/ AtEnd
  <2>1. SUFFICES ASSUME ~Split, ~Cut, ~Long, ~Near, ~AtEnd PROVE HashableAt(response, blocks, matches, i)
    BY <1>1
  <2>2. \E b \in DOMAIN blocks : \A p : ByteIn(response, h, p) => ~(p <= StartOf(blocks, b)) /\ ~(p > blocks[b])
    BY <1>2, <1>4, <2>1, Zenon
  <2>3. \A j \in DOMAIN matches \ {i} :
          /\ ~Overlap(h, matches[j])
          /\ matches[j].hash => ByteOf(response, h.fromIndex) - ByteOf(response, matches[j].fromIndex)
                                  \notin 1 - 2 * ChunkSize .. 2 * ChunkSize - 1
    BY <1>3, <2>1, Zenon
  <2>4. ~ByteIn(response, h, blocks[Len(blocks)])
    <3>1. blocks # <<>>
      BY <2>2
    <3>2. Received = blocks[Len(blocks)]
      BY <3>1 DEF Received
    <3>. QED BY <1>2, <2>1, <3>2
  <2>. QED BY <2>1, <2>2, <2>3, <2>4, Zenon DEF HashableAt
<1>6. AtEnd => HashAtEnd
  BY <1>1 DEF HashAtEnd
<1>7. Split \/ Cut \/ Long \/ Near => CannotHash
  BY <1>1, Zenon DEF CannotHash
<1>. QED BY <1>5, <1>6, <1>7

(* The invariant implies OnlySelectedShown: a nullifier out of place would  *)
(* not have been proved.                                                    *)
LEMMA RevealInv_Selected == RevealInv => OnlySelectedShown
<1>. SUFFICES ASSUME RevealInv, phase \in {"proved", "accepted"}, matches # None, ~EmptyRecord, ~NestedBehindHeader,
                     NEW p \in 1 .. Received, walk.plain[p] = Clear
              PROVE  p \in AlwaysShown \cup Selected(FALSE)
  BY DEF OnlySelectedShown, NothingElseClear
<1>1. /\ ProvedAs(blocks, walk, packets) /\ WalkedAs(response, Received, blocks, matches, walk)
      /\ Blocks(blocks, Received) /\ ~OutOf(blocks, walk)
  BY DEF RevealInv, BlocksInv, WalkInv, ProofInv, Redacting, Proven
<1>2. walk \in Walks(Received) /\ ~BadToprf(blocks, walk)
  BY <1>1, BadToprfRefused DEF WalkedAs
<1>3. NoEmpty(blocks)
  BY <1>1, NoEmptyRecord
<1>4. ~NestedIn(response, matches)
  BY DEF NestedIn, NestedBehindHeader
<1>5. ShownAs(response, matches, p)
  BY <1>1, <1>2, <1>3, <1>4 DEF WalkedAs
<1>6. CASE p \in ShownAnyway(response)
  BY <1>6 DEF ShownAnyway, AlwaysShown
<1>7. CASE \E j \in DOMAIN matches : matches[j].hash = No /\ ByteIn(response, matches[j], p)
  <2>1. PICK j \in DOMAIN matches : matches[j].hash = No /\ ByteIn(response, matches[j], p)
    BY <1>7
  <2>2. PICK i \in matches[j].fromIndex .. matches[j].toIndex - 1 : p = ByteOf(response, i)
    BY <2>1 DEF ByteIn
  <2>3. ByteOf(response, i) = ByteAt(i)
    BY DEF ByteOf, ByteAt
  <2>4. p \in BytesOf(matches[j])
    BY <2>2, <2>3 DEF BytesOf
  <2>5. matches[j].hash = FALSE
    BY <2>1, Zenon DEF No
  <2>6. p \in Selected(FALSE)
    BY <2>1, <2>4, <2>5, Zenon DEF Selected
  <2>. QED BY <2>6
<1>. QED BY <1>5, <1>6, <1>7 DEF ShownAs

(* For every response and all requests: a byte the attestor gets to see in  *)
(* the clear is one the provider's parameters select to be shown, or one of *)
(* the few that always are, never one that is to be hashed; unless a TLS    *)
(* record without data arrived or a match is nested in another behind the   *)
(* size line of a chunk, the two cases in which getResponseRedactions and   *)
(* getBlocksToReveal fail to redact.                                        *)
THEOREM OnlySelectedShown_Always == Spec => []OnlySelectedShown
  BY RevealInv_Always, RevealInv_Selected, PTL

(* A byte selected in the state is one selected by its requests. *)
LEMMA SelectedIs ==
  ASSUME NEW p
  PROVE  /\ p \in Selected(TRUE) <=> \E j \in DOMAIN matches : matches[j].hash = TRUE /\ ByteIn(response, matches[j], p)
         /\ p \in Selected(FALSE) <=> \E j \in DOMAIN matches : matches[j].hash = FALSE /\ ByteIn(response, matches[j], p)
<1>1. ASSUME NEW m PROVE p \in BytesOf(m) <=> ByteIn(response, m, p)
  <2>1. \A i : ByteOf(response, i) = ByteAt(i)
    BY DEF ByteOf, ByteAt
  <2>. QED BY <2>1, Zenon DEF BytesOf, ByteIn
<1>2. p \in Selected(TRUE) <=> \E j \in DOMAIN matches : matches[j].hash = TRUE /\ p \in BytesOf(matches[j])
  BY Zenon DEF Selected
<1>3. p \in Selected(FALSE) <=> \E j \in DOMAIN matches : matches[j].hash = FALSE /\ p \in BytesOf(matches[j])
  BY Zenon DEF Selected
<1>. QED BY <1>1, <1>2, <1>3, Zenon

(* The invariant implies SelectedShown. *)
LEMMA RevealInv_Shown == RevealInv => SelectedShown
<1>. SUFFICES ASSUME RevealInv, matches # None, Whole, response.status = 200, response.size > 0, ~EmptyRecord, ~Nested
              PROVE  /\ phase \in {"proved", "accepted"} =>
                          \A p \in 1 .. Received :
                            /\ p \in (AlwaysShown \cup Selected(FALSE)) \ Selected(TRUE) => walk.plain[p] = Clear
                            /\ p \in Selected(TRUE) => walk.plain[p] \notin {Clear, Star}
                     /\ phase = "refused" => CannotHash \/ HashAtEnd
  BY DEF SelectedShown, Showable
<1>1. Blocks(blocks, Received)
  BY DEF RevealInv, BlocksInv
<1>2. NoEmpty(blocks)
  BY <1>1, NoEmptyRecord
<1>3. ~NestedAsked(matches)
  BY DEF NestedAsked, Nested
<1>4. ASSUME phase \in {"proved", "accepted"}, NEW p \in 1 .. Received
      PROVE  /\ p \in (AlwaysShown \cup Selected(FALSE)) \ Selected(TRUE) => walk.plain[p] = Clear
             /\ p \in Selected(TRUE) => walk.plain[p] \notin {Clear, Star}
  <2>1. ProvedAs(blocks, walk, packets) /\ WalkedAs(response, Received, blocks, matches, walk) /\ ~OutOf(blocks, walk)
    BY <1>4 DEF RevealInv, WalkInv, ProofInv, Redacting, Proven
  <2>2. ~BadToprf(blocks, walk)
    BY <1>1, <2>1, BadToprfRefused DEF WalkedAs
  <2>3. ShowsSelected(response, Received, blocks, matches, walk)
    BY <1>2, <1>3, <2>1 DEF WalkedAs
  <2>4. p \in Selected(TRUE) => HashedAs(response, matches, p)
    BY SelectedIs DEF HashedAs
  <2>5. HashedAs(response, matches, p) => p \in Selected(TRUE)
    <3>1. \A j \in DOMAIN matches : matches[j].hash => matches[j].hash = TRUE
      OBVIOUS
    <3>. QED BY <3>1, SelectedIs DEF HashedAs
  <2>6. p \in AlwaysShown \cup Selected(FALSE) => ShownAs(response, matches, p)
    <3>1. p \in AlwaysShown => p \in ShownAnyway(response)
      BY DEF ShownAnyway, AlwaysShown
    <3>2. p \in Selected(FALSE) => \E j \in DOMAIN matches : matches[j].hash = No /\ ByteIn(response, matches[j], p)
      BY SelectedIs, Zenon DEF No
    <3>. QED BY <3>1, <3>2 DEF ShownAs
  <2>. QED BY <2>2, <2>3, <2>4, <2>5, <2>6 DEF ShowsSelected
<1>5. ASSUME phase = "refused" PROVE CannotHash \/ HashAtEnd
  <2>1. ~Hashable(response, blocks, matches)
    BY <1>2, <1>3, <1>5 DEF RevealInv, RefusedInv
  <2>. QED BY <1>1, <2>1, CannotHashIs
<1>. QED BY <1>4, <1>5

(* For every response and all requests none of which lies in another: what   *)
(* the provider's parameters select is shown to an attestor that accepts,    *)
(* or, where it is to be hashed, its nullifier is; and neither               *)
(* getResponseRedactions nor addPacketToProve nor the attestor refuses a     *)
(* good response that arrived whole, unless bytes that are to be hashed      *)
(* cannot be, or are the last of the response.                               *)
THEOREM SelectedShown_Always == Spec => []SelectedShown
  BY RevealInv_Always, RevealInv_Shown, PTL
=============================================================================
