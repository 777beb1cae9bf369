------------------------------ MODULE ZkSlices ------------------------------
(***************************************************************************)
(* The ZK proofs of one TLS record (src/src/utils/zk.ts): the slices of    *)
(* the record addPacketToProve makes proofs of, and what verifyZkPacket    *)
(* puts together from them.                                                *)
(* `text' is the redacted plaintext of the record, `ts' the TOPRFs in it,  *)
(* with the place of the hashed bytes in the record.  A byte of a redacted *)
(* plaintext is the byte itself (Clear), an asterisk (Star), or the i-th   *)
(* character of the nullifier that stands for the hashed bytes from        *)
(* position `from' of the response on.                                     *)
(***************************************************************************)
EXTENDS Integers, Sequences

CONSTANTS
    ChunkSize,      \* getChunkSizeBytes: bytes one ZK proof covers
    BlockSize       \* getBlockSizeBytes: bytes of a block of the cipher

ASSUME SizesAssumption ==
    /\ BlockSize \in Nat \ {0}
    /\ ChunkSize \in Nat \ {0} /\ ChunkSize % BlockSize = 0

Clear == <<-1, 0>>
Star == <<0, 0>>
Nullifier(from, i) == <<from + 1, i>>

FullyRedacted(s) == \A i \in DOMAIN s : s[i] = Star

-----------------------------------------------------------------------------
(* addPacketToProve *)

getIdealOffsetForToprfBlock(t) ==
    IF t.fromIndex \div ChunkSize = (t.fromIndex + t.length) \div ChunkSize
    THEN (t.fromIndex \div ChunkSize) * ChunkSize
    ELSE (t.fromIndex \div BlockSize) * BlockSize

(* its error; the end is a count of blocks in the code, the start of bytes *)
CannotFit(t) ==
    LET end == (t.fromIndex + t.length + BlockSize - 1) \div BlockSize IN
    /\ t.fromIndex \div ChunkSize # (t.fromIndex + t.length) \div ChunkSize
    /\ end - (t.fromIndex \div BlockSize) * BlockSize > ChunkSize

Least(a, b) == IF a < b THEN a ELSE b

ToprfSlice(t, size) ==
    LET from == getIdealOffsetForToprfBlock(t) IN
    [fromIndex |-> from, toIndex |-> Least(from + ChunkSize, size)]

Overlap(s, t) == s.fromIndex < t.toIndex /\ s.toIndex > t.fromIndex

(* the errors addPacketToProve throws: the hashed bytes go on in the next  *)
(* record, do not fit into a chunk, or two hashes share a chunk            *)
CannotProve(ts, size) ==
    \/ \E i \in DOMAIN ts : ts[i].fromIndex + ts[i].length > size
    \/ \E i \in DOMAIN ts : CannotFit(ts[i])
    \/ \E i, j \in DOMAIN ts :
          i # j /\ Overlap(ToprfSlice(ts[i], size), ToprfSlice(ts[j], size))

(* a part of the record, in pieces of the size of a chunk *)
Pieces(from, to) ==
    {[fromIndex |-> i, toIndex |-> Least(i + ChunkSize, to)] :
        i \in {x \in from .. to - 1 : (x - from) % ChunkSize = 0}}

(* Wrong on purpose: goes up to the first slice with a hash only. *)
Rest_Bug(done, size) ==
    LET to == {s.fromIndex : s \in done} \cup {size}
    IN  Pieces(0, CHOOSE t \in to : \A u \in to : t <= u)
(* what the slices with a hash leave of the record *)
Rest(done, size) ==
    LET from == {0} \cup {s.toIndex : s \in done}
        to == {s.fromIndex : s \in done} \cup {size}
    IN  UNION {Pieces(f, CHOOSE t \in to : /\ t >= f
                             /\ \A u \in to : u >= f => t <= u) : f \in from}

(* getProofGenerationParamsForSlice *)
Proof(text, s, toprf) ==
    [fromIndex |-> s.fromIndex, toIndex |-> s.toIndex, toprf |-> toprf,
     redacted |-> SubSeq(text, s.fromIndex + 1, s.toIndex)]

NoToprf == [pos |-> 0, length |-> 0, text |-> 0]

ToprfProof(text, t) ==
    LET slice == ToprfSlice(t, Len(text)) IN
    Proof(text, slice, [pos |-> t.fromIndex - slice.fromIndex,
                        length |-> t.length, text |-> t.text])

(* none for a slice fully redacted *)
Proofs(text, ts) ==
    LET done == {ToprfSlice(ts[i], Len(text)) : i \in DOMAIN ts}
        all == {ToprfProof(text, ts[i]) : i \in DOMAIN ts}
               \cup {Proof(text, s, NoToprf) : s \in Rest(done, Len(text))}
    IN  {p \in all : ~FullyRedacted(p.redacted)}

-----------------------------------------------------------------------------
(* The circuit (external): it is given whole blocks of the cipher, and a    *)
(* nullifier that was made of the bytes at the place the proof names, in a  *)
(* record that starts at `start' in the response.                           *)
Provable(start, p) ==
    /\ p.fromIndex % BlockSize = 0
    /\ p.toprf # NoToprf =>
         /\ p.toprf.pos + p.toprf.length <= p.toIndex - p.fromIndex
         /\ start + p.fromIndex + p.toprf.pos = p.toprf.text

(* verifyProofPacket: the nullifier's characters where the hash is, and    *)
(* plaintext or asterisks everywhere else                                  *)
Congruent(p) ==
    \A i \in DOMAIN p.redacted :
        IF i > p.toprf.pos /\ i <= p.toprf.pos + p.toprf.length
        THEN p.redacted[i] = Nullifier(p.toprf.text, i - p.toprf.pos - 1)
        ELSE p.redacted[i] \in {Clear, Star}

(* verifyZkPacket: all asterisks, then the proofs' plaintexts *)
Decrypted(proofs, size) ==
    [i \in 1 .. size |->
        LET ps == {p \in proofs : p.fromIndex < i /\ i <= p.toIndex} IN
        IF ps = {} THEN Star
        ELSE LET p == CHOOSE x \in ps : TRUE IN p.redacted[i - p.fromIndex]]
=============================================================================
