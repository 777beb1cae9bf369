--------------------------- MODULE ResponseReveal ---------------------------
(***************************************************************************)
(* What the attestor gets to see of a response: the slices the HTTP        *)
(* provider redacts (src/src/providers/http), the blocks they are applied  *)
(* to (src/src/utils/redactions.ts), and the ZK proofs that are made of    *)
(* the blocks and verified by the attestor (ZkSlices).                     *)
(* The blocks are the TLS records of HttpParser.                           *)
(***************************************************************************)
EXTENDS HttpParser, ZkSlices

CONSTANT
    Suffix          \* bytes a TLS record has behind its plaintext: 1 in TLS 1.3

ASSUME SuffixAssumption == Suffix \in {0, 1}

VARIABLES
    matches,        \* what the redaction requests matched in the body, None
                    \* without requests
    walk,           \* the cursors, blocks and TOPRFs of getBlocksToReveal
    packets,        \* per block, the proofs to generate for it
    view            \* what the attestor decrypted

revealVars == <<matches, walk, packets, view>>
vars == <<parserVars, revealVars>>

(* a slice of the response, and its place in a list that is to be sorted *)
Slice(from, to, hash, place) ==
    [fromIndex |-> from, toIndex |-> to, hash |-> hash, place |-> place]

-----------------------------------------------------------------------------
(* getResponseRedactions *)

(* What one entry of responseRedactions finds in a body of n bytes: an      *)
(* element shown as it is, an element that is hashed, or a match of a       *)
(* regular expression whose group is hashed and whose rest is shown.  An    *)
(* empty element yields nothing.                                            *)
Item(from, to, hash, group) ==
    [fromIndex |-> from, toIndex |-> to, hash |-> hash, group |-> group]
Ranges(n) == {r \in (0 .. n) \X (0 .. n) : r[1] < r[2]}
Part(from, to, hash) ==
    IF from < to THEN <<Item(from, to, hash, TRUE)>> ELSE <<>>
PlainMatches(n) == {<<Item(r[1], r[2], FALSE, FALSE)>> : r \in Ranges(n)}
HashMatches(n) == {<<Item(r[1], r[2], TRUE, FALSE)>> : r \in Ranges(n)}
GroupMatches(n) ==
    UNION {{Part(r[1], g[1], FALSE) \o Part(g[1], g[2], TRUE)
            \o Part(g[2], r[2], FALSE)
            : g \in {x \in Ranges(n) : r[1] <= x[1] /\ x[2] <= r[2]}}
           : r \in Ranges(n)}

(* What any number of entries may yield together, in any order: more than  *)
(* the lists of the three kinds above that follow each other.              *)
Items(n) ==
    {m \in [fromIndex : 0 .. n, toIndex : 0 .. n, hash : BOOLEAN, group : BOOLEAN] :
        m.fromIndex < m.toIndex}
Requests == {None} \cup Seq(Items(Len(res.body)))

(* Wrong on purpose: takes a position in the body for one in the response. *)
convertResponsePosToAbsolutePos_Bug(pos) == res.bodyStartIndex + pos
convertResponsePosToAbsolutePos(pos) ==
    IF res.chunks \in {None, <<>>} THEN res.bodyStartIndex + pos
    ELSE LET size(i) == res.chunks[i].toIndex - res.chunks[i].fromIndex
             start[i \in 1 .. Len(res.chunks)] ==
                 IF i = 1 THEN 0 ELSE start[i - 1] + size(i - 1)
             in == {i \in 1 .. Len(res.chunks) :
                       start[i] <= pos /\ pos <= start[i] + size(i)}
             i == CHOOSE x \in in : \A y \in in : x <= y
         IN  pos - start[i] + res.chunks[i].fromIndex

getReveal(m, place) ==
    Slice(convertResponsePosToAbsolutePos(m.fromIndex),
          convertResponsePosToAbsolutePos(m.toIndex), m.hash, place)

(* Wrong on purpose: forgets the size line of a chunk inside the reveal. *)
getRedactionsForChunkHeaders_Bug(r) == {}
getRedactionsForChunkHeaders(r) ==
    IF res.chunks = None THEN {}
    ELSE {Slice(res.chunks[i - 1].toIndex, res.chunks[i].fromIndex, FALSE, -1) :
             i \in {x \in 2 .. Len(res.chunks) :
                       /\ res.chunks[x].fromIndex > r.fromIndex
                       /\ res.chunks[x].fromIndex < r.toIndex}}

(* processRedactionRequest throws when the group it is to hash has the size *)
(* line of a chunk in its reveal; a hashed element is not looked at.        *)
SplitGroup(ms) ==
    \E i \in DOMAIN ms :
        /\ ms[i].group /\ ms[i].hash
        /\ getRedactionsForChunkHeaders(getReveal(ms[i], i)) # {}

(* sort((a, b) => a.toIndex - b.toIndex), which is stable *)
Before(x, y) ==
    \/ x.toIndex < y.toIndex
    \/ x.toIndex = y.toIndex /\ x.place < y.place
SortByEnd(S) ==
    [k \in 1 .. Cardinality(S) |->
        CHOOSE x \in S : Cardinality({y \in S : Before(y, x)}) = k - 1]

RevealsOf(ms) ==
    {Slice(0, res.statusLineEndIndex, FALSE, -3),
     Slice(res.headerEndIdx, res.headerEndIdx + 4, FALSE, -2)}
    \cup (IF "date" \in DOMAIN res.headerIndices
          THEN {Slice(res.headerIndices["date"].fromIndex,
                      res.headerIndices["date"].toIndex, FALSE, -1)} ELSE {})
    \cup {getReveal(ms[i], i) : i \in DOMAIN ms}

(* What lies between two reveals, from the end of one to the start of the  *)
(* next in the order of their ends.  What lies behind the last of them is   *)
(* redacted even if it is empty.                                            *)
GapStart(reveals, i) == IF i = 1 THEN 0 ELSE reveals[i - 1].toIndex
GapEnd(reveals, i) == IF i > Len(reveals) THEN Received ELSE reveals[i].fromIndex
Gaps(reveals) ==
    {Slice(GapStart(reveals, i), GapEnd(reveals, i), FALSE, 0) :
        i \in {x \in 1 .. Len(reveals) + 1 :
                  \/ GapStart(reveals, x) < GapEnd(reveals, x)
                  \/ x = Len(reveals) + 1}}

(* The size lines of chunks first, then the gaps, then the reveals that     *)
(* are hashed.  A size line inside two reveals is listed once: redacting    *)
(* it again does nothing, as the cursor is behind it.                       *)
getResponseRedactions(ms) ==
    LET headers == UNION {getRedactionsForChunkHeaders(getReveal(ms[i], i)) :
                             i \in DOMAIN ms}
    IN  SortByEnd(headers \cup Gaps(SortByEnd(RevealsOf(ms)))
                  \cup {r \in RevealsOf(ms) : r.hash})

-----------------------------------------------------------------------------
(* getBlocksToReveal *)

BlockStart(b) == IF b = 1 THEN 0 ELSE blocks[b - 1]
BlockLen(b) == blocks[b] - BlockStart(b)

NewWalk == [cursor |-> 0, blockIdx |-> 1, cursorInBlock |-> 0, toprfs |-> <<>>,
            plain |-> [p \in 1 .. Received |-> Clear]]

advance(w) ==
    IF w.cursorInBlock + 1 >= BlockLen(w.blockIdx)
    THEN [w EXCEPT !.cursor = @ + 1, !.blockIdx = @ + 1, !.cursorInBlock = 0]
    ELSE [w EXCEPT !.cursor = @ + 1, !.cursorInBlock = @ + 1]

(* a write at the cursor; one behind the end of an empty block is lost *)
Write(w, c) ==
    IF w.cursorInBlock < BlockLen(w.blockIdx)
    THEN [w EXCEPT !.plain[BlockStart(w.blockIdx) + w.cursorInBlock + 1] = c]
    ELSE w

(* the loops over the cursor, which moves by one: up to the slice, and over it *)
StepsTo(w, to) == IF w.cursor < to THEN to - w.cursor ELSE 0

AdvanceTo(w, to) ==
    LET after[n \in 0 .. StepsTo(w, to)] ==
            IF n = 0 THEN w ELSE advance(after[n - 1])
    IN  after[StepsTo(w, to)]

Overwrite(w, slice) ==
    LET Char(i) == IF slice.hash THEN Nullifier(slice.fromIndex, i) ELSE Star
        after[n \in 0 .. StepsTo(w, slice.toIndex)] ==
            IF n = 0 THEN w ELSE advance(Write(after[n - 1], Char(n - 1)))
    IN  after[StepsTo(w, slice.toIndex)]

redactBlocks(w, slice) ==
    LET v == AdvanceTo(w, slice.fromIndex)
        toprf == [block |-> v.blockIdx, fromIndex |-> v.cursorInBlock,
                  length |-> slice.toIndex - slice.fromIndex,
                  text |-> slice.fromIndex]
    IN  Overwrite(IF slice.hash THEN [v EXCEPT !.toprfs = Append(@, toprf)]
                                ELSE v, slice)

Redacted(redactions) ==
    LET after[n \in 0 .. Len(redactions)] ==
            IF n = 0 THEN NewWalk ELSE redactBlocks(after[n - 1], redactions[n])
    IN  after[Len(redactions)]

(* The cursor was behind the last block when a TOPRF was to be noted: there *)
(* is no block, and the access to its toprfs throws.                        *)
OutOfBlocks(w) == \E k \in DOMAIN w.toprfs : w.toprfs[k].block \notin DOMAIN blocks

-----------------------------------------------------------------------------
(* the redacted plaintext and the TOPRFs of one block *)

(* the block's redacted plaintext as preparePacketsForReveal extends it *)
RedactedPlaintext(b) ==
    SubSeq(walk.plain, BlockStart(b) + 1, blocks[b])
    \o [i \in 1 .. Suffix |-> Clear]

Revealed(b) == \E i \in 1 .. BlockLen(b) : walk.plain[BlockStart(b) + i] # Star

ToprfsOf(b) ==
    [i \in {k \in DOMAIN walk.toprfs : walk.toprfs[k].block = b} |-> walk.toprfs[i]]

-----------------------------------------------------------------------------
(* addServerSideReveals, preparePacketsForReveal and decryptTranscript *)

Init ==
    /\ ParserInit
    /\ matches = None /\ walk = None
    /\ packets = <<>> /\ view = <<>>

Receive == ParserNext /\ UNCHANGED revealVars

(* parseHttpResponse or getResponseRedactions throws *)
Refused(ms) ==
    \/ res.threw
    \/ /\ ms # None
       /\ \/ res.statusCode \div 100 # 2
          \/ res.bodyStartIndex = None
          \/ SplitGroup(ms)

(* getBlocksToReveal with the provider's redactions.  Without any request  *)
(* there are none, and all records are revealed with their keys.           *)
GetBlocksToReveal(ms) ==
    /\ phase = "parsed"
    /\ matches' = ms
    /\ IF Refused(ms)
       THEN phase' = "refused" /\ UNCHANGED <<walk, view>>
       ELSE IF ms = None
       THEN /\ phase' = "accepted"
            /\ view' = [p \in 1 .. Received |-> Clear]
            /\ UNCHANGED walk
       ELSE LET w == Redacted(getResponseRedactions(ms)) IN
            /\ IF OutOfBlocks(w)
               THEN phase' = "refused" /\ UNCHANGED walk
               ELSE phase' = "redacted" /\ walk' = w
            /\ UNCHANGED view
    /\ UNCHANGED <<response, blocks, inc, ended, res, packets>>

(* performOprf, a call to the attestor for every hash, fails *)
PerformOprfFails(ms) ==
    /\ phase = "parsed"
    /\ ~Refused(ms) /\ ms # None
    /\ \E i \in DOMAIN ms : ms[i].hash
    /\ phase' = "failed"
    /\ UNCHANGED <<response, blocks, inc, ended, res, revealVars>>

Shown == {b \in DOMAIN blocks : Revealed(b)}
ProofsOf(b) == Proofs(RedactedPlaintext(b), ToprfsOf(b))

(* addPacketToProve for every record to reveal, and generateProofs *)
GenerateProofs ==
    /\ phase = "redacted"
    /\ IF \E b \in Shown :
            \/ CannotProve(ToprfsOf(b), Len(RedactedPlaintext(b)))
            \/ \E p \in ProofsOf(b) : ~Provable(BlockStart(b), p)
       THEN phase' = "refused" /\ UNCHANGED packets
       ELSE /\ phase' = "proved"
            /\ packets' = [b \in DOMAIN blocks |->
                              IF b \in Shown THEN ProofsOf(b) ELSE {}]
    /\ UNCHANGED <<response, blocks, inc, ended, res, matches, walk, view>>

(* the block byte p of the response is in *)
BlockOf(p) == CHOOSE b \in DOMAIN blocks : BlockStart(b) < p /\ p <= blocks[b]

(* decryptTranscript: every record, those without proofs as asterisks *)
DecryptTranscript ==
    /\ phase = "proved"
    /\ IF \A b \in DOMAIN blocks : \A p \in packets[b] : Congruent(p)
       THEN /\ phase' = "accepted"
            /\ view' = [p \in 1 .. Received |->
                           Decrypted(packets[BlockOf(p)], BlockLen(BlockOf(p)))
                               [p - BlockStart(BlockOf(p))]]
       ELSE phase' = "refused" /\ UNCHANGED view
    /\ UNCHANGED <<response, blocks, inc, ended, res, matches, walk, packets>>

Next ==
    \/ Receive
    \/ /\ phase = "parsed"
       /\ \E ms \in Requests : GetBlocksToReveal(ms) \/ PerformOprfFails(ms)
    \/ GenerateProofs
    \/ DecryptTranscript

Spec == Init /\ [][Next]_vars

-----------------------------------------------------------------------------
(* the byte of the response that is byte i of its body *)
ByteAt(i) ==
    IF response.framing # "chunked" THEN BodyStart(response) + i + 1
    ELSE LET c == CHOOSE x \in DOMAIN response.ends :
                     /\ BodyBefore(response, x) <= i
                     /\ i < BodyBefore(response, x + 1)
         IN  ChunkAt(response, c).fromIndex + i - BodyBefore(response, c) + 1

BytesOf(m) == {ByteAt(i) : i \in m.fromIndex .. m.toIndex - 1}

(* the status line, the end of the headers and the date, shown always *)
AlwaysShown ==
    {1} \cup (Len(HeaderOf(response)) - 3) .. Len(HeaderOf(response))
        \cup (IF response.date THEN {4} ELSE {})

Selected(hash) ==
    UNION {BytesOf(matches[i]) :
              i \in {x \in DOMAIN matches : matches[x].hash = hash}}

(* a reveal that ends inside another one, or where it ends *)
Nested == \E i, j \in DOMAIN matches :
    LET a == matches[i]
        b == matches[j]
    IN  i # j /\ a.fromIndex < b.fromIndex /\ b.toIndex <= a.toIndex

(* the size line of a chunk in the outer reveal, before the inner one *)
NestedBehindHeader == \E i, j \in DOMAIN matches :
    LET a == matches[i]
        b == matches[j]
    IN  /\ i # j /\ b.toIndex <= a.toIndex
        /\ \E c \in 2 .. Len(response.ends) :
              LET start == BodyBefore(response, c) IN
              a.fromIndex <= start /\ start <= b.fromIndex /\ start > 0

EmptyRecord == \E b \in DOMAIN blocks : BlockLen(b) = 0

(* the walk leaves nothing in the clear that was not to be shown *)
NothingElseClear ==
    \A p \in 1 .. Received :
        walk.plain[p] = Clear => p \in AlwaysShown \cup Selected(FALSE)

(* The bytes of the response that reach the attestor in the clear are the   *)
(* ones the provider's parameters select and the few that are always shown; *)
(* bytes selected to be hashed are not among them.  Two things break it in  *)
(* this code: a TLS record without data, which puts the cursor off by one   *)
(* (redactions.ts:163), and a reveal inside another that has the size line  *)
(* of a chunk before the inner one (index.ts:215), because the redaction of *)
(* that line is then applied before the one of the bytes in front of it.    *)
OnlySelectedShown ==
    /\ phase \in {"proved", "accepted"} /\ matches # None
    /\ ~EmptyRecord /\ ~NestedBehindHeader
    => NothingElseClear

(* the reasons for which bytes selected to be hashed cannot be: they start *)
(* a chunk other than the first or go on in the next, they go on in the    *)
(* next record, a proof from the start of their cipher block does not      *)
(* reach their end, another request selects some of them too, or bytes     *)
(* close by are to be hashed too                                           *)
CannotHash == \E i \in DOMAIN matches :
    LET h == matches[i]
    IN  /\ h.hash
        /\ \/ \E c \in 2 .. Len(response.ends) :
                 LET start == BodyBefore(response, c) IN
                 h.fromIndex <= start /\ start < h.toIndex
           \/ \A b \in DOMAIN blocks : \E p \in BytesOf(h) :
                 p <= BlockStart(b) \/ p > blocks[b]
           \/ h.toIndex - h.fromIndex + BlockSize - 1 > ChunkSize
           \/ \E j \in DOMAIN matches \ {i} :
                 LET k == matches[j] IN
                 \/ Overlap(h, k)
                 \/ /\ k.hash
                    /\ ByteAt(h.fromIndex) - ByteAt(k.fromIndex)
                         \in 1 - 2 * ChunkSize .. 2 * ChunkSize - 1

(* Bytes to be hashed are the last of the response: the empty slice behind  *)
(* them is redacted first and leaves no block to note the TOPRF in.         *)
HashAtEnd == \E i \in DOMAIN matches :
    matches[i].hash /\ Received \in BytesOf(matches[i])

(* a response that can be shown *)
Showable ==
    /\ matches # None /\ Whole /\ response.status = 200 /\ response.size > 0
    /\ ~EmptyRecord /\ ~Nested

(* What is selected is shown, or its nullifier is, when no reveal lies in   *)
(* another; and a good response is refused only because of bytes that are   *)
(* to be hashed and cannot be, or are at its end.                           *)
SelectedShown ==
    Showable =>
       /\ phase \in {"proved", "accepted"} =>
              \A p \in 1 .. Received :
                  /\ p \in (AlwaysShown \cup Selected(FALSE)) \ Selected(TRUE)
                         => walk.plain[p] = Clear
                  /\ p \in Selected(TRUE) => walk.plain[p] \notin {Clear, Star}
       /\ phase = "refused" => CannotHash \/ HashAtEnd

(* The attestor decrypts exactly what the client redacted, byte by byte,    *)
(* and the proofs of a record do not overlap: they may be verified in any   *)
(* order.                                                                   *)
AttestorSeesClientsView ==
    phase = "accepted" /\ matches # None =>
        /\ view = walk.plain
        /\ \A b \in DOMAIN blocks : \A p, q \in packets[b] :
              p # q => ~Overlap(p, q)
=============================================================================
