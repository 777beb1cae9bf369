-------------------------- MODULE RevealInvariant --------------------------
(***************************************************************************)
(* What ResponseRevealProofs speaks of: the states the parser can be in,   *)
(* the slices, reveals and redactions of a response, the walk over its     *)
(* records, and the inductive invariants ParserInv and RevealInv.          *)
(* A response is r, of which R bytes have arrived and N chunks were read;  *)
(* ms are the requests, bl the records, w the walk and p a parser.         *)
(***************************************************************************)
EXTENDS ResponseReveal

-----------------------------------------------------------------------------
(* The slices of a record and its proofs                                    *)

(* The slices of a record of the given size, none of them empty. *)
Slices(size) == {s \in [fromIndex : 0 .. size, toIndex : 0 .. size] :
                    s.fromIndex < s.toIndex}

(* No two slices overlap. *)
Apart(S) == \A s, t \in S : s # t => ~Overlap(s, t)

(* Byte x of the record is in slice s. *)
Holds(s, x) == s.fromIndex <= x /\ x < s.toIndex

(* The parts of a record between the slices in `done': each starts at 0 or *)
(* where a slice ends, and stops where the next one starts, or the record  *)
(* ends.                                                                   *)
Starts(done) == {0} \cup {s.toIndex : s \in done}

(* Where a part between the slices may stop. *)
Stops(done, size) == {s.fromIndex : s \in done} \cup {size}

(* The first of these places from f on. *)
Stop(done, size, f) ==
  CHOOSE t \in Stops(done, size) :
    t >= f /\ \A u \in Stops(done, size) : u >= f => t <= u

(* Hashed bytes have a place in the record; that they do not go beyond its *)
(* end is checked by the code (CannotProve).                               *)
Placed(ts) == \A i \in DOMAIN ts :
  ts[i].fromIndex \in Nat /\ ts[i].length \in Nat \ {0}

(* The slices the hashes of a record take. *)
Done(ts, size) == {ToprfSlice(ts[i], size) : i \in DOMAIN ts}

(* the proofs before those of fully redacted slices are left out *)
All(text, ts) ==
  {ToprfProof(text, ts[i]) : i \in DOMAIN ts}
    \cup {Proof(text, s, NoToprf) : s \in Rest(Done(ts, Len(text)), Len(text))}

(* A proof is of one of the slices, and there is one for every slice. *)
OfSlice(text, p, s) ==
  /\ p.fromIndex = s.fromIndex /\ p.toIndex = s.toIndex
  /\ p.redacted = SubSeq(text, s.fromIndex + 1, s.toIndex)

(* Hashed bytes that fit into a chunk which starts on their cipher block. *)
Fits(t) == (t.fromIndex % BlockSize) + t.length <= ChunkSize

-----------------------------------------------------------------------------
(* Loops                                                                    *)

(* st[n] is the n-th of k steps that start at p and stay in S. *)
Steps(k, S, st, p) == k \in Nat /\ st \in [Nat -> [S -> S]] /\ p \in S

-----------------------------------------------------------------------------
(* Responses                                                                *)

(* The kinds of bytes of the model. *)
Kinds == {"status", "date", "length", "chunked", "close", "size", "x", "cr", "lf"}

(* The bytes of the model. *)
Byte == Kinds \X Int

(* How the end of a body is told: Content-Length, closing the connection,   *)
(* or chunks.                                                               *)
Framings == {"length", "close", "chunked"}

(* The lines of the header, and what they say. *)
NL(r) == 1 + (IF r.date THEN 1 ELSE 0) + (IF r.framing = "close" THEN 0 ELSE 1)

(* What the k-th line of the header is about. *)
LineKind(r, k) == IF k = 1 THEN "status" ELSE IF k = 2 /\ r.date THEN "date" ELSE r.framing

(* The number in the k-th line of the header. *)
LineVal(r, k) == IF k = 1 THEN r.status
                 ELSE IF LineKind(r, k) = "length" THEN r.size ELSE 0

(* The length of the header, with the empty line. *)
H(r) == 3 * NL(r) + 2

(* A line of one byte behind s. *)
AddLine(s, x) == s \o <<x, CR, LF>>

(* Where the size line of the i-th chunk starts, and its data starts and ends. *)
SizeAt(r, i) == H(r) + ChunksBefore(r, i)

(* Where the data of the i-th chunk starts. *)
DataAt(r, i) == SizeAt(r, i) + 3

(* Where the data of the i-th chunk ends. *)
DataEnd(r, i) == DataAt(r, i) + BodyUpTo(r, i) - BodyBefore(r, i)

-----------------------------------------------------------------------------
(* The states of the parser                                                 *)

(* What has arrived of a response up to R, from position c on. *)
Left(r, R, c) == SubSeq(Stream(r), c + 1, R)

(* The names of the headers in the first k lines. *)
HeaderNames(r, k) == {LineKind(r, j) : j \in 2 .. k}

(* The headers the parser has after k lines. *)
HeadersAt(r, k) == [n \in HeaderNames(r, k) |-> IF n = "length" THEN r.size ELSE 0]

(* Where the line of a header starts. *)
LineStart(r, n) == IF n # "date" /\ r.date THEN 6 ELSE 3

(* The headerIndices the parser has after k lines. *)
IndicesAt(r, k) == [n \in HeaderNames(r, k) |->
                      [fromIndex |-> LineStart(r, n), toIndex |-> LineStart(r, n) + 1]]

(* A state of the parser is told by its fields. *)
Fields == {
  "statusCode", "statusLineEndIndex", "headers", "headerIndices", "headersComplete",
  "headerEndIdx", "body", "bodyStartIndex", "chunks", "complete", "threw",
  "remainingBodyBytes", "isChunked", "remaining", "currentByteIdx"}

(* p is a record with the parser's fields. *)
IsParser(p) == DOMAIN p = Fields /\ p = [f \in Fields |-> p[f]]

(* The parser before the header's line k + 1. *)
AtLine(r, R, k) == [
  statusCode |-> IF k = 0 THEN 0 ELSE r.status,
  statusLineEndIndex |-> IF k = 0 THEN None ELSE 1,
  headers |-> HeadersAt(r, k), headerIndices |-> IndicesAt(r, k),
  headersComplete |-> FALSE, headerEndIdx |-> 0, body |-> <<>>,
  bodyStartIndex |-> None, chunks |-> None, complete |-> FALSE,
  threw |-> FALSE, remainingBodyBytes |-> 0, isChunked |-> FALSE,
  remaining |-> Left(r, R, 3 * k), currentByteIdx |-> 3 * k]

(* The same state, field by field. *)
IsAtLine(p, r, R, k) ==
  /\ IsParser(p) /\ p.statusCode = (IF k = 0 THEN 0 ELSE r.status)
  /\ p.statusLineEndIndex = (IF k = 0 THEN None ELSE 1)
  /\ p.headers = HeadersAt(r, k) /\ p.headerIndices = IndicesAt(r, k)
  /\ p.headersComplete = FALSE /\ p.headerEndIdx = 0 /\ p.body = <<>>
  /\ p.bodyStartIndex = None /\ p.chunks = None /\ p.complete = FALSE
  /\ p.threw = FALSE /\ p.remainingBodyBytes = 0 /\ p.isChunked = FALSE
  /\ p.remaining = Left(r, R, 3 * k) /\ p.currentByteIdx = 3 * k

(* The parser at position c behind the header. *)
InBody(r, R, c, start, body, chunks, complete, left) == [
  statusCode |-> r.status, statusLineEndIndex |-> 1,
  headers |-> HeadersAt(r, NL(r)), headerIndices |-> IndicesAt(r, NL(r)),
  headersComplete |-> TRUE, headerEndIdx |-> H(r) - 4, body |-> body,
  bodyStartIndex |-> start, chunks |-> chunks, complete |-> complete,
  threw |-> FALSE, remainingBodyBytes |-> left,
  isChunked |-> (r.framing = "chunked"), remaining |-> Left(r, R, c),
  currentByteIdx |-> c]

(* The same state, field by field. *)
IsInBody(p, r, R, c, start, body, chunks, complete, left) ==
  /\ IsParser(p) /\ p.statusCode = r.status /\ p.statusLineEndIndex = 1
  /\ p.headers = HeadersAt(r, NL(r)) /\ p.headerIndices = IndicesAt(r, NL(r))
  /\ p.headersComplete = TRUE /\ p.headerEndIdx = H(r) - 4 /\ p.body = body
  /\ p.bodyStartIndex = start /\ p.chunks = chunks /\ p.complete = complete
  /\ p.threw = FALSE /\ p.remainingBodyBytes = left
  /\ p.isChunked = (r.framing = "chunked") /\ p.remaining = Left(r, R, c)
  /\ p.currentByteIdx = c

(* The parser when it has read the header and nothing else. *)
AtBody(r, R) ==
  InBody(r, R, H(r), None, <<>>, IF r.framing = "chunked" THEN <<>> ELSE None, FALSE,
         IF r.framing = "length" THEN r.size ELSE IF r.framing = "close" THEN -1 ELSE 0)

(* p, moved to position c. *)
Moved(p, rest, c) == [p EXCEPT !.remaining = rest, !.currentByteIdx = c]

(* A loop whose steps make a measure smaller ends within as many steps. *)
EndingLoop(S, st, size, halted, k, F) ==
  /\ st \in [S -> S] /\ size \in [S -> Nat] /\ halted \in SUBSET S
  /\ k \in Nat /\ F[0] \in S /\ size[F[0]] <= k
  /\ \A n \in 1 .. k : F[n - 1] \in S => F[n] = st[F[n - 1]]
  /\ \A s \in halted : st[s] = s
  /\ \A s \in S \ halted : size[st[s]] < size[s]

(* The numbers of lines that can have been read of the first R bytes. *)
LinesIn(r, R) == {k \in 0 .. NL(r) : 3 * k <= R}

(* The states of the parser while it reads the header. *)
HeaderStates(r, R) ==
  {AtLine(r, R, k) : k \in LinesIn(r, R)} \cup {s \in {AtBody(r, R)} : H(r) <= R}

(* The loop over the header's lines is over. *)
HeaderHalted(s) == s.headersComplete = TRUE \/ ~HasLine(s)

(* What readBody takes of what has arrived. *)
Taken(left, n) == IF left = -1 THEN n ELSE IF left < n THEN left ELSE n

(* The start of the body, once something of it was read at c. *)
StartOr(start, c) == IF start = None THEN c ELSE start

(* What remains of the body after n bytes of it; -1 is unknown. *)
LeftAfter(left, n) == IF left = -1 THEN -1 ELSE left - n

(* The parser at position c has read k bytes of the body and can read n     *)
(* more.                                                                    *)
CanRead(p, r, R, c, start, k, chunks, left, n) ==
  /\ IsInBody(p, r, R, c, start, SubSeq(Written(r), 1, k), chunks, FALSE, left)
  /\ c \in 0 .. R /\ k \in Nat /\ left \in Int /\ n \in 0 .. R - c
  /\ n = Taken(left, R - c) /\ k + n <= r.size
  /\ \A j \in 1 .. n : Stream(r)[c + j] = Written(r)[k + j]

(* A response without chunks: everything that arrived is read. *)
PlainLeft(r, c) == IF r.framing = "close" THEN -1 ELSE H(r) + r.size - c

(* The response says it has no body. *)
NoBody(r) == r.framing = "length" /\ r.size = 0

(* Where the body starts, None when there is none. *)
PlainStart(r) == IF NoBody(r) THEN None ELSE H(r)

(* Content-Length bytes have been read. *)
PlainDone(r, c) == r.framing = "length" /\ c = H(r) + r.size

(* The parser has read everything up to R of a response without chunks. *)
IsPlain(p, r, R) ==
  IsInBody(p, r, R, R, PlainStart(r), SubSeq(Written(r), 1, R - H(r)), None,
           PlainDone(r, R), PlainLeft(r, R))

(* The number of chunks with data. *)
M(r) == Len(r.ends)

(* The chunks the parser knows when it has read the size line of the i-th. *)
ChunksUpTo(r, i) == [j \in 1 .. (IF i <= M(r) THEN i ELSE M(r)) |-> ChunkAt(r, j)]

(* bodyStartIndex at that time. *)
StartIn(r, i) == IF i = 0 \/ M(r) = 0 THEN None ELSE H(r) + 3

(* The chunk that ends the body. *)
LastChunk(r, i) == i = M(r) + 1

(* The position behind the line end of the i-th chunk, or behind the        *)
(* header.                                                                  *)
BehindAt(r, i) == IF i = 0 THEN H(r) ELSE DataEnd(r, i) + 2

(* The length of the body up to there. *)
BehindBody(r, i) == IF i = 0 THEN 0 ELSE BodyUpTo(r, i)

(* In the data of chunk i, up to position c; and behind the line end of chunk i. *)
DataState(r, R, i, c) ==
  InBody(r, R, c, StartIn(r, i), SubSeq(Written(r), 1, BodyBefore(r, i) + (c - DataAt(r, i))),
         ChunksUpTo(r, i), LastChunk(r, i), DataEnd(r, i) - c)

(* The parser at that position. *)
BehindState(r, R, i) ==
  InBody(r, R, BehindAt(r, i), StartIn(r, i), SubSeq(Written(r), 1, BehindBody(r, i)),
         ChunksUpTo(r, i), LastChunk(r, i), 0)

(* How far the data of chunk i has arrived. *)
Reach(r, R, i) == IF R < DataEnd(r, i) THEN R ELSE DataEnd(r, i)

(* The parser in the i-th chunk when it has read what has arrived of its    *)
(* data.                                                                    *)
InChunk(r, R, i) == DataState(r, R, i, Reach(r, R, i))

(* The chunks whose size line has arrived. *)
DataIdx(r, R) == {i \in 1 .. M(r) + 1 : DataAt(r, i) <= R}

(* The chunks that have arrived with their line end, and 0. *)
BehindIdx(r, R) == {i \in 0 .. M(r) + 1 : BehindAt(r, i) <= R}

(* The states of the parser between two rounds of the loop over chunks. *)
ReadyStates(r, R) ==
  {InChunk(r, R, i) : i \in DataIdx(r, R)} \cup {BehindState(r, R, i) : i \in BehindIdx(r, R)}

(* No more line can be read. *)
StuckInChunk(p, r, R, i) == p = InChunk(r, R, i) /\ R < DataEnd(r, i) + 2

(* The parser behind a chunk, waiting for the next size line. *)
StuckBehind(p, r, R, i) == p = BehindState(r, R, i) /\ (i <= M(r) => R < BehindAt(r, i) + 3)

(* The parser waits for more data, or has read the last chunk. *)
Stuck(p, r, R) ==
  (\E i \in DataIdx(r, R) : StuckInChunk(p, r, R, i)) \/ (\E i \in BehindIdx(r, R) : StuckBehind(p, r, R, i))

(* The bytes that arrive when R0 have arrived before and R have afterwards. *)
More(r, R0, R) == SubSeq(Stream(r), R0 + 1, R)

(* The parser with data behind what is left. *)
With(p, data) == [p EXCEPT !.remaining = p.remaining \o data]

(* The states between two pieces of data. *)
InHeader(p, r, R) == R < H(r) /\ ~HasLine(p) /\ \E k \in LinesIn(r, R) : p = AtLine(r, R, k)

(* The parser has read all it can of the first R bytes. *)
Settled(p, r, R) ==
  \/ InHeader(p, r, R)
  \/ H(r) <= R /\ r.framing # "chunked" /\ IsPlain(p, r, R)
  \/ H(r) <= R /\ r.framing = "chunked" /\ Stuck(p, r, R)

(* b is a prefix of the body. *)
IsBody(b, r) == \E k \in 0 .. r.size : b = SubSeq(Written(r), 1, k)

(* What the parser has read of a response that arrived whole. *)
FullStart(r) == IF r.size = 0 /\ r.framing # "close" THEN None ELSE BodyStart(r)

(* All chunks with data, None when there are no chunks. *)
FullChunks(r) == IF r.framing = "chunked" THEN [i \in 1 .. Len(r.ends) |-> ChunkAt(r, i)] ELSE None

(* What remains of the body when all has arrived. *)
FullLeft(r) == IF r.framing = "close" THEN -1 ELSE 0

(* The parser when the whole response has arrived. *)
Full(r) == InBody(r, Len(Stream(r)), Len(Stream(r)), FullStart(r), Written(r), FullChunks(r),
                  r.framing # "close", FullLeft(r))

-----------------------------------------------------------------------------
(* The inductive invariant of the parser                                    *)

(* While receiving, the incremental parser is settled after the bytes       *)
(* received.                                                                *)
ReceivedInv ==
  /\ response \in Responses
  /\ blocks \in Seq(0 .. Len(Stream(response)))
  /\ phase = "receiving" => ended = None /\ Settled(inc, response, Received)

(* Afterwards, the result is that of a settled parser, and so is the state  *)
(* in which the wait was ended.                                             *)
ReadInv ==
  phase # "receiving" =>
    /\ \E x : Settled(x, response, Received) /\ res = streamEnded(x)
    /\ \/ ended = "timer" /\ Settled(inc, response, Received) /\ inc.complete
       \/ /\ ended = "close"
          /\ \E y : Settled(y, response, Received) /\ inc = streamEnded(y)

(* The inductive invariant of the parser. *)
ParserInv == ReceivedInv /\ ReadInv

-----------------------------------------------------------------------------
(* What was read of a response                                              *)

(* The first N chunks. *)
ReadChunksOf(r, N) == [j \in 1 .. N |-> ChunkAt(r, j)]

(* The header was read, and the result says where its parts are. *)
GoodHeader(e, r) ==
  /\ e.threw = FALSE /\ e.statusCode = r.status /\ e.statusLineEndIndex = 1
  /\ e.headerEndIdx = H(r) - 4 /\ e.headerIndices = IndicesAt(r, NL(r))

(* The result of a response without chunks of which R bytes arrived. *)
GoodPlain(e, r, R) ==
  /\ e.chunks = None /\ e.bodyStartIndex = H(r) /\ R \in H(r) .. H(r) + r.size
  /\ e.body = SubSeq(Written(r), 1, R - H(r))

(* The result of a chunked response of which the first N chunks arrived. *)
GoodChunked(e, r, R, N) ==
  /\ N \in 1 .. M(r) /\ e.chunks = ReadChunksOf(r, N) /\ e.bodyStartIndex = H(r) + 3
  /\ DataEnd(r, N) <= R /\ e.body = SubSeq(Written(r), 1, BodyUpTo(r, N))

(* The result of a parse that did not throw and found a body. *)
Good(e, r, R, N) ==
  /\ GoodHeader(e, r)
  /\ IF r.framing = "chunked" THEN GoodChunked(e, r, R, N) ELSE N = 0 /\ GoodPlain(e, r, R)

(* A parser in the body for which streamEnded does not throw. *)
EndsInBody(x, r, R, c, start, body, chunks, cm, left) ==
  IsInBody(x, r, R, c, start, body, chunks, cm, left) /\ ~streamEnded(x).threw

(* What streamEnded returns then. *)
EndsWell(x, r, start, body, chunks) ==
  /\ x.remaining = <<>> /\ ~(x.remainingBodyBytes > 0)
  /\ GoodHeader(streamEnded(x), r) /\ streamEnded(x).chunks = chunks
  /\ streamEnded(x).bodyStartIndex = start /\ streamEnded(x).body = body

(* the body that was read, and the chunk a position in it is taken to be in *)
BLen(r, R, N) == IF r.framing = "chunked" THEN BodyUpTo(r, N) ELSE R - H(r)

(* The first chunk whose range holds the position: a position where two     *)
(* chunks meet is taken to be in the first of them.                         *)
InPart(r, N, pos, c) ==
  /\ c \in 1 .. N /\ BodyBefore(r, c) <= pos /\ pos <= BodyUpTo(r, c)
  /\ c = 1 \/ BodyBefore(r, c) < pos

(* The place in the stream of a position in the body that is taken to be in *)
(* chunk c.                                                                 *)
AbsIn(r, pos, c) == DataAt(r, c) + (pos - BodyBefore(r, c))

(* a sum that is defined by recursion over 1 .. N *)
Sums(f, N, F) == f = [i \in 1 .. N |-> IF i = 1 THEN 0 ELSE f[i - 1] + F[i - 1]]

-----------------------------------------------------------------------------
(* Reveals and redactions                                                   *)

(* slices that no two of which end at the same place of the list *)
Keyed(S) ==
  /\ IsFiniteSet(S)
  /\ \A x \in S : x.toIndex \in Int /\ x.place \in Int
  /\ \A x, y \in S : x.toIndex = y.toIndex /\ x.place = y.place => x = y

(* The slices of S that come before x. *)
Lower(S, x) == {y \in S : Before(y, x)}

(* How many slices come before x. *)
Rank(S, x) == Cardinality(Lower(S, x))

(* The slices of R bytes, none of them empty. *)
SliceSet(R) == {x \in [fromIndex : 0 .. R, toIndex : 0 .. R, hash : BOOLEAN, place : Int] :
                  x.fromIndex < x.toIndex}

(* The slices that are redacted of R bytes: the last of the gaps may be empty. *)
Redactable(R) == {x \in [fromIndex : 0 .. R, toIndex : 0 .. R, hash : BOOLEAN, place : Int] :
                    x.fromIndex < x.toIndex \/ (~x.hash /\ x.fromIndex = R /\ x.toIndex = R)}

(* FALSE, as the value of a slice's hash: kept folded in the proofs below. *)
No == FALSE

(* the reveals that do not depend on the requests *)
Fixed(r, x) ==
  \/ x = Slice(0, 1, No, -3)
  \/ x = Slice(H(r) - 4, H(r), No, -2)
  \/ r.date /\ x = Slice(3, 4, No, -1)

(* a list of slices in the order of their ends *)
ByEnd(s, R) ==
  /\ s \in Seq(SliceSet(R))
  /\ \A i, j \in 1 .. Len(s) : i < j => s[i].toIndex <= s[j].toIndex

(* a list of redactions in the order of their ends *)
Listed(s, R) ==
  /\ s \in Seq(Redactable(R))
  /\ \A i, j \in 1 .. Len(s) : i < j => s[i].toIndex <= s[j].toIndex

(* the size line of chunk c, with the line end in front of it *)
SizeSlice(r, c) == Slice(DataEnd(r, c - 1), DataAt(r, c), No, -1)

(* The size lines of chunks inside the reveals. *)
HeadersOf(ms) == UNION {getRedactionsForChunkHeaders(getReveal(ms[i], i)) : i \in DOMAIN ms}

(* what getResponseRedactions sorts *)
RedactionSet(ms) ==
  HeadersOf(ms) \cup Gaps(SortByEnd(RevealsOf(ms))) \cup {x \in RevealsOf(ms) : x.hash}

-----------------------------------------------------------------------------
(* The walk of getBlocksToReveal and the proofs made of it                  *)

(* the walk of getBlocksToReveal over R bytes *)
Toprf == [block : Nat, fromIndex : Nat, length : Nat \ {0}, text : Nat]

(* What a byte of the redacted response may be. *)
Chars == Int \X Int

(* The states of the walk over R bytes. *)
Walks(R) == [cursor : Nat, blockIdx : Nat, cursorInBlock : Nat, toprfs : Seq(Toprf), plain : [1 .. R -> Chars]]

(* what is written over the i-th byte of a slice *)
CharOf(slice, i) == IF slice.hash THEN Nullifier(slice.fromIndex, i) ELSE Star

(* the entry of a hashed slice that starts where the cursor is *)
ToprfAt(v, x) ==
  [block |-> v.blockIdx, fromIndex |-> v.cursorInBlock, length |-> x.toIndex - x.fromIndex, text |-> x.fromIndex]

(* The walk with the TOPRF of a hashed slice noted. *)
Marked(v, x) == IF x.hash THEN [v EXCEPT !.toprfs = Append(@, ToprfAt(v, x))] ELSE v

(* blocks, their redacted plaintexts and their TOPRFs, of values *)
StartOf(bl, b) == IF b = 1 THEN 0 ELSE bl[b - 1]

(* The length of block b. *)
LenOf(bl, b) == bl[b] - StartOf(bl, b)

(* The redacted plaintext of block b, as preparePacketsForReveal extends    *)
(* it.                                                                      *)
TextOf(bl, w, b) == SubSeq(w.plain, StartOf(bl, b) + 1, bl[b]) \o [i \in 1 .. Suffix |-> Clear]

(* Something of block b is not an asterisk. *)
RevealedIn(bl, w, b) == \E i \in 1 .. LenOf(bl, b) : w.plain[StartOf(bl, b) + i] # Star

(* The TOPRFs of block b. *)
ToprfsIn(w, b) == [i \in {k \in DOMAIN w.toprfs : w.toprfs[k].block = b} |-> w.toprfs[i]]

(* records that end one behind the other within the R bytes received *)
Blocks(bl, R) ==
  /\ R \in Nat /\ bl \in Seq(0 .. R)
  /\ \A i \in 1 .. Len(bl) : StartOf(bl, i) <= bl[i]
  /\ R > 0 => Len(bl) > 0 /\ bl[Len(bl)] = R

(* the proofs of the records, and what the attestor makes of them *)
ProvedBlock(bl, w, pk, b) ==
  IF RevealedIn(bl, w, b)
  THEN /\ pk[b] = Proofs(TextOf(bl, w, b), ToprfsIn(w, b))
       /\ ~CannotProve(ToprfsIn(w, b), Len(TextOf(bl, w, b)))
       /\ \A p \in pk[b] : Provable(StartOf(bl, b), p)
  ELSE pk[b] = {}

(* The proofs of all records. *)
ProvedAs(bl, w, pk) == \A b \in 1 .. Len(bl) : ProvedBlock(bl, w, pk, b)

(* records with data, and a cursor that is where it is said to be *)
NoEmpty(bl) == \A b \in 1 .. Len(bl) : LenOf(bl, b) > 0

(* Position c of the response is byte i of block b. *)
CursorAt(bl, c, b, i) == b \in 1 .. Len(bl) /\ i \in Nat /\ i < LenOf(bl, b) /\ StartOf(bl, b) + i = c

(* The walk's block and place in it are those of its cursor; there is none  *)
(* behind the last byte.                                                    *)
AtCursor(w, R, bl) ==
  /\ w \in Walks(R) /\ w.cursor \in 0 .. R
  /\ w.cursor < R => CursorAt(bl, w.cursor, w.blockIdx, w.cursorInBlock)
  /\ ~(w.cursor < R) => w.blockIdx \notin 1 .. Len(bl)

(* where the writing over a slice starts when the cursor is at c *)
OverFrom(c, x) == IF c < x.fromIndex THEN x.fromIndex ELSE c

(* a TOPRF noted where the writing over a hashed slice starts *)
NotedAt(t, c, R, bl, x) ==
  /\ t.text = x.fromIndex /\ t.length = x.toIndex - x.fromIndex
  /\ c < R => CursorAt(bl, c, t.block, t.fromIndex)
  /\ ~(c < R) => t.block \notin 1 .. Len(bl)

(* w with the slice x redacted *)
RedactsTo(w, x, v, R, bl) ==
  /\ AtCursor(v, R, bl) /\ v.cursor = x.toIndex
  /\ \A p \in 1 .. R : v.plain[p] =
       IF OverFrom(w.cursor, x) < p /\ p <= x.toIndex
       THEN CharOf(x, p - 1 - OverFrom(w.cursor, x)) ELSE w.plain[p]
  /\ w.toprfs \in Seq(Toprf)
  /\ IF x.hash THEN \E t \in Toprf : v.toprfs = Append(w.toprfs, t) /\ NotedAt(t, OverFrom(w.cursor, x), R, bl, x)
     ELSE v.toprfs = w.toprfs

(* Where the cursor is after the first n slices. *)
CursorAfter(s, n) == IF n = 0 THEN 0 ELSE s[n].toIndex

(* Where the writing over the n-th slice starts. *)
OverAt(s, n) == OverFrom(CursorAfter(s, n - 1), s[n])

(* what the first m slices have made of the R bytes *)
WrittenAs(w, s, m, R) ==
  /\ \A n \in 1 .. m, p \in 1 .. R : CursorAfter(s, n - 1) < p /\ p <= s[n].toIndex =>
       w.plain[p] = IF OverAt(s, n) < p THEN CharOf(s[n], p - 1 - OverAt(s, n)) ELSE Clear
  /\ \A p \in 1 .. R : CursorAfter(s, m) < p => w.plain[p] = Clear

(* The TOPRF of every hashed slice is noted. *)
NotedAs(w, s, m, R, bl) ==
  \A n \in 1 .. m : s[n].hash => \E k \in DOMAIN w.toprfs : NotedAt(w.toprfs[k], OverAt(s, n), R, bl, s[n])

(* f names the hashed slice every TOPRF is of, each slice once. *)
NotedBy(f, w, s, m, R, bl) ==
  \A k \in DOMAIN w.toprfs :
    /\ f[k] \in 1 .. m /\ s[f[k]].hash /\ NotedAt(w.toprfs[k], OverAt(s, f[k]), R, bl, s[f[k]])
    /\ \A l \in DOMAIN w.toprfs : k # l => f[k] # f[l]

(* Every TOPRF is of a hashed slice. *)
NotedOnly(w, s, m, R, bl) == \E f : NotedBy(f, w, s, m, R, bl)

(* The walk after the first m slices. *)
RedactedAs(w, s, m, R, bl) ==
  /\ AtCursor(w, R, bl) /\ w.cursor = CursorAfter(s, m)
  /\ WrittenAs(w, s, m, R) /\ NotedAs(w, s, m, R, bl) /\ NotedOnly(w, s, m, R, bl)

-----------------------------------------------------------------------------
(* What a request leaves in the clear                                       *)

(* the requests ms of a response that was read *)
Asked(r, R, N, ms) ==
  /\ r \in Responses /\ R \in 0 .. Len(Stream(r)) /\ Received = R /\ N \in 0 .. M(r)
  /\ Good(res, r, R, N) /\ ms \in Seq(Items(BLen(r, R, N)))

(* The reveals in the order of their ends. *)
Reveals(ms) == SortByEnd(RevealsOf(ms))

(* no reveal that is hashed ends where the response does *)
NoneAtEnd(ms, R) == \A x \in RevealsOf(ms) : x.hash => x.toIndex < R

(* a TOPRF was to be noted behind the last block *)
OutOf(bl, w) == \E k \in DOMAIN w.toprfs : w.toprfs[k].block \notin 1 .. Len(bl)

(* the first of the reveals that ends behind position q *)
FirstBehind(ms, q, i) ==
  /\ i \in 1 .. Len(Reveals(ms)) + 1
  /\ \A k \in 1 .. Len(Reveals(ms)) : Reveals(ms)[k].toIndex > q <=> k >= i

(* the first redaction that ends behind position q starts behind it too *)
Uncovered(ms, q, z) ==
  /\ z \in RedactionSet(ms) /\ z.toIndex > q /\ z.fromIndex > q
  /\ \A x \in RedactionSet(ms) : x.toIndex > q => x = z \/ Before(z, x)

(* a match behind the size line of a chunk in the reveal of another match *)
NestedIn(r, ms) == \E i, j \in DOMAIN ms :
  /\ i # j /\ ms[j].toIndex <= ms[i].toIndex
  /\ \E c \in 2 .. Len(r.ends) :
       /\ ms[i].fromIndex <= BodyBefore(r, c) /\ BodyBefore(r, c) <= ms[j].fromIndex
       /\ BodyBefore(r, c) > 0

(* byte q of the response is left as it is by the redactions of the requests ms *)
LeftClear(r, R, N, ms, w, bl, q) ==
  /\ Asked(r, R, N, ms) /\ NoneAtEnd(ms, R) /\ q \in 0 .. R - 1 /\ w.plain[q + 1] = Clear
  /\ RedactedAs(w, getResponseRedactions(ms), Len(getResponseRedactions(ms)), R, bl)

(* a match that starts behind the start of another and ends in it *)
NestedAsked(ms) == \E i, j \in DOMAIN ms :
  i # j /\ ms[i].fromIndex < ms[j].fromIndex /\ ms[j].toIndex <= ms[i].toIndex

(* what the redactions of the requests ms have made of byte q *)
Walked(r, R, N, ms, w, bl, q) ==
  /\ Asked(r, R, N, ms) /\ NoneAtEnd(ms, R) /\ q \in 0 .. R - 1
  /\ RedactedAs(w, getResponseRedactions(ms), Len(getResponseRedactions(ms)), R, bl)

(* the n-th redaction g[n] is the first that ends behind position q *)
FirstOver(ms, g, q, n) ==
  /\ n \in 1 .. Len(g) /\ g[n] \in RedactionSet(ms) /\ g[n].toIndex > q /\ CursorAfter(g, n - 1) <= q
  /\ \A x \in RedactionSet(ms) : x.toIndex > q => x = g[n] \/ Before(g[n], x)

(* the size line of a chunk that getResponseRedactions redacts in a reveal *)
SizeLineIn(r, N, ms, z, j, c) ==
  /\ j \in 1 .. Len(ms) /\ c \in 2 .. N /\ r.framing = "chunked" /\ z = SizeSlice(r, c)
  /\ DataAt(r, c) > getReveal(ms[j], j).fromIndex /\ DataAt(r, c) < getReveal(ms[j], j).toIndex

(* the byte of the response r that is byte i of its body, and the bytes of a match *)
ByteOf(r, i) ==
  IF r.framing # "chunked" THEN BodyStart(r) + i + 1
  ELSE LET c == CHOOSE x \in DOMAIN r.ends : BodyBefore(r, x) <= i /\ i < BodyBefore(r, x + 1)
       IN  ChunkAt(r, c).fromIndex + i - BodyBefore(r, c) + 1

(* p is one of the bytes of the match m. *)
ByteIn(r, m, p) == \E i \in m.fromIndex .. m.toIndex - 1 : p = ByteOf(r, i)

(* a TOPRF that is noted where other bytes than the hashed ones are, and whose *)
(* nullifier is written there                                                  *)
BadToprf(bl, w) == \E k \in DOMAIN w.toprfs :
  LET t == w.toprfs[k]
      c == StartOf(bl, t.block) + t.fromIndex
  IN  /\ t.block \in 1 .. Len(bl) /\ t.fromIndex < LenOf(bl, t.block)
      /\ c # t.text /\ w.plain[c + 1] # Star

(* the bytes always shown, and the bytes the requests select to be shown *)
ShownAnyway(r) ==
  {1} \cup (Len(HeaderOf(r)) - 3) .. Len(HeaderOf(r)) \cup (IF r.date THEN {4} ELSE {})

(* Byte p is to be shown. *)
ShownAs(r, ms, p) ==
  p \in ShownAnyway(r) \/ \E j \in DOMAIN ms : ms[j].hash = No /\ ByteIn(r, ms[j], p)

(* Byte p is to be hashed. *)
HashedAs(r, ms, p) == \E j \in DOMAIN ms : ms[j].hash /\ ByteIn(r, ms[j], p)

(* Position q is not in the framing of a chunked body. *)
InData(r, N, q) == r.framing = "chunked" => \E c \in 1 .. N : DataAt(r, c) <= q /\ q < DataEnd(r, c)

(* The bytes of match i can be hashed: they lie in one chunk and in one     *)
(* record, a proof that starts on their cipher block holds them, they are   *)
(* not the last of the response, and no other match is near.                *)
HashableAt(r, bl, ms, i) ==
  /\ \A c \in 2 .. Len(r.ends) : ~(ms[i].fromIndex <= BodyBefore(r, c) /\ BodyBefore(r, c) < ms[i].toIndex)
  /\ \E b \in DOMAIN bl : \A p : ByteIn(r, ms[i], p) => ~(p <= StartOf(bl, b)) /\ ~(p > bl[b])
  /\ ~(ms[i].toIndex - ms[i].fromIndex + BlockSize - 1 > ChunkSize)
  /\ ~ByteIn(r, ms[i], bl[Len(bl)])
  /\ \A j \in DOMAIN ms \ {i} :
       /\ ~Overlap(ms[i], ms[j])
       /\ ms[j].hash => ByteOf(r, ms[i].fromIndex) - ByteOf(r, ms[j].fromIndex)
                          \notin 1 - 2 * ChunkSize .. 2 * ChunkSize - 1

(* All bytes to be hashed can be. *)
Hashable(r, bl, ms) == \A i \in DOMAIN ms : ms[i].hash => HashableAt(r, bl, ms, i)

(* the n-th redaction is the reveal of match j, all of it, in one record, and no *)
(* redaction before it reaches into it                                           *)
HashOf(r, R, bl, ms, g, n, j) ==
  /\ j \in DOMAIN ms /\ ms[j].hash /\ g[n] = getReveal(ms[j], j)
  /\ g[n].fromIndex \in Nat /\ g[n].toIndex \in 0 .. R /\ g[n].fromIndex < g[n].toIndex
  /\ CursorAfter(g, n - 1) \in Nat /\ CursorAfter(g, n - 1) <= g[n].fromIndex /\ OverAt(g, n) = g[n].fromIndex
  /\ g[n].toIndex - g[n].fromIndex = ms[j].toIndex - ms[j].fromIndex
  /\ ByteOf(r, ms[j].fromIndex) = g[n].fromIndex + 1
  /\ \E b \in DOMAIN bl : StartOf(bl, b) <= g[n].fromIndex /\ g[n].toIndex <= bl[b]

(* a TOPRF that names the place of its bytes, in one record and in reach of a proof *)
ToprfInPlace(bl, t) ==
  /\ t.block \in 1 .. Len(bl) /\ StartOf(bl, t.block) + t.fromIndex = t.text
  /\ t.fromIndex + t.length <= LenOf(bl, t.block) /\ Fits(t)

(* Two TOPRFs whose proofs cannot overlap. *)
FarApart(s, t) == s.text + 2 * ChunkSize <= t.text \/ t.text + 2 * ChunkSize <= s.text

(* Byte p is one of the bytes of the TOPRF. *)
InHash(t, p) == t.text < p /\ p <= t.text + t.length

(* the nullifiers are where the bytes are that they stand for, and nowhere else *)
InPlace(bl, R, w) ==
  /\ \A k \in DOMAIN w.toprfs : ToprfInPlace(bl, w.toprfs[k])
  /\ \A k, l \in DOMAIN w.toprfs : k # l => FarApart(w.toprfs[k], w.toprfs[l])
  /\ \A p \in 1 .. R : \A k \in DOMAIN w.toprfs : InHash(w.toprfs[k], p) =>
       w.plain[p] = Nullifier(w.toprfs[k].text, p - 1 - w.toprfs[k].text)
  /\ \A p \in 1 .. R : w.plain[p] \in {Clear, Star} \/ \E k \in DOMAIN w.toprfs : InHash(w.toprfs[k], p)

(* the walk of requests whose bytes to be hashed can be *)
HashWalk(r, R, N, ms, w, bl) ==
  /\ Asked(r, R, N, ms) /\ ~NestedAsked(ms) /\ Blocks(bl, R) /\ Hashable(r, bl, ms) /\ w \in Walks(R)
  /\ RedactedAs(w, getResponseRedactions(ms), Len(getResponseRedactions(ms)), R, bl)

(* the TOPRF t is that of the n-th redaction, which is the reveal of match j *)
ToprfOf(r, R, bl, ms, g, n, j, t) ==
  /\ n \in 1 .. Len(g) /\ HashOf(r, R, bl, ms, g, n, j) /\ HashableAt(r, bl, ms, j) /\ g[n].hash
  /\ t.text = g[n].fromIndex /\ t.length = g[n].toIndex - g[n].fromIndex

(* What is selected is shown, or a nullifier stands for it. *)
ShowsSelected(r, R, bl, ms, w) == \A p \in 1 .. R :
  /\ ShownAs(r, ms, p) /\ ~HashedAs(r, ms, p) => w.plain[p] = Clear
  /\ HashedAs(r, ms, p) => w.plain[p] \notin {Clear, Star} \/ BadToprf(bl, w)

(* the walk of the requests ms over the blocks bl of the response r *)
WalkedAs(r, R, bl, ms, w) ==
  /\ w \in Walks(R)
  /\ NoEmpty(bl) /\ ~NestedIn(r, ms) /\ ~OutOf(bl, w) =>
       \A p \in 1 .. R : w.plain[p] = Clear => ShownAs(r, ms, p) \/ BadToprf(bl, w)
  /\ NoEmpty(bl) /\ ~NestedAsked(ms) /\ ~OutOf(bl, w) => ShowsSelected(r, R, bl, ms, w)
  /\ NoEmpty(bl) /\ ~NestedAsked(ms) /\ Hashable(r, bl, ms) => InPlace(bl, R, w)

-----------------------------------------------------------------------------
(* The inductive invariant                                                  *)

(* A walk has been made. *)
Redacting == phase \in {"redacted", "proved"} \/ (phase = "accepted" /\ matches # None)

(* Its proofs have been made. *)
Proven == phase = "proved" \/ (phase = "accepted" /\ matches # None)

(* The records received follow each other up to the last byte received. *)
BlocksInv == Blocks(blocks, Received)

(* The walk is that of the requests. *)
WalkInv == Redacting =>
  matches # None /\ WalkedAs(response, Received, blocks, matches, walk) /\ ~OutOf(blocks, walk)

(* The proofs are those of the walk, and the circuit has accepted them. *)
ProofInv == Proven => ProvedAs(blocks, walk, packets)

(* The attestor's view is the client's. *)
ViewInv == phase = "accepted" /\ matches # None => view = walk.plain

(* A response that can be shown is refused only because of bytes that cannot *)
(* be hashed where they are.                                                 *)
RefusedInv ==
  /\ phase = "refused" /\ matches # None /\ Whole /\ response.status = 200 /\ response.size > 0
  /\ NoEmpty(blocks) /\ ~NestedAsked(matches)
  => ~Hashable(response, blocks, matches)

(* The inductive invariant of what the attestor is shown. *)
RevealInv == ParserInv /\ BlocksInv /\ WalkInv /\ ProofInv /\ ViewInv /\ RefusedInv
=============================================================================
