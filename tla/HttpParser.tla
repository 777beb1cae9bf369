----------------------------- MODULE HttpParser -----------------------------
(***************************************************************************)
(* A response as it arrives at the client, and makeHttpResponseParser of   *)
(* src/src/utils/http-parser.ts, which reads it twice:                     *)
(*   - as it arrives, TLS record by TLS record, to find out when it is     *)
(*     complete (onMessage and onClose in src/src/client/create-claim.ts); *)
(*   - in one piece once the session is over (parseHttpResponse), to find  *)
(*     the positions of what is to be revealed.                            *)
(* A byte is a pair of a kind and a number: a status line, a header line   *)
(* and a chunk size are one byte each, in front of their CR LF.            *)
(***************************************************************************)
EXTENDS Integers, Sequences, SequencesExt, FiniteSets

CONSTANTS
    MaxBody,      \* bound: bytes of the response's body
    MaxRecords,   \* bound: TLS records the response arrives in
    None          \* no index, no result

ASSUME BoundsAssumption == MaxBody \in Nat /\ MaxRecords \in Nat

ASSUME NoneAssumption ==
    /\ None \notin Int /\ None \notin {"timer", "close"}
    /\ None \notin Seq([fromIndex : Nat, toIndex : Nat])
    /\ None \notin Seq([fromIndex : Nat, toIndex : Nat,
                        hash : BOOLEAN, group : BOOLEAN])

VARIABLES
    response,     \* the response as the server writes it
    blocks,       \* where the TLS records received so far end in it
    inc,          \* resParser: the parser fed record by record
    phase,        \* "receiving", "parsed", and later those of ResponseReveal
    ended,        \* why the wait was over: "timer" or "close", None before
    res           \* what parseHttpResponse returned, None before

parserVars == <<response, blocks, inc, phase, ended, res>>

-----------------------------------------------------------------------------
(* Responses a server may write *)

CR == <<"cr", 0>>
LF == <<"lf", 0>>
CRLF == <<CR, LF>>
Line(kind, n) == <<<<kind, n>>, CR, LF>>

(* the bytes of the body; with crlf it contains a line end *)
BodyOf(n, crlf) ==
    [i \in 1 .. n |-> IF crlf /\ i = 2 THEN CR
                      ELSE IF crlf /\ i = 3 THEN LF ELSE <<"x", i>>]

(* the ways to cut n bytes into chunks: where each of them ends *)
Cuts(n) ==
    {s \in UNION {[1 .. m -> 1 .. n] : m \in 0 .. n} :
        /\ \A i, j \in DOMAIN s : i < j => s[i] < s[j]
        /\ n = 0 \/ \E i \in DOMAIN s : s[i] = n}

(* the responses explored: a date header and an error status make no       *)
(* difference to the framing and are explored with one kind of it only     *)
Responses ==
    UNION {[status : {200}, date : BOOLEAN, framing : {"length"},
            size : {n}, crlf : BOOLEAN, ends : {<<>>}] \cup
           [status : {200, 404}, date : {FALSE}, framing : {"close"},
            size : {n}, crlf : BOOLEAN, ends : {<<>>}] \cup
           [status : {200}, date : {FALSE}, framing : {"chunked"},
            size : {n}, crlf : BOOLEAN, ends : Cuts(n)]
           : n \in 0 .. MaxBody}

HeaderOf(r) ==
    Line("status", r.status)
    \o (IF r.date THEN Line("date", 0) ELSE <<>>)
    \o (IF r.framing = "length" THEN Line("length", r.size)
        ELSE IF r.framing = "chunked" THEN Line("chunked", 0) ELSE <<>>)
    \o CRLF

Written(r) == BodyOf(r.size, r.crlf)

(* the i-th chunk; the one behind the last is empty and ends the body *)
BodyBefore(r, i) == IF i = 1 THEN 0 ELSE r.ends[i - 1]
BodyUpTo(r, i) == IF i > Len(r.ends) THEN r.size ELSE r.ends[i]
Chunk(r, i) ==
    Line("size", BodyUpTo(r, i) - BodyBefore(r, i))
    \o SubSeq(Written(r), BodyBefore(r, i) + 1, BodyUpTo(r, i))
    \o CRLF

(* what the chunks before the i-th take in the stream *)
ChunksBefore(r, i) == BodyBefore(r, i) + 5 * (i - 1)

ChunkedBody(r) ==
    [p \in 1 .. r.size + 5 * Len(r.ends) + 5 |->
        LET i == CHOOSE k \in 1 .. Len(r.ends) + 1 :
                    /\ ChunksBefore(r, k) < p
                    /\ p <= BodyUpTo(r, k) + 5 * k
        IN  Chunk(r, i)[p - ChunksBefore(r, i)]]

Stream(r) ==
    HeaderOf(r) \o (IF r.framing = "chunked" THEN ChunkedBody(r) ELSE Written(r))

(* where the body, or the data of the i-th chunk, lies in the stream *)
BodyStart(r) == Len(HeaderOf(r)) + (IF r.framing = "chunked" THEN 3 ELSE 0)
ChunkAt(r, i) ==
    [fromIndex |-> BodyStart(r) + ChunksBefore(r, i),
     toIndex |-> BodyStart(r) + BodyUpTo(r, i) + 5 * (i - 1)]

-----------------------------------------------------------------------------
(* makeHttpResponseParser *)

NewParser == [
    statusCode |-> 0, statusLineEndIndex |-> None,
    headers |-> [n \in {} |-> 0], headerIndices |-> [n \in {} |-> 0],
    headersComplete |-> FALSE, headerEndIdx |-> 0,
    body |-> <<>>, bodyStartIndex |-> None, chunks |-> None,
    complete |-> FALSE, threw |-> FALSE,
    remainingBodyBytes |-> 0, isChunked |-> FALSE,
    remaining |-> <<>>, currentByteIdx |-> 0]

(* findIndexInUint8Array(remaining, CRLF), -1 when there is no line end *)
findLineEnd(s) ==
    LET ends == {i \in 0 .. Len(s) - 2 : s[i + 1] = CR /\ s[i + 2] = LF} IN
    IF ends = {} THEN -1 ELSE CHOOSE i \in ends : \A j \in ends : i <= j

HasLine(p) == findLineEnd(p.remaining) # -1

(* getLine: the line, and the parser behind it *)
LineOf(p) == SubSeq(p.remaining, 1, findLineEnd(p.remaining))
AfterLine(p) ==
    LET idx == findLineEnd(p.remaining) IN
    [p EXCEPT !.remaining = SubSeq(@, idx + 3, Len(@)),
              !.currentByteIdx = @ + idx + 2]

(* Wrong on purpose: forgets how much of the body is still to come when the *)
(* data ends inside it.                                                     *)
readBody_Bug(p) ==
    LET n == IF p.remainingBodyBytes = -1 THEN Len(p.remaining)
             ELSE IF p.remainingBodyBytes < Len(p.remaining)
             THEN p.remainingBodyBytes ELSE Len(p.remaining)
    IN  IF p.complete THEN [p EXCEPT !.threw = TRUE]
        ELSE [p EXCEPT
                !.bodyStartIndex = IF @ = None THEN p.currentByteIdx ELSE @,
                !.remainingBodyBytes = IF @ = -1 THEN -1 ELSE 0,
                !.body = @ \o SubSeq(p.remaining, 1, n),
                !.remaining = SubSeq(@, n + 1, Len(@)),
                !.currentByteIdx = @ + n]
readBody(p) ==
    LET n == IF p.remainingBodyBytes = -1 THEN Len(p.remaining)
             ELSE IF p.remainingBodyBytes < Len(p.remaining)
             THEN p.remainingBodyBytes ELSE Len(p.remaining)
    IN  IF p.complete THEN [p EXCEPT !.threw = TRUE]
        ELSE [p EXCEPT
                !.bodyStartIndex = IF @ = None THEN p.currentByteIdx ELSE @,
                !.remainingBodyBytes = IF @ = -1 THEN -1 ELSE @ - n,
                !.body = @ \o SubSeq(p.remaining, 1, n),
                !.remaining = SubSeq(@, n + 1, Len(@)),
                !.currentByteIdx = @ + n]

Put(f, k, v) == [n \in DOMAIN f \cup {k} |-> IF n = k THEN v ELSE f[n]]

(* an empty line: the headers say how the body ends *)
HeadersEnd(p) ==
    LET q == [p EXCEPT !.headersComplete = TRUE,
                       !.headerEndIdx = p.currentByteIdx - 4]
    IN  IF "chunked" \in DOMAIN q.headers
        THEN [q EXCEPT !.isChunked = TRUE, !.chunks = <<>>]
        ELSE IF "length" \in DOMAIN q.headers
        THEN [q EXCEPT !.remainingBodyBytes = q.headers["length"]]
        ELSE [q EXCEPT !.remainingBodyBytes = -1]

(* the lines of onChunk before the body; the loop ends at the latest when  *)
(* it has taken a line for every byte there is                             *)
HeaderLine(p) ==
    IF p.headersComplete \/ ~HasLine(p) THEN p
    ELSE LET line == LineOf(p)
             q    == AfterLine(p)
             end  == q.currentByteIdx - 2
         IN  IF p.statusCode = 0
             THEN [q EXCEPT !.statusCode = line[1][2],
                            !.statusLineEndIndex = end]
             ELSE IF line = <<>> THEN HeadersEnd(q)
             ELSE [q EXCEPT
                    !.headers = Put(@, line[1][1], line[1][2]),
                    !.headerIndices = Put(@, line[1][1],
                        [fromIndex |-> end - Len(line), toIndex |-> end])]

ReadHeaders(p) ==
    LET after[n \in 0 .. Len(p.remaining)] ==
            IF n = 0 THEN p ELSE HeaderLine(after[n - 1])
    IN  after[Len(p.remaining)]

(* the chunks of onChunk: a size of zero is the last.  The loop is left     *)
(* inside a chunk when no byte remains, and then there is no line either.  *)
ChunkLine(p) ==
    IF p.threw \/ ~HasLine(p) THEN p
    ELSE LET line == LineOf(p)
             q    == AfterLine(p)
             size == line[1][2]
         IN  IF line = <<>> THEN q
             ELSE IF size = 0 THEN [q EXCEPT !.complete = TRUE]
             ELSE readBody([q EXCEPT
                    !.chunks = Append(@, [fromIndex |-> q.currentByteIdx,
                                          toIndex |-> q.currentByteIdx + size]),
                    !.remainingBodyBytes = size])

ReadChunks(p) ==
    LET after[n \in 0 .. Len(p.remaining)] ==
            IF n = 0 THEN p ELSE ChunkLine(after[n - 1])
    IN  after[Len(p.remaining)]

ReadRest(p) ==
    LET q == IF p.remainingBodyBytes = 0 THEN p ELSE readBody(p)
        done == \/ /\ p.remainingBodyBytes # 0
                   /\ q.remainingBodyBytes = 0 /\ ~q.isChunked
                \/ "length" \in DOMAIN q.headers /\ q.headers["length"] = 0
        r == [q EXCEPT !.complete = @ \/ done]
    IN  IF r.isChunked THEN ReadChunks(r) ELSE r

onChunk(p, data) ==
    LET q == ReadHeaders([p EXCEPT !.remaining = @ \o data]) IN
    IF q.headersComplete THEN ReadRest(q) ELSE q

(* streamEnded: throws, or takes the response for complete *)
(* Wrong on purpose: does not look at the bytes no line was made of.       *)
streamEnded_Bug(p) ==
    IF ~p.headersComplete \/ p.remainingBodyBytes > 0
    THEN [p EXCEPT !.threw = TRUE]
    ELSE [p EXCEPT !.complete = TRUE]
streamEnded(p) ==
    IF ~p.headersComplete \/ p.remaining # <<>> \/ p.remainingBodyBytes > 0
    THEN [p EXCEPT !.threw = TRUE]
    ELSE [p EXCEPT !.complete = TRUE]

parseHttpResponse(buff) == streamEnded(onChunk(NewParser, buff))

-----------------------------------------------------------------------------
(* The response arrives *)

Received == IF blocks = <<>> THEN 0 ELSE blocks[Len(blocks)]
Total == SubSeq(Stream(response), 1, Received)

ParserInit ==
    /\ response \in Responses
    /\ blocks = <<>>
    /\ inc = NewParser
    /\ phase = "receiving"
    /\ ended = None
    /\ res = None

(* onMessage: a TLS record with the next n bytes.  A record may be empty.  *)
OnMessage(n) ==
    /\ phase = "receiving"
    /\ Len(blocks) < MaxRecords
    /\ Received + n <= Len(Stream(response))
    /\ blocks' = Append(blocks, Received + n)
    /\ inc' = onChunk(inc, SubSeq(Stream(response), Received + 1, Received + n))
    /\ UNCHANGED <<response, phase, ended, res>>

(* the wait for the response is over: it is parsed in one piece *)
Finish(why) ==
    /\ phase = "receiving"
    /\ phase' = "parsed"
    /\ ended' = why
    /\ res' = parseHttpResponse(Total)
    /\ UNCHANGED <<response, blocks>>

(* the timer that is set when the incremental parser sees the end: records *)
(* that arrive within the second are still taken                           *)
ResponseTimer ==
    /\ inc.complete
    /\ Finish("timer")
    /\ UNCHANGED inc

(* onClose without an error, at the end of the response or before *)
OnClose ==
    /\ Finish("close")
    /\ inc' = streamEnded(inc)

ParserNext ==
    \/ \E n \in 0 .. Len(Stream(response)) - Received : OnMessage(n)
    \/ ResponseTimer
    \/ OnClose

-----------------------------------------------------------------------------
Whole == Received = Len(Stream(response))

(* A response that arrived whole is accepted and read as it was written, in *)
(* whatever records it arrived: the body, where it starts, and where the    *)
(* data of each chunk lies; the parser fed record by record has read the    *)
(* same as the one fed in one piece.                                        *)
ParsedAsSent ==
    phase # "receiving" /\ Whole =>
        /\ ~res.threw
        /\ res.body = Written(response)
        /\ res.bodyStartIndex =
               IF response.size = 0 /\ response.framing # "close"
               THEN None ELSE BodyStart(response)
        /\ response.framing = "chunked" =>
               res.chunks = [i \in 1 .. Len(response.ends) |->
                                ChunkAt(response, i)]
        /\ [inc EXCEPT !.complete = TRUE] = res

(* behind the headers, behind the data of a chunk with or without its line *)
(* end, or behind the last size line                                       *)
BetweenChunks(r) ==
    {Len(HeaderOf(r)), Len(Stream(r)) - 2}
    \cup {ChunkAt(r, i).toIndex + k : i \in DOMAIN r.ends, k \in {0, 2}}

(* A response that ended early is accepted in two cases only: it ends with  *)
(* the connection, so that nothing can tell; or it is chunked and was cut   *)
(* between two chunks, where the chunk of size zero is missing and the      *)
(* parser does not mind (AcceptedIsComplete says what it should do).  What  *)
(* was read of the body is what was written up to there.  A response that   *)
(* is no longer awaited because it was found complete lacks nothing of its  *)
(* body.                                                                    *)
EarlyEndSeen ==
    /\ ended # None /\ ~Whole =>
        /\ IsPrefix(res.body, Written(response))
        /\ ~res.threw =>
               \/ response.framing = "close"
               \/ /\ response.framing = "chunked"
                  /\ Received \in BetweenChunks(response)
    /\ ended = "timer" => inc.body = Written(response)

(* A response that says where its body ends is taken for complete by        *)
(* streamEnded, of the comment "Checks that the response is valid &         *)
(* complete", only if all of its body has arrived.                          *)
AcceptedIsComplete ==
    ended # None /\ ~res.threw /\ response.framing # "close" =>
        res.body = Written(response)
=============================================================================
