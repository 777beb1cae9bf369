# TLA+ models of attestor-core

attestor-core lets a user fetch a web page over TLS through a server, the
*attestor*, and obtain a signed claim about what the page said. The attestor
carries the encrypted bytes, records them, and signs what the user later proves
about them. The user decides, record by record, which keys to reveal.

This directory holds TLA+ specifications of the parts of the program whose
correctness depends on the order of events, the TLC models that check them on
small instances, and TLAPS proofs of their main properties for instances of any
size. Paths are relative to `src/src/` unless they start with `docs/` or `avs/`.

## 1. Inventory

| Part | State | Operations | Interacts with |
|---|---|---|---|
| server session (`server/socket.ts`, `utils/socket-base.ts`, `client/utils/message-handler.ts`, `server/handlers/`) | `tunnels` map, `metadata`, `isInitialised`, WebSocket state | packets and the messages in them; `init`, `createTunnel`, `disconnectTunnel`, `claimTunnel`; alerts; `terminateConnection`; `error` and `close` events | TCP tunnels (calls, callbacks), BGP listener (shared), client (messages) |
| TCP tunnels (`server/tunnels/make-tcp-tunnel.ts`) | socket, transcript, `closed` | connect directly or by HTTPS proxy, with a timer; `write`; `close`; `data`, `error` and `close` events | host, proxy, session |
| BGP listener (`utils/bgp-listener.ts`) | `targetIps`, callbacks, `ws`, `closed` | `onOverlap` and its cancel function, `onMessage`, `onOpen`, `onClose`, `close` | all tunnels of all sessions; RIPE feed |
| RPC client (`client/utils/client-socket.ts`) | one waiter per call, `isInitialised`, WebSocket state | `rpc`, `waitForResponse`, `waitForInit`, `sendMessage`, `terminateConnection` | attestor; client tunnels (events) |
| client tunnels (`client/tunnels/`) | TLS transcript, listeners | TLS records out and in, `close` | RPC client; TLS library; claim creation |
| claim creation (`client/create-claim.ts`, `utils/retries.ts`, `client/utils/attestor-pool.ts`) | `revealMap`, `lastMsgRevealed`, `waitForAllData`, attempts, pool of clients | connect, write the request in sections, wait, reveal, claim, retry | client tunnels, RPC client, providers |
| keep-alive (`server/utils/keep-alive.ts`) | two timers | message, pong, timer | session |
| claim verification (`server/utils/assert-valid-claim-request.ts`, `process-handshake.ts`) | none | compare transcripts, decrypt, replay the handshake, ask the provider | `claimTunnel` |
| redactions and ZK chunks (`utils/redactions.ts`, `utils/prepare-packets.ts`, `utils/zk.ts`) | none | slices to records, records to chunks | claim creation and verification |
| HTTP parser (`utils/http-parser.ts`) | parse position, partial response | `onChunk`, `streamEnded` | claim creation, provider |
| HTTP provider (`providers/http/`) | none | build the request, choose redactions, check the receipt | both sides |
| window RPC (`window-rpc/`) | requests under way over `postMessage` | request, response, step | claim creation |
| AVS tasks (`avs/contracts/src/ReclaimServiceManager.sol` of the repository, `avs/client/`, `avs/utils/`) | lists of operators, task hashes, metadata | whitelist, register, leave; create and complete tasks; collect signatures | chain, attestors, claim creation |
| protobuf codec (`proto/api.ts`) | none | `encode`, `decode`, `toJSON`, `fromJSON`, `fromPartial` of every message | all messages, signatures |
| mechain client, authentication and signatures, start-up, contract bindings, scripts and logging | - | - | - |

What is hard here is the same in every part: JavaScript runs a handler from one
`await` to the next, and everything else may happen in between.

- **Concurrent packets.** The messages of one packet are handled in order, each
  handler awaited; packets are handled concurrently. `init`, `createTunnel` and
  `claimTunnel` read state before an await and write it after.
- **Ends.** A WebSocket, a TCP socket, a TLS session, a proxy connection and a
  feed may end during any await, by an alert, an `error` event, a `close`
  event, a timer, or two of them in turn.
- **Shared state.** All tunnels share the BGP listener's set of addresses.
- **Asynchronous decoding.** In a browser a packet is a Blob that has to be
  read; packets can be handled out of order and after the `close` event.
- **Counting.** The client finds the records of a section by the growth of a
  transcript both sides append to.
- **Positions.** A match in a body becomes a range of the response with the size
  lines of its chunks, then bytes of TLS records, then slices of ZK proofs; each
  step has borders of its own, which fall anywhere in the others.
- **Late answers.** An app, an attestor or a chain may answer after the timer,
  twice, or never, while a retry is under way. Only the client's own
  calls have timers: nothing bounds the wait for a host's response.

What makes each part correct:

- session and tunnels: a tunnel only goes to a host that an accepted whitelist
  allows; a signed claim covers all that was sent; nothing moves on a claimed
  tunnel; no open tunnel is lost; every packet is handled to its end; tunnels
  close with their session.
- BGP listener: an announcement that overlaps a tunnel's address closes the
  tunnel; a closed tunnel leaves nothing behind; the feed is reopened until the
  listener is closed, and not after.
- RPC client: every call settles once, in the end, and resolves only with the
  attestor's result.
- claim creation: what is redacted stays hidden, all else is shown, the request
  is sent whole, and the client does not wait for ever.
- keep-alive: a silent peer is pinged and then dropped; a live one is not.
- parser: a response is read as it was written, however it is cut into records,
  and one that is not complete is noticed.
- redactions and ZK chunks: the attestor sees what was selected, nothing else,
  and exactly what the client meant it to see.
- window RPC: a request is answered once, whatever the app does with the calls
  that come back to it.
- AVS tasks: a completed task was attested by every operator picked for it.
- codec: the receiver holds what the sender held, and signs the same bytes.

`PROJECT.json` lists the hazards line by line with the property that covers each.

## 2. Modules

```
ServerSession   <- MCServerSession    (3 models)   <- ServerSessionProofs
BgpListener     <- MCBgpListener                   <- BgpListenerProofs
RpcClient       <- MCRpc                           <- RpcProofs
  RpcCall         abstract specification that RpcClient implements
Codec           <- MCRpc
ClaimCreation   <- MCClaimCreation    (2 models)   <- ClaimCreationProofs
KeepAlive       <- MCTimers                        <- KeepAliveProofs
WindowRpc       <- MCTimers                        <- RpcProofs
AvsTasks        <- MCAvsTasks         (2 models)   <- AvsTasksProofs
ResponseReveal  <- MCResponse         (2 models)   <- RevealInvariant
  HttpParser      the response and its two parses    <- HttpParserProofs
  ZkSlices        the proofs of one record           <- ResponseRevealProofs
```

`ResponseReveal` extends `HttpParser` and `ZkSlices`: what the first parses it
redacts, and the second has the proofs of one record and their verification.
Their loops are recursive functions over the number of rounds; `Codec`, about
which nothing is proved, uses recursive operators, as the code recurses over data.

An action is the code between two awaits of one handler, with every call it
makes. Definitions named `..._Bug` are wrong on purpose: each is the body of the
definition of the same name with a plausible mistake, and putting it in its
place must break a property, which shows that the property says something about
that code.

### ServerSession

`frame[f]` is a WebSocket packet and the state of the loop over its messages
(`wsMessageHandler`): `pc` is the await its handler is at. The frame `Query` is
the packet carried by the connection URL (`acceptConnection`), whose failure
ends the session. `tunnels`, `metadata`, `sock` and `transcript` are the map
`client.tunnels`, the accepted auth request, the TCP sockets and what their
tunnels recorded. `granted`, `onWire` and `signed` are history.

| Code | Actions |
|---|---|
| `message` listener, `handleMessage` | `ReceiveFrame`, `HandleAlert`, `RejectUninitialised`, `Respond`, `Advance`, `Abort` |
| `init` | `StartInit`, `FinishInit` |
| `createTunnel`, `connectTcp`, `getSocket` | `StartCreateTunnel`, `ProxyConnected`, `Connected`, `ConnectFailed`, `AbandonedProxy`, `BgpChecked`, `RegisterTunnel` |
| `handleTunnelMessage`, `write` | `HandleTunnelMessage` |
| `disconnectTunnel` | `HandleDisconnectTunnel` |
| `claimTunnel` | `StartClaimTunnel`, `CheckClaim` (`assertTranscriptsMatch`), `FinishClaimTunnel` |
| socket events, BGP callback | `ServerData`, `SocketClosed`, `BgpOverlap` |
| end of the session | `TerminateConnection`, `AlertSent`, `WsClosing`, `WsError`, `WsClosed` |

The verdict of the auth check, of the claim checks other than the comparison of
transcripts and of the time stamp, and the failure of a signature are
nondeterministic. A tunnel goes through the proxy or not by the constant
`UsesProxy`, fixed in a model. toprf and the on-chain handlers keep no state.

### BgpListener

`targetIps`, `listening`, `ws` and `closed` are the variables of
`createBgpListener`; `conn` has the state of every WebSocket object it made, the
old ones too, since their handlers still run. An update is a sequence of
announcements of prefixes; a prefix may be a default route, or one the CIDR
parser throws on, which ends `onMessage`. Exceptions that leave an event handler
end the process (`crashed`).

### RpcClient and RpcCall

A call registers a waiter, sends, and awaits the waiter (`StartRpc`, `Sent`,
`SendFailed`, `SettleWaiters`); the waiter is settled by a response, the end of
the connection or its timer. `ReceivePacket` is the `message` event,
`HandlePacket` what happens after the packet has been decoded. The attestor
answers a request once or not at all.

`RpcCall` is what the caller of `rpc()` sees: idle, pending, then resolved or
rejected, resolved only if the attestor gave a result, and never pending for
ever. `RpcClient` implements it with `status` computed from `pc` and `outcome`.

### ClaimCreation

One attempt after another (`Fail` is `executeWithRetries`; the verdict of
`shouldRetry` is nondeterministic). The request is cut into sections, blocks to
reveal and redactions alternating; a section is written in TLS records
(`BeginWrite`, `WriteRecord`, `EndWrite`) after a key update where the reveal
changes (`UpdateTrafficKeys`). `transcript` has the records of both sides with
the number of the client's traffic keys they were sent under. Server records,
the end of the session and the timer of a complete response come at any await.
The TLS library is external: a key update is sent under the old keys
(`docs/claim-creation.md:112-122`) and handshake keys differ from those of
application data (TLS 1.3). Between the end of the handshake and the creation of
`waitForAllData` the event loop does not turn; `StartRequest` is one step.
Redactions are what the HTTP provider makes: ordered, disjoint, not empty except
for one at the start when there are no secret headers.

### KeepAlive

Discrete time. `sendTimeout` and `killTimeout` are the ticks their timers have
left; time stands still while something is due, and what is due in one tick
happens in any order. `OnMessage` and `OnPong` are the listeners, `SendTimeout`
and `KillTimeout` the timers, `OnError` and `OnClose` the two that call
`cleanup`. `Attach` is the end of `handleNewClient`: packets that come before it
are not heard, and the socket may be closing or closed by then. `PeerGoesSilent`
is a peer that vanishes without TCP noticing. `KeepAliveAssumption` is the margin
that 10 s and 30 s leave: one ping in a row may be lost and a pong may take up to
three quarters of an interval.

### WindowRpc

`handler[r]` is one run of `handleMessage`, `call[c]` one `waitForResponse`. The
answer goes to a channel, to `event.source`, or nowhere; with neither, posting
it throws, and so does posting the error, which rejects `handleMessage`
(`respond`). `Start` is every request that awaits something, `AnswerAtOnce` every
one that does not, `Ignore` the early returns, `Garbled` a string that is not
JSON. `AttemptSucceeds` and `AttemptFails` are the end of an attempt of
`executeWithRetries`; `leftover` has the attempts that failed while
`generateProofs` still had proofs in its queue, which go on calling the app.
`AwaitOther` and `OtherEnds` are the waits of a claim that are not for the app
and have no timer: for the host's handshake and response
(`client/create-claim.ts:259`), and for transactions on a chain.

### AvsTasks

A transaction is a step. `registeredOperators` and `whitelistedOperators` are
arrays in which `delete` leaves a zeroed entry. The random choice of
`pickRandomOperators` is any choice of distinct entries with enough weight.
Hashes and signatures are ideal: a hash is what it was taken of, so a stored
task hash is the flag `open`, and a signature is the record of what was signed.
`context` says whether the context of the claim already holds what an attestor
adds to it (`assertValidProviderTranscript` writes `providerHash` into it). A
task may be paid for by the owner or through an attestor, whose answer can get
lost after the transaction was mined (`RequestFails`). `AnyoneCompletes` replays
any of the signatures there are. `registerOperator` is `registerOperatorToAVS`
followed by `updateOperatorMetadata`, two transactions between which anything
may happen.

### HttpParser, ResponseReveal and ZkSlices

A response is a sequence of symbols, a line's text being one of them and CR and
LF two others, so that a cut can fall inside a line and between CR and LF. Chunks
and TLS records are given by where they end: `response.ends` in the body,
`blocks` in the stream.
`OnMessage(n)` is a TLS record with the next `n` symbols, `n` may be 0;
`onChunk`, `readBody` and `streamEnded` are the parser's functions on its state;
`inc` is the parser fed record by record, `res` the one `parseHttpResponse` uses
on the whole. `HeaderLine` and `ChunkLine` are one round of the two loops of
`onChunk`; `ReadHeaders` and `ReadChunks` take as many rounds as there are
symbols, more than the loops can, and a round with no line left changes nothing.
The wait ends with the connection (`OnClose`) or the timer
(`ResponseTimer`).

`ResponseReveal` goes on from there. What an entry of `responseRedactions`
matches is any range of the body, shown, hashed, or hashed in its group only, and
`Requests` is any list of such matches, of any length and in any order (`Items`);
`getResponseRedactions`, `convertResponsePosToAbsolutePos` and
`getRedactionsForChunkHeaders` are the provider's, `redactBlocks` and `advance`
those of `getBlocksToReveal`. `SortByEnd` is the stable sort by `toIndex` that the
provider uses twice: slices carry their place in the list before it. What lies
behind the last reveal is a slice even when it is empty, as in the code
(`providers/http/index.ts:227`); a TOPRF that would be noted behind the last block
makes the claim fail (`OutOfBlocks`, `utils/redactions.ts:134`). `ZkSlices` has what happens to one record: `Rest`,
`Pieces`, `ToprfSlice` and `Proofs` are the slices of `addPacketToProve`,
`Congruent` and `Decrypted` what `verifyZkPacket` does. A redacted plaintext holds per byte: the byte, an asterisk, or
a character of a nullifier. The circuit is external (`Provable`).

### Codec

The schema of every message type of `api.ts`, field by field, and one `Encode`,
`Decode`, `ToJSON`, `FromJSON` and `FromPartial` for all of them: the generated
functions of a type differ in their fields only. A message on the wire is a
sequence of tokens (field number, wire type, value); `Read` keeps the generated
decoder's rules for unknown fields, wrong wire types and repeated messages.
`NewerField` is a peer whose schema has one more field. The bounds of integers
are `MaxSafe`, above which `longToNumber` throws (`Readable`, at any
depth of a message; the outcome is then `Thrown`). Ids one above it are among
those sent.

## 3. Models

| Run | Shows | Bounds |
|---|---|---|
| `session_safety` | `HostWhitelisted`, `ClaimCoversWire`, `ClaimFreezesTunnel`, `OrphanNeedsIdReuse`, `BatchedWriteFindsTunnel` (2.5 million states) | three packets (one in the URL), one tunnel id, two hosts, two sockets, 2 messages out and 1 in per tunnel |
| `session_liveness` | `EveryFrameEnds`, `MappedTunnelsClose` | the same with two packets, through the proxy |
| `session_leak` | finding: a tunnel outlives its session | |
| `bgp_listener` | `NoStaleTarget`, `MissNeedsSharedIp`, `CurrentSubscribed`, `ClosedForGood`, `Resubscribes` (128 thousand states) | two tunnels, two addresses, four prefixes, three WebSockets |
| `rpc` | `ClosedLeavesNoWaiter`, `InitialisedByServer`, `ImplementsRpcCall`; `DecodedAsSent`, `JsonRoundTrip`, `SignedBytesSurvive` (177 thousand states) | the init call and one `rpc()`, two packets under way; every type, every pair of its fields at every edge, two fields of a newer version |
| `claim_creation` | `HiddenUnlessCrossed`, `ShownUnlessCrossed`, `RequestWritten`, `WaitEnds` (400 thousand states) | two attempts, a request of five units in records of two, four sets of redactions, two server records |
| `claim_crossed` | finding: a server record during a write shifts the reveals | |
| `timers` | `LivePeerKept`, `NoTimerAfterClose`, `SilentPeerDropped`; `OneReply`, `OpenCallsAreLeftovers`, `EveryRequestAnswered`, `ListenersGo` (254 thousand states) | intervals of 4 and 12 ticks of 2.5 s, one lost ping in a row, pongs of up to 3 ticks; two requests, two calls, two attempts, one wait on a host or a chain in each (`MaxWaits`) |
| `avs_tasks` | `SoundCompletion`, `PickedDistinct` (2.9 million states) | two operators that have registered, two runs of one owner, at most two signatures per task (`MaxSignatures`), three transactions of admins and operators (`MaxChanges`), two points of time (`MaxTime`) |
| `avs_context` | finding: no operator signs the claim of a task | as `avs_tasks` |
| `response` | `ParsedAsSent`, `EarlyEndSeen`, `OnlySelectedShown`, `SelectedShown`, `AttestorSeesClientsView` (258 thousand states) | bodies of up to 3 symbols in every framing, 3 records (`RevealRecords` = 2 where reveals are explored), requests of `MCRequests`, chunks of 4 bytes of 2 cipher blocks, TLS 1.3 suffix |
| `early_end` | finding: a chunked response without its end is taken for complete | as `response` |

*Why the bounds are enough.* Two packets race for a tunnel id and a third writes
or claims; two sockets are the two tunnels that can get the same id; two hosts
are one the whitelist allows and one it does not. Two tunnels and two addresses
give disjoint, shared and equal sets of addresses. Three WebSockets give a
failure that opens two, which is where events of an old one meet the new one. One
call and the init call are two waiters of different kinds, and calls do not share
anything but the connection; the proofs cover any number. Five units in
records of two give sections of none, one, and several records, redactions at
either end, adjacent ones and an empty one; two server records are enough to
shift the count over a key update and over the record before it. A second attempt is
enough to see what carries over.

Four ticks to an interval let a pong overtake the next ping and arrive in the
tick in which a timer is due. Two calls are one that fails while the other is
open, in one attempt or in two requests. Two operators and two signatures per
task are the least at which a task can lack one, and two runs of one owner can
have tasks of the same block, whose signatures fit both. Three symbols of a body
give up to three chunks, a line end inside the body, matches at either end and
across one or two size lines, and two of them nested; three records put two
cuts anywhere in the stream, the line ends included. A record of up to 16 symbols with chunks of
four gives hashes inside a chunk, across two, and at the end of a record. Fields
of a message are encoded one by one, so pairs are all the interference there is.
`MCRpc` and `MCTimers` each explore two components that share no state, one of them
while the other has not begun: their interleavings have nothing to say about either.
`MCResponse` runs `MCNext`, whose steps are steps of `Next`: `MCRequests` are the
lists of matches TLC tries (none, an empty one, one of any kind, and two of which
the second is shown or both are hashed), and `MCExplored` the responses it tries
them on (a whole one whose connection closed, or one record). The theorems are of
`Spec`, with any list of matches and any response.
`MCAvsTasks` starts past the registration of its operators, a state that
`AvsTasks!Init` leads to, with the count of changes at 0.

All runs say `CHECK_DEADLOCK FALSE`: a session, a listener, a connection and an
attempt come to an end, after which nothing happens.

*Fairness.* Session: an await of a handler ends (`connectTcp` has a timer, DNS
and signing return), a destroyed socket emits `close`, and so does a closing
WebSocket. BGP: a connection attempt succeeds or fails, and a failed WebSocket
emits `close`; since `Ws` is finite the feed fails a finite number of times in
the model. RPC: timers fire and the library reports the end of a send. Claim:
timers fire and the continuation of a settled promise runs. Keep-alive: time
passes, due timers fire, and a closing socket is closed in the end, as the `ws`
library destroys the connection of a peer that does not answer. Window RPC:
timers fire, and an attempt that waits for nobody ends. Its waits for a host or a
chain need not end, since `await waitForAllData` (`client/create-claim.ts:259`) and
`tx.wait()` have no timer; `EveryRequestAnswered` is therefore conditional: if no
such wait lasts for ever (`[]<>~awaits`), every request is answered, whatever the
app does. A host that neither answers nor closes leaves the request unanswered.
Peers, feed, network, app, host and attestor owe nothing in any of them.

*Properties with an exception in them* say what the code does and where it stops
doing it; the exception is stated in terms of what happened, and is needed:

- `MissNeedsSharedIp` (a cancelled tunnel shared the address: `bgp-listener.ts:41`
  deletes it for everyone);
- `HiddenUnlessCrossed`, `ShownUnlessCrossed` (a server record fell into a write);
- `OrphanNeedsIdReuse` (a client used a tunnel id twice);
- `OpenCallsAreLeftovers` (calls of an answered request are those of a queue of
  proofs that was left running);
- `EveryRequestAnswered` (no wait on a host or a chain lasts for ever);
- `OnlySelectedShown`: not with an empty TLS record, which costs
  `getBlocksToReveal` a step of its cursor (`utils/redactions.ts:163`), and not with a reveal nested in another behind the size line of
  a chunk, since redactions are applied in the order of their ends by a cursor that
  does not go back (`providers/http/index.ts:215`);
- `SelectedShown`: a good response is refused only for bytes to be hashed that
  start a chunk or span two, span two records, do not fit one proof, or are too
  close to others (`CannotHash`), or that are the last of the response
  (`HashAtEnd`);
- `EarlyEndSeen`: a chunked response that ends between two chunks is taken for
  complete (`early_end`);
- `SilentPeerDropped` (a packet was heard after the keep-alive was attached: the
  timers start with the first one);
- `SoundCompletion` and `PickedDistinct`: a zeroed entry of the list of operators
  can be picked, and a task that has one cannot be completed.

## 4. Proofs

The theorems hold for any values of the constants that satisfy the named
assumptions, which TLC evaluates in every run. `SessionAssumption`,
`BgpAssumption`, `RpcAssumption`, `WindowAssumption` and `AvsAssumption` say only
of what kind the constants are, and `SizesAssumption` that a chunk is made of
cipher blocks. Two say more:

- `KeepAliveAssumption`: a peer that loses `MaxLost` pings in a row and answers
  the next within `RoundTrip` is still heard before the kill timer. With the
  code's 10 s and 30 s that is one lost ping and a pong within less than 10 s.
- `ClaimAssumption`: redactions are in order and do not overlap, and one of them is
  empty only at the start of the request. That is what `createRequest` of the
  HTTP provider returns: the secret headers, whose text is looked up in the
  request and found at 0 when there are none, and then the values of secret
  parameters (`providers/http/index.ts:115-150`).

The invariants below were checked by TLC on the instances of section 3 before
they were proved, except those of RevealInvariant, which quantify over all
numbers; there TLC checked the properties they imply.

**ServerSessionProofs** - `TypeOK`, `HostWhitelisted`, `ClaimCoversWire`,
`ClaimFreezesTunnel`, `OrphanNeedsIdReuse` and `BatchedWriteFindsTunnel`. None of
them is inductive. The
invariant `IInv` adds what a handler may rely on after an await (`FrameOK`: while
`claimTunnel` waits, its socket is destroyed or closed, a state that is never
left; while `createTunnel` waits, its socket is connecting, for the id it was asked for), that no two
handlers wait for one connection (`SoleCreator`), that the map has established
sockets under their own id (`MapOK`), that no more was sent than recorded
(`WireOK`), that the condition checked before a signature still holds after it
(`SignedOK`), and that the session's auth request is one that was accepted
(`GrantOK`). `ClaimFreezesTunnel` follows because `SignedOK` keeps the socket of
a signed claim shut, and a shut socket neither sends nor receives.
`BatchedWriteFindsTunnel` speaks of the earlier messages of a packet, so its
invariant `BatchInv`, inductive relative to `IInv`, does too: an `init` the loop
has passed has set `metadata` (`InitsDone`), hence a `createTunnel` behind it that
the loop has passed was not refused and its id is in the map (`CreatesDone`),
which only a claim takes it out of (`TunnelStays`). `LoopStep` is what any step may
do to the loop over one packet.

**BgpListenerProofs** - `TypeOK`, `NoStaleTarget`, `MissNeedsSharedIp`,
`CurrentSubscribed` and `ClosedForGood`. `IInv` adds `WatchOK` (an address of a
live tunnel is watched unless a cancelled tunnel shared it) and `DueOK`.

**RpcProofs** - of RpcClient, `TypeOK`, `ClosedLeavesNoWaiter`, `InitialisedByServer`,
and `RpcRefinesCall`, the safety part of `ImplementsRpcCall`: every step of the
client is a step of `RpcCall` or leaves its variables alone. `IInv` adds
`PacketsOK` (a response with a result, wherever it is under way, answers a call
in `results`), `InitOK`, and `CallOK` (how `pc`, `waiter` and `outcome` of a call
go together).

Of WindowRpc, whose names have a prefix to be extended together with RpcClient's:
`WindowTypeOK`, `OneReply` and `OpenCallsAreLeftovers`. `HandlerOK`
adds that nothing was posted before a handler is answered, whatever attempt it
is at, and that a handler that has not started has left nothing behind.

**ClaimCreationProofs** - `TypeOK`, `HiddenUnlessCrossed`, `ShownUnlessCrossed` and
`RequestWritten`, for any size of the request and of a TLS record and any
redactions. `IInv` says at each await

- how far the request is written (`Progress`): its records so far tile the
  request up to the section or the record the write is at. `RequestWritten` is
  the last case of it; it needs that sections follow each other without a gap,
  and that one with nothing in it is skipped (`SectionFacts`);
- that a traffic key encrypts redacted data only or public data only
  (`KeysOfOneKind`), of which kind the current one is (`CurrentKey`:
  `lastMsgRevealed` tells, and keys are updated whenever it changes), and that a
  key update is the last record under its key (`KeysOrdered`). So the keys of the
  records marked for reveal are not those of redacted data;
- that without a server record in between, the growth of the transcript since a
  section began is that section's records (`SectionRecords`), hence
  `LastBlocks` marks those and no others (`LastBlocksOfSection`, by the
  cardinality of the set it takes), and all public records of earlier sections
  stay marked (`Marks`).

The proof found a definition that did not say one thing: two guards of a `CASE` in
`EndWrite` were both true with ZK and a public section, where TLA+ leaves the
choice open and TLC takes the first. It is now an `IF`, as in the code.

**KeepAliveProofs** - `TypeOK`, `LivePeerKept` and `NoTimerAfterClose`. A live peer
is kept because (`InTime`) a pong under way arrives before the kill timer, or the
timer has more ticks left than `Budget`: the ticks to the next ping, one interval
for each ping that may still get lost, and the time of a pong. `TimersOK` adds
that the kill timer does not run without the ping timer, without which a live
peer would have nothing to answer.

**AvsTasksProofs** - `TypeOK`, `SoundCompletion` and `PickedDistinct`. `IInv` adds that `registeredOperators` has an address
once, zeroed entries aside (`Distinct`: an entry is appended only if the address
is not found, and `delete` zeroes the one it finds), that a completed task is
closed, so that no replay completes it again (`CompletionsClosed`), and that a
client holds responses only of attestors, and none for a context they had to
extend (`ClientOK`).

**HttpParserProofs** - `ParsedAsSent` and `EarlyEndSeen` and
**ResponseRevealProofs** - `AttestorSeesClientsView`, `OnlySelectedShown` and
`SelectedShown`, for bodies, chunks, TLS records, lists of matches, ZK chunks and
cipher blocks of any size and number. `RevealInvariant` has the predicates and invariants of both. Besides the
bounds it takes `NoneAssumption`: `None` is none of the values it stands for the
absence of.

*Loops.* The prover has no induction over data, but a set of natural numbers has
a least element (`LeastOf`), and so what holds of round 0 and is passed from each
round to the next holds of all of them (`UpTo`); a loop that ends by itself has
ended before a measure that falls in every round runs out (`LoopEnds`). Each loop
of the code is unfolded once into its rounds and then only spoken of through
these two.

*The parser.* `ParserInv` says where the parser fed record by record stands after
`Received` bytes (`Settled`): in front of the line of the headers that has not
arrived whole, in a body that ends by its length or with the connection, or
(`Stuck`) in, behind or in front of the data of some chunk. The invariant names each
of these states field by field, in terms of the response and of `Received` alone. Reading
more settles the parser again, wherever it was and wherever the record ends, the
CR without its LF included; so the parser fed in one piece, which reads everything
from the beginning, comes to the same state. A whole response leaves one state
only, which is `ParsedAsSent`; `EarlyEndSeen` is which of the states `streamEnded`
accepts.

*The records.* `SlicesTile`, about one record and any number of hashes in it: what
the slices with hashes leave is cut into pieces that overlap neither each other nor
these slices, and no byte is left out. A part of the rest goes from the end of one
slice to the next start (`StopIsNext`); no slice reaches into it (`PartIsFree`), two
of them are apart (`PartsInOrder`), and a byte outside all slices is in the part
that starts last before it (`PartsCover`); pieces of a part are apart because two
multiples of the chunk size are. With it `AttestorSeesRecord`: the text
`verifyZkPacket` puts together is the one the client redacted, with the asterisks of
the slices that have no proof; and `ProofsApart`. `ProofsAreProvable`: whatever
passes the checks of `addPacketToProve` and fits into a chunk from the start of its
cipher block is accepted by the circuit; the code's own check of that condition
(`utils/zk.ts:697`) compares blocks with bytes, so the theorem has to assume it.

*The walk.* `RevealInv` is `ParserInv` and: the records tile what was received
(`BlocksInv`); what the walk left in the clear is to be shown, or one of its TOPRFs is
out of place, and what is selected is shown or replaced by its nullifier (`WalkInv`);
the proofs are those of the walk and the circuit has
accepted them (`ProofInv`); the attestor's view is the client's (`ViewInv`, hence
`AttestorSeesClientsView`: byte `p` is in one record, of which `AttestorSeesRecord`
speaks); a good response was refused only for bytes that cannot be hashed
(`RefusedInv`). Without an empty record the block and the place in it of the cursor of
`getBlocksToReveal` are those of the position it is at (`AtCursor`), and what becomes of
a byte is decided by the first redaction that ends behind it: overwritten if that
redaction covers it, left as it is if it starts behind it (`WrittenAs`).

`OnlySelectedShown` follows in three steps. If a byte left in the clear were in
front of the first reveal that ends behind it, the gap in front of that reveal would
cover it; the gap can only be skipped by a size line that ends between the two,
which is the nested case the property excludes. So the byte is in a reveal. In the
reveal of a match it is a byte of a chunk's data, since the size lines in it are
redacted. And it is not in a hashed one: a nullifier is written over it, unless a
size line moved the cursor into it first, and then the TOPRF was noted at a place
where other bytes are, and the circuit refuses the proof (`BadToprfRefused`).

`SelectedShown` is the converse. When no match lies in another, a gap covers no byte
of a reveal (`GapsOutside`) and a size line no byte of a chunk's data
(`SizeLineData`), so the redaction that decides about a selected byte is a hashed
reveal or starts behind it (`ShownStays`, `HashedNullified`). For the refusals: if
all bytes to be hashed can be (`Hashable`, the negation of `CannotHash` and
`HashAtEnd`), no redaction reaches into a hashed reveal (`HashReached`), so that each TOPRF is noted
where its bytes are, in one record, and every nullifier stands there and nowhere
else (`InPlace`, which is part of `WalkInv`). Then nobody has a reason to refuse:
not `getResponseRedactions` (`RefusedGood`), not `addPacketToProve` and the circuit,
as the slices of hashes two chunks apart do not meet (`InPlaceProvable`), and not
the attestor, for which every byte of a proof is the nullifier's, clear or an
asterisk (`InPlaceCongruent`). The reasons named in `CannotHash` and `HashAtEnd` are
therefore enough for any chunk and cipher block size.

The end of the response is a case of its own. The slice behind the last reveal may
be empty there, and is sorted in front of a hashed reveal that ends at the last
byte; the cursor is then behind the last block, where no TOPRF can be noted
(`AtCursor`, `NotedAt`). A walk that noted all of its TOPRFs in blocks has therefore
no hashed reveal at the end (`NoneAtEndNoted`), and bytes that can be hashed are not
there (`HashableNoneAtEnd`).

Only model-checked:

- the liveness properties `EveryFrameEnds`, `MappedTunnelsClose`, `Resubscribes`,
  `WaitEnds`, `SilentPeerDropped`, `EveryRequestAnswered`, `ListenersGo` and the
  liveness half of `ImplementsRpcCall`: liveness under fairness and `ENABLED` are
  out of the prover's reach;
- `DecodedAsSent`, `JsonRoundTrip` and `SignedBytesSurvive`: they say what recursive
  definitions compute for messages nested to any depth, which needs induction over
  data, and the prover cannot use its induction theorems.

## 5. Findings

1. `session_leak`: a `createTunnel` that ends after the WebSocket has closed
   puts an open tunnel into the map; `server/socket.ts:29` says "close all
   tunnels when the connection is terminated".
2. `claim_crossed`: `writeWithReveal` counts server records as its own
   (`client/create-claim.ts:372`), and then marks the key update before the
   block, sent under the keys of the redaction before; `docs/claim-creation.md:124`
   says only the keys of the public blocks are sent. `HiddenUnlessCrossed` and
   `ShownUnlessCrossed` show that it takes such a record.
3. `avs_context`: an operator signs the context it extended, the task holds the
   one requested, and `createClaimOnAvs` gives up on the difference
   (`avs/client/create-claim-on-avs.ts:76`). `docs/avs.md:17-46` shows the call
   without a context, and `avs/tests/test.operator.ts:192-219, 356-389` expects it to
   succeed, with a function of the test in the place of the attestor.
4. `early_end`: `streamEnded` does not ask whether the chunk of size zero arrived
   (`utils/http-parser.ts:171`); its comment says "Checks that the response is valid &
   complete, otherwise throws an error". `RES1` in `tests/test.http-parser.ts` is
   such a response, and the test expects it to be accepted.

Observations, each visible in a model but without a run of its own:

- `write` records a message before the socket takes it, and a disconnected tunnel
  stays in the map, so that a message that was never sent is signed
  (`server/tunnels/make-tcp-tunnel.ts:60`), though line 28 says the transcript is
  "of all messages sent and received". `ClaimCoversWire` is the half that holds.
- Cancelling one tunnel's listener deletes addresses others watch
  (`utils/bgp-listener.ts:41`), though `server/handlers/createTunnel.ts:108` says an
  overlap closes the tunnel. `MissNeedsSharedIp` says that nothing else makes the
  listener miss one.
- Bytes no entry selects stay in the clear when a match lies in another one behind
  the size line of a chunk (`providers/http/index.ts:215`) or a TLS record has no
  data (`utils/redactions.ts:163`), though
  `provider-schemas/http/parameters.yaml:107-110` of the repository says the
  attestor "will only be able to see the selected portions alongside the first line
  of the HTTP response". `OnlySelectedShown` says that these two are all.
- The empty slice behind a hashed match at the end of the response takes the cursor
  out of the blocks, and the claim fails with a `TypeError`
  (`providers/http/index.ts:227`, `utils/redactions.ts:134`). `SelectedShown` says
  that it takes the end of the response.
- In a browser the `close` event can overtake an alert whose Blob is still being
  read (`utils/generics.ts:260`), and pending calls get its error instead of the
  alert's, which `docs/rpc.md:113` promises.
- `getIdealOffsetForToprfBlock` compares an end counted in blocks with a start in
  bytes (`utils/zk.ts:697`), so its error is rare; the circuit or the attestor
  refuses such proofs instead (`CannotFit` and `Provable` in ZkSlices; `ProofsAreProvable` says
  what it takes for them not to).

## 6. Not modelled

- Cryptography: TLS record protection and key schedule (TLS 1.2 in particular,
  where handshake and application data share keys), ZK circuits, TOPRF, signatures.
- What regular expressions, XPath and JSONPath match: any range of the body. The
  group of a regular expression is found by the first occurrence of its text
  (`providers/http/index.ts:555`), which the model takes to be the group. An empty
  group, which becomes a hashed reveal of no bytes and a call of the OPRF operator
  with nothing to hash, is left out: what the operator does with it is cryptography.
- The HTTP provider's request: building it, substituting parameters, and the
  checks of the receipt are string processing with hardly any control.
- Trailers behind the last chunk of a response, and
  `getHttpRequestDataFromTranscript`.
- `processHandshake`: replays TLS handshake messages with the TLS library.
- Contents of request records under ZK (`client/create-claim.ts:352`), and the
  pool of clients.
- Contract bindings and ABIs (generated data), start-up and static files,
  scripts, logging and telemetry: I/O.
- The mechain client: one transaction and a loop over attestors on a remote chain.
- Unhandled promise rejections, which are a rule of the host runtime.

## 7. Plan

Done: every module of section 2 with its models, and proofs of all safety
properties of ServerSession, BgpListener, RpcClient, ClaimCreation, KeepAlive,
WindowRpc, AvsTasks, HttpParser and ResponseReveal.

1. `Handshake`: the order of messages `processHandshake` accepts.
2. A composition of ServerSession and BgpListener that bounds the callbacks left
   behind by a socket that closes during the DNS lookup, and of the client pool
   with RpcClient.
