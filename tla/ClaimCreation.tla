--------------------------- MODULE ClaimCreation ---------------------------
(***************************************************************************)
(* createClaimOnAttestor (client/create-claim.ts) and its retries          *)
(* (utils/retries.ts), on a TLS tunnel (tunnels/make-rpc-tls-tunnel.ts)    *)
(* whose session may end, and whose server may send, during any await.     *)
(*                                                                         *)
(* The request is written in sections: what the provider redacts is        *)
(* encrypted under traffic keys of its own (or proven with a ZK proof),    *)
(* the keys of the other sections are revealed to the attestor.  Which     *)
(* records of the transcript belong to the section just written is found   *)
(* by counting records.                                                    *)
(***************************************************************************)
EXTENDS Naturals, Sequences, FiniteSets

CONSTANTS
  maxRetries,    \* attempts createClaimOnAttestor makes
  Size,          \* length of the request, in units of data
  RecordSize,    \* units of data a TLS record holds
  Redactions,    \* redactions createRequest may return
  MaxServer      \* bound on the records the server sends after the handshake

(* Redactions do not overlap and are sorted; an empty one is that of empty *)
(* secret headers, which are found at the start of the request.            *)
ASSUME ClaimAssumption ==
  /\ maxRetries \in Nat \ {0} /\ Size \in Nat \ {0}
  /\ RecordSize \in Nat \ {0} /\ MaxServer \in Nat
  /\ Redactions \subseteq Seq([fromIndex : 0..Size, toIndex : 0..Size])
  /\ \A r \in Redactions :
       /\ \A i \in DOMAIN r : \/ r[i].fromIndex < r[i].toIndex
                              \/ r[i].fromIndex = 0 /\ r[i].toIndex = 0
       /\ \A i, j \in DOMAIN r : i < j => r[i].toIndex <= r[j].fromIndex

VARIABLES
  retries,       \* attempts that have failed
  result,        \* how createClaimOnAttestor ended
  pc,            \* the await the attempt is at
  mode,          \* redactionMode
  redactions,    \* redactions of the request
  section,       \* section of the request that is written
  todo,          \* where the rest of the section starts
  before,        \* tunnel.transcript.length when its write began
  transcript,    \* tunnel.transcript
  key,           \* number of the client's traffic keys (0: handshake keys)
  lastMsgRevealed,
  revealMap,     \* records to reveal completely (with their key), or by ZK
  tlsOpen,       \* onClose of the TLS tunnel has not been called
  ended,         \* the promise waitForAllData ("unset": not created)
  resDone,       \* a complete response was parsed, its timer is running
  writeFailed,   \* history: the write of the request was given up
  crossed        \* history: the server sent a record during a write

retryVars == <<retries, result>>
requestVars == <<mode, redactions>>
writeVars == <<section, todo, before, key, lastMsgRevealed>>
sessionVars == <<tlsOpen, ended, resDone>>
history == <<writeFailed, crossed>>
vars == <<retryVars, pc, requestVars, writeVars, transcript, revealMap,
          sessionVars, history>>

Packet(sender, type, k, from, to) ==
  [sender |-> sender, type |-> type, key |-> k, from |-> from, to |-> to]

Init ==
  /\ retries = 0 /\ result = "pending" /\ pc = "connecting"
  /\ mode = "key-update" /\ redactions = <<>> /\ section = 1 /\ todo = 0
  /\ before = 0 /\ transcript = <<>> /\ key = 0 /\ lastMsgRevealed = FALSE
  /\ revealMap = [complete |-> {}, zk |-> {}] /\ tlsOpen = TRUE
  /\ ended = "unset" /\ resDone = FALSE
  /\ writeFailed = FALSE /\ crossed = FALSE

(* _createClaimOnAttestor is called again: all its variables are new.      *)
NewAttempt(p) ==
  /\ pc' = p
  /\ mode' = "key-update" /\ redactions' = <<>> /\ section' = 1 /\ todo' = 0
  /\ before' = 0 /\ transcript' = <<>> /\ key' = 0 /\ lastMsgRevealed' = FALSE
  /\ revealMap' = [complete |-> {}, zk |-> {}] /\ tlsOpen' = TRUE
  /\ ended' = "unset" /\ resDone' = FALSE
  /\ writeFailed' = FALSE /\ crossed' = FALSE
----------------------------------------------------------------------------
(* The sections of the request: the odd ones are the blocks around the     *)
(* redactions, the even ones the redactions.  With ZK the request is one.  *)
Cuts == IF mode = "zk" THEN <<>> ELSE redactions
Sections == 2 * Len(Cuts) + 1
Revealed(s) == s % 2 = 1
From(s) == CASE s = 1        -> 0
             [] s % 2 = 0    -> Cuts[s \div 2].fromIndex
             [] OTHER        -> Cuts[s \div 2].toIndex
To(s) ==   CASE s = Sections -> Size
             [] s % 2 = 0    -> Cuts[s \div 2].toIndex
             [] OTHER        -> Cuts[(s + 1) \div 2].fromIndex

(* block.length = 0: a block between redactions that is not written.       *)
NothingToWrite == Revealed(section) /\ From(section) = To(section)

(* Wrong on purpose, as every definition named _Bug: it shows that a       *)
(* property can fail.                                                      *)
LastBlocks_Bug(sender, n) ==
  {i \in DOMAIN transcript : i = Len(transcript)}

(* getLastBlocks: the last n records of a sender.  The scan stops when it  *)
(* has found n of them, so for n = 0 it goes through all of them.          *)
LastBlocks(sender, n) ==
  LET Of(i) == {j \in i..Len(transcript) : transcript[j].sender = sender}
  IN {i \in Of(1) : n = 0 \/ Cardinality(Of(i)) <= n}

(* setRevealOfMessage for a set of records.                                *)
Mark(kind, blocks) ==
  revealMap' = [k \in {"complete", "zk"} |->
                  IF k = kind THEN revealMap[k] \cup blocks
                  ELSE revealMap[k] \ blocks]

NeedsKeyUpdate_Bug == FALSE

NeedsKeyUpdate ==
  mode = "key-update" /\ Revealed(section) # lastMsgRevealed
----------------------------------------------------------------------------
(* The attempt threw: executeWithRetries starts another one unless it has  *)
(* made maxRetries of them, or shouldRetry says no to the error.           *)
Fail ==
  /\ retries' = retries + 1
  /\ \/ /\ retries + 1 < maxRetries
        /\ NewAttempt("connecting") /\ UNCHANGED result
     \/ result' = "error" /\ NewAttempt("done")

(* makeRpcTlsTunnel has made the handshake, createRequest returns what to  *)
(* write (or throws), and waitForAllData is created: the event loop does   *)
(* not turn in between.  Any mode: TLS 1.2 makes a key update a ZK reveal. *)
StartRequest ==
  /\ pc = "connecting"
  /\ \/ \E m \in {"key-update", "zk"}, r \in Redactions :
          /\ mode' = m /\ redactions' = r /\ pc' = "section"
          /\ transcript' = <<Packet("server", "handshake", 0, 0, 0),
                             Packet("client", "handshake", 0, 0, 0)>>
          /\ key' = 1 /\ ended' = "pending"
          /\ UNCHANGED <<retryVars, section, todo, before, lastMsgRevealed,
                         revealMap, tlsOpen, resDone, history>>
     \/ Fail

SkipEmpty_Bug ==
  /\ pc = "section" /\ Revealed(section)
  /\ IF section = Sections THEN pc' = "waiting" /\ UNCHANGED section
     ELSE section' = section + 1 /\ UNCHANGED pc
  /\ UNCHANGED <<retryVars, requestVars, todo, before, key, lastMsgRevealed,
                 transcript, revealMap, sessionVars, history>>

SkipEmpty ==
  /\ pc = "section" /\ NothingToWrite
  /\ IF section = Sections THEN pc' = "waiting" /\ UNCHANGED section
     ELSE section' = section + 1 /\ UNCHANGED pc
  /\ UNCHANGED <<retryVars, requestVars, todo, before, key, lastMsgRevealed,
                 transcript, revealMap, sessionVars, history>>

(* tls.updateTrafficKeys(): the key update is sent under the old keys.     *)
UpdateTrafficKeys ==
  /\ pc = "section" /\ ~NothingToWrite /\ NeedsKeyUpdate
  /\ transcript' = Append(transcript, Packet("client", "handshake", key, 0, 0))
  /\ key' = key + 1 /\ pc' = "updated"
  /\ UNCHANGED <<retryVars, requestVars, section, todo, before,
                 lastMsgRevealed, revealMap, sessionVars, history>>

(* blocksWritten = tunnel.transcript.length, and the write is started.     *)
BeginWrite ==
  /\ \/ pc = "updated"
     \/ pc = "section" /\ ~NothingToWrite /\ ~NeedsKeyUpdate
  /\ before' = Len(transcript) /\ todo' = From(section) /\ pc' = "writing"
  /\ UNCHANGED <<retryVars, requestVars, section, key, lastMsgRevealed,
                 transcript, revealMap, sessionVars, history>>

(* The TLS library fills a record and calls the tunnel's write.            *)
WriteRecord ==
  /\ pc = "writing" /\ todo < To(section)
  /\ LET to == IF todo + RecordSize < To(section)
               THEN todo + RecordSize ELSE To(section)
     IN /\ transcript' = Append(transcript,
                                Packet("client", "data", key, todo, to))
        /\ todo' = to
  /\ UNCHANGED <<retryVars, pc, requestVars, section, before, key,
                 lastMsgRevealed, revealMap, sessionVars, history>>

(* The write is awaited: the last client records, as many as the           *)
(* transcript has grown by, get the reveal of the section.                 *)
EndWrite ==
  /\ pc = "writing" /\ todo >= To(section)
  /\ LET reveal == IF Revealed(section) THEN "complete" ELSE "none"
     IN Mark(IF mode = "zk" THEN "zk" ELSE reveal,
             LastBlocks("client", Len(transcript) - before))
  /\ lastMsgRevealed' = (mode = "key-update" /\ Revealed(section))
  /\ IF section = Sections THEN pc' = "waiting" /\ UNCHANGED section
     ELSE pc' = "section" /\ section' = section + 1
  /\ UNCHANGED <<retryVars, requestVars, todo, before, key, transcript,
                 sessionVars, history>>

(* A write or key update rejects: the error is logged, and the session's   *)
(* end is awaited.                                                         *)
WriteFails ==
  /\ \/ pc = "section" /\ ~NothingToWrite /\ NeedsKeyUpdate
     \/ pc \in {"updated", "writing"}
  /\ pc' = "waiting" /\ writeFailed' = TRUE
  /\ UNCHANGED <<retryVars, requestVars, writeVars, transcript, revealMap,
                 sessionVars, crossed>>

(* onRead, and onMessage for application data: a record may complete the   *)
(* HTTP response, which starts a timer.                                    *)
ServerRecord ==
  /\ pc \in {"section", "updated", "writing", "waiting"} /\ tlsOpen
  /\ Len(SelectSeq(transcript, LAMBDA p : p.sender = "server")) <= MaxServer
  /\ \E type \in {"handshake", "data"}, complete \in BOOLEAN :
       /\ transcript' = Append(transcript, Packet("server", type, 1, 0, 0))
       /\ complete => type = "data"
       /\ resDone' = (resDone \/ complete)
  /\ crossed' = (crossed \/ pc = "writing")
  /\ UNCHANGED <<retryVars, pc, requestVars, writeVars, revealMap, tlsOpen,
                 ended, writeFailed>>

(* endedHttpRequest settles a promise, the first time.                     *)
EndedHttpRequest(outcome) ==
  ended' = IF ended = "pending" THEN outcome ELSE ended

(* One second after the response was complete.                             *)
ResponseTimer ==
  /\ resDone /\ ended = "pending"
  /\ EndedHttpRequest("ok")
  /\ UNCHANGED <<retryVars, pc, requestVars, writeVars, transcript, revealMap,
                 tlsOpen, resDone, history>>

TlsClosed_Bug ==
  /\ tlsOpen
  /\ \/ pc = "connecting" /\ Fail
     \/ /\ pc \in {"section", "updated", "writing", "waiting"}
        /\ ended' = IF pc = "waiting" THEN "ok" ELSE ended
        /\ tlsOpen' = FALSE
        /\ UNCHANGED <<retryVars, pc, requestVars, writeVars, transcript,
                       revealMap, resDone, history>>

(* onConnectionClose: the TLS session or the tunnel under it ended, during *)
(* the handshake (which then rejects) or later.                            *)
TlsClosed ==
  /\ tlsOpen
  /\ \/ pc = "connecting" /\ Fail
     \/ /\ pc \in {"section", "updated", "writing", "waiting"}
        /\ \E outcome \in {"ok", "err"} : EndedHttpRequest(outcome)
        /\ tlsOpen' = FALSE
        /\ UNCHANGED <<retryVars, pc, requestVars, writeVars, transcript,
                       revealMap, resDone, history>>

(* waitForAllData is settled: the tunnel is closed and its errors ignored, *)
(* or the attempt fails.                                                   *)
WaitDone ==
  /\ pc = "waiting"
  /\ \/ /\ ended = "ok" /\ pc' = "revealing" /\ tlsOpen' = FALSE
        /\ UNCHANGED <<retryVars, requestVars, writeVars, transcript,
                       revealMap, ended, resDone, history>>
     \/ ended = "err" /\ Fail

(* addServerSideReveals: the server's records completely, or those the     *)
(* provider selects with ZK; and every record up to the first application  *)
(* data.  Fails when the receipt is not valid, or an RPC is.               *)
AddServerSideReveals ==
  LET N         == DOMAIN transcript
      Server    == {i \in N : transcript[i].sender = "server"}
      Data      == {i \in Server : transcript[i].type = "data"}
      Handshake == {i \in N : \A j \in 1..i : transcript[j].type # "data"}
      Set(complete, zk) ==
        /\ revealMap' = [complete |-> revealMap.complete \cup complete,
                         zk       |-> (revealMap.zk \cup zk) \ complete]
        /\ pc' = "claiming"
        /\ UNCHANGED <<retryVars, requestVars, writeVars, transcript,
                       sessionVars, history>>
  IN /\ pc = "revealing"
     /\ \/ Set(Server \cup Handshake, {})
        \/ \E zk \in SUBSET Data : Set(Handshake, zk)
        \/ Fail

(* rpc('claimTunnel'): the signed claim, or an error of the attestor.      *)
ClaimTunnel ==
  /\ pc = "claiming"
  /\ \/ /\ pc' = "done" /\ result' = "claim"
        /\ UNCHANGED <<retries, requestVars, writeVars, transcript, revealMap,
                       sessionVars, history>>
     \/ Fail

Next ==
  \/ StartRequest \/ SkipEmpty \/ UpdateTrafficKeys \/ BeginWrite
  \/ WriteRecord \/ EndWrite \/ WriteFails \/ ServerRecord \/ ResponseTimer
  \/ TlsClosed \/ WaitDone \/ AddServerSideReveals \/ ClaimTunnel

(* Timers fire, and the continuation of a settled promise runs.            *)
Fairness == WF_vars(ResponseTimer) /\ WF_vars(WaitDone)

Spec == Init /\ [][Next]_vars /\ Fairness
----------------------------------------------------------------------------
Records == [sender : {"client", "server"}, type : {"handshake", "data"},
            key : Nat, from : 0..Size, to : 0..Size]

(* Every variable has its type; no attempt is made after maxRetries.       *)
TypeOK ==
  /\ retries \in 0..maxRetries /\ result \in {"pending", "claim", "error"}
  /\ pc \in {"connecting", "section", "updated", "writing", "waiting",
             "revealing", "claiming", "done"}
  /\ mode \in {"key-update", "zk"} /\ redactions \in Redactions \cup {<<>>}
  /\ section \in 1..Sections /\ todo \in 0..Size
  /\ before \in 0..Len(transcript)
  /\ transcript \in Seq(Records) /\ key \in Nat
  /\ revealMap \in [{"complete", "zk"} -> SUBSET DOMAIN transcript]
  /\ ended \in {"unset", "pending", "ok", "err"}
  /\ lastMsgRevealed \in BOOLEAN /\ tlsOpen \in BOOLEAN /\ resDone \in BOOLEAN
  /\ writeFailed \in BOOLEAN /\ crossed \in BOOLEAN

(* The client's application data, the redacted part of it, and the keys    *)
(* the attestor is given.                                                  *)
ClientData == {i \in DOMAIN transcript : /\ transcript[i].sender = "client"
                                         /\ transcript[i].type = "data"}
Redacted(i) == \E j \in DOMAIN redactions :
                 /\ transcript[i].from < redactions[j].toIndex
                 /\ redactions[j].fromIndex < transcript[i].to
KeysRevealed == {transcript[i].key : i \in
                   {j \in revealMap.complete : transcript[j].sender = "client"}}

(* "the user will only send the keys K1 & K3 to the attestor"              *)
(* (docs/claim-creation.md:124): with key updates, no traffic key under    *)
(* which a redacted part of the request was sent is revealed, whichever    *)
(* records are revealed with it (create-claim.ts:364-366).                 *)
RedactedKeysHidden ==
  mode = "key-update" =>
    \A i \in ClientData : Redacted(i) => transcript[i].key \notin KeysRevealed

(* The same unless the server sent a record between a write of the request *)
(* and its end: writeWithReveal counts the records of both sides.          *)
HiddenUnlessCrossed == ~crossed => RedactedKeysHidden

(* Once a claim is requested, everything that was to be revealed is: the   *)
(* public part of the request completely, with ZK all of it, whatever the  *)
(* sections before and after have marked or unmarked - unless the server   *)
(* sent a record during a write, or the write was given up.                *)
ShownUnlessCrossed ==
  pc \in {"claiming", "done"} /\ ~crossed /\ ~writeFailed =>
    \A i \in ClientData :
      IF mode = "zk" THEN i \in revealMap.zk
      ELSE Redacted(i) \/ i \in revealMap.complete

(* A request whose write was not given up was sent whole and in order, cut *)
(* where the redactions begin and end: no byte is lost or sent twice at    *)
(* the boundary of two sections.                                           *)
RequestWritten ==
  pc \in {"waiting", "revealing", "claiming"} /\ ~writeFailed =>
    /\ UNION {transcript[i].from .. transcript[i].to - 1 : i \in ClientData}
         = 0..Size - 1
    /\ \A i, j \in ClientData : i < j => transcript[i].to <= transcript[j].from

(* The client does not wait for a response for ever once it is complete,   *)
(* or once the TLS session has ended, even when either happened while the  *)
(* request was being written.                                              *)
WaitEnds == pc = "waiting" /\ (resDone \/ ~tlsOpen) ~> pc # "waiting"
----------------------------------------------------------------------------
============================================================================
