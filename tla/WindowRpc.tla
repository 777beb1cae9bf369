----------------------------- MODULE WindowRpc -----------------------------
(***************************************************************************)
(* The window RPC (window-rpc/setup-window-rpc.ts): a page that creates    *)
(* claims for a native app or another window.  handleMessage runs once per *)
(* message event, concurrently with itself; a claim with                   *)
(* zkOperatorMode 'rpc' calls the app back over the same window for every  *)
(* ZK or OPRF function (window-rpc-zk.ts), and to update its parameters,   *)
(* and waits for the answers with waitForResponse (window-rpc/utils.ts).   *)
(*                                                                         *)
(* A request is one message event; what it asks for and where its answer   *)
(* is to go is chosen when it arrives.  How a claim is created is in       *)
(* ClaimCreation; here an attempt makes calls and then ends.               *)
(***************************************************************************)
EXTENDS Integers, Sequences

CONSTANTS
    Requests,     \* message events from the app
    AppCalls,     \* calls to the app, each with its own random id
    maxRetries,   \* attempts at a claim on the attestor (executeWithRetries)
    MaxWaits,     \* bound: waits of one attempt on a host or a chain
    None          \* a call not made yet

ASSUME WindowAssumption == /\ maxRetries \in Nat \ {0} /\ MaxWaits \in Nat \ {0}
                           /\ None \notin Requests

VARIABLES
    handler,      \* handleMessage of every request
    call          \* waitForResponse of every call

windowVars == <<handler, call>>

(* where sendMessage posts to: event.source or a channel of the window      *)
(* ("there"); a channel that does not exist swallows the message, and       *)
(* without a channel an event that has no source makes it throw             *)
Targets == {"there", "noChannel", "noSource"}

(* awaits: the attempt waits on someone no timer of this code watches, for  *)
(* the waits-th time                                                        *)
Handler == [pc : {"idle", "ignored", "running", "answered", "rejected"},
            claim : BOOLEAN, to : Targets, attempt : Nat, leftover : SUBSET Nat,
            awaits : BOOLEAN, waits : Nat, replies : Seq({"done", "error"})]

(* state "sent" is pending: its listener is on windowMsgs, its timer runs.  *)
(* "unsent" is pending too, but the message was never posted and nobody     *)
(* awaits the promise.                                                      *)
Call == [owner : Requests \cup {None}, attempt : Nat,
         state : {"free", "sent", "unsent", "resolved", "failed", "timedOut"}]

WindowTypeOK ==
    /\ handler \in [Requests -> Handler]
    /\ call \in [AppCalls -> Call]

WindowInit ==
    /\ handler = [r \in Requests |-> [pc |-> "idle", claim |-> FALSE,
                    to |-> "there", attempt |-> 0, leftover |-> {},
                    awaits |-> FALSE, waits |-> 0, replies |-> <<>>]]
    /\ call = [c \in AppCalls |-> [owner |-> None, attempt |-> 0, state |-> "free"]]

CallsOf(r, a) == {c \in AppCalls : call[c].owner = r /\ call[c].attempt = a}
Listening(c) == call[c].state \in {"sent", "unsent"}
Broken(c) == call[c].state \in {"failed", "timedOut", "unsent"}

-----------------------------------------------------------------------------
(* respond: the end of a handler.  When posting the answer throws, so does *)
(* posting the error from the catch block, and handleMessage rejects.      *)
respond(h, what) ==
    IF h.to = "noSource" THEN [h EXCEPT !.pc = "rejected", !.waits = 0]
    ELSE [h EXCEPT !.pc = "answered", !.waits = 0,
                   !.replies = IF h.to = "there" THEN Append(@, what) ELSE @]

Arrives(r, to) == [handler[r] EXCEPT !.to = to, !.attempt = 1]

(* no data, a message of another module, a request without an id, and a     *)
(* type that is not known                                                   *)
Ignore(r) ==
    /\ handler[r].pc = "idle"
    /\ handler' = [handler EXCEPT ![r].pc = "ignored"]
    /\ UNCHANGED call

(* A string that is not JSON, whoever posted it, is answered with an error: *)
(* the module is only known once it is parsed.  The channel is not.         *)
Garbled(r, to) ==
    /\ handler[r].pc = "idle"
    /\ to \in {"there", "noSource"}
    /\ handler' = [handler EXCEPT ![r] = respond(Arrives(r, to), "error")]
    /\ UNCHANGED call

(* extractHtmlElement, extractJSONValueIndex, setLogLevel, ping; and a      *)
(* claim whose context is not JSON                                          *)
AnswerAtOnce(r, to, what) ==
    /\ handler[r].pc = "idle"
    /\ handler' = [handler EXCEPT ![r] = respond(Arrives(r, to), what)]
    /\ UNCHANGED call

(* createClaim, createClaimOnAvs, createClaimOnMechain (`claim'), and       *)
(* getCurrentMemoryUsage and benchmarkZK, which make no calls               *)
Start(r, to, claim) ==
    /\ handler[r].pc = "idle"
    /\ handler' = [handler EXCEPT ![r] =
            [Arrives(r, to) EXCEPT !.pc = "running", !.claim = claim]]
    /\ UNCHANGED call

(* A claim waits for the TLS handshake with the host and for its response   *)
(* (waitForHandshake, waitForAllData), and on a chain for the transactions  *)
(* it sends (tx.wait); a claim of several attestors does so again for each. *)
(* It awaits its calls to the app before it goes on to such a wait.         *)
AwaitOther(r) ==
    /\ handler[r].pc = "running" /\ handler[r].claim
    /\ ~handler[r].awaits /\ handler[r].waits < MaxWaits
    /\ \A c \in CallsOf(r, handler[r].attempt) : call[c].state = "resolved"
    /\ handler' = [handler EXCEPT ![r].awaits = TRUE, ![r].waits = @ + 1]
    /\ UNCHANGED call

(* The host or the chain ends the wait: it answers, or the connection       *)
(* closes.  Nothing makes it.                                               *)
OtherEnds(r) ==
    /\ handler[r].pc = "running" /\ handler[r].awaits
    /\ handler' = [handler EXCEPT ![r].awaits = FALSE]
    /\ UNCHANGED call

-----------------------------------------------------------------------------
(* the current attempt, or one whose queue of proofs was left running *)
QueueRuns(r, a) ==
    \/ /\ handler[r].pc = "running" /\ handler[r].attempt = a
       /\ ~handler[r].awaits
    \/ a \in handler[r].leftover

(* callFn, updateProviderParams: first the listener and the timer, then the *)
(* message, whose sending may throw                                         *)
StartCall(r, a, c) ==
    /\ handler[r].claim /\ QueueRuns(r, a)
    /\ call[c].state = "free"
    /\ call' = [call EXCEPT ![c] = [owner |-> r, attempt |-> a,
            state |-> IF handler[r].to = "noSource" THEN "unsent" ELSE "sent"]]
    /\ UNCHANGED handler

(* handleMessage of an answer: windowMsgs passes it to every listener and   *)
(* the one with its id settles and takes itself off.  Any other answer (late, *)
(* repeated, of another type) finds no listener, and nothing happens.       *)
OnAnswer(c, ok) ==
    /\ call[c].state = "sent"
    /\ call' = [call EXCEPT ![c].state = IF ok THEN "resolved" ELSE "failed"]
    /\ UNCHANGED handler

(* Wrong on purpose, as every definition named _Bug: the timer is not set. *)
OnTimeout_Bug(c) == FALSE /\ UNCHANGED windowVars
(* the timer of waitForResponse rejects and takes the listener off *)
OnTimeout(c) ==
    /\ Listening(c)
    /\ call' = [call EXCEPT ![c].state =
            IF @ = "sent" THEN "timedOut" ELSE "failed"]
    /\ UNCHANGED handler

-----------------------------------------------------------------------------
Current(r) == CallsOf(r, handler[r].attempt)

(* Wrong on purpose: does not wait for the calls. *)
AttemptSucceeds_Bug(r) ==
    /\ handler[r].pc = "running"
    /\ handler' = [handler EXCEPT ![r] = respond(@, "done")]
    /\ UNCHANGED call
(* the attempt awaits every call it makes *)
AttemptSucceeds(r) ==
    /\ handler[r].pc = "running" /\ ~handler[r].awaits
    /\ \A c \in Current(r) : call[c].state = "resolved"
    /\ handler' = [handler EXCEPT ![r] = respond(@, "done")]
    /\ UNCHANGED call

(* shouldRetry: a timeout is an AttestorError and retried; an error from    *)
(* the app, and what sendMessage throws, are not.  An attempt may also fail *)
(* for a reason of its own, which may be either.                            *)
MayRetry(r, retry) ==
    \/ \E c \in Current(r) : /\ Broken(c)
                             /\ retry = (call[c].state = "timedOut")
    \/ \A c \in Current(r) : ~Broken(c)

(* An attempt fails on the first of its proofs that fails, and the queue of *)
(* generateProofs goes on with the others (`proving'); everywhere else it   *)
(* has no call open when it fails.                                          *)
(* Wrong on purpose: reports the failure and tries again.                   *)
AttemptFails_Bug(r, retry, proving) ==
    /\ handler[r].pc = "running" /\ ~handler[r].awaits /\ MayRetry(r, retry)
    /\ proving \/ \A c \in Current(r) : ~Listening(c)
    /\ handler' = [handler EXCEPT ![r] =
            IF handler[r].claim /\ retry /\ handler[r].attempt < maxRetries
            THEN [@ EXCEPT !.attempt = @ + 1, !.replies = Append(@, "error")]
            ELSE respond(@, "error")]
    /\ UNCHANGED call
AttemptFails(r, retry, proving) ==
    /\ handler[r].pc = "running" /\ ~handler[r].awaits /\ MayRetry(r, retry)
    /\ proving \/ \A c \in Current(r) : ~Listening(c)
    /\ LET h == IF proving
                THEN [handler[r] EXCEPT !.leftover = @ \cup {handler[r].attempt}]
                ELSE handler[r]
       IN  handler' = [handler EXCEPT ![r] =
                IF h.claim /\ retry /\ h.attempt < maxRetries
                THEN [h EXCEPT !.attempt = @ + 1, !.waits = 0]
                ELSE respond(h, "error")]
    /\ UNCHANGED call

AttemptEnds(r) ==
    \/ AttemptSucceeds(r)
    \/ \E retry, proving \in BOOLEAN : AttemptFails(r, retry, proving)

WindowNext ==
    \/ \E r \in Requests :
        \/ Ignore(r)
        \/ \E to \in Targets :
            \/ Garbled(r, to)
            \/ \E what \in {"done", "error"} : AnswerAtOnce(r, to, what)
            \/ \E claim \in BOOLEAN : Start(r, to, claim)
        \/ AwaitOther(r)
        \/ OtherEnds(r)
        \/ AttemptEnds(r)
        \/ \E a \in 1 .. maxRetries, c \in AppCalls : StartCall(r, a, c)
    \/ \E c \in AppCalls : \/ \E ok \in BOOLEAN : OnAnswer(c, ok)
                           \/ OnTimeout(c)

WindowSpec == WindowInit /\ [][WindowNext]_windowVars

(* Timers fire, and an attempt that waits for nobody ends.  Neither the app *)
(* nor a host nor a chain need ever answer: only the calls to the app have  *)
(* a timer (waitForResponse).  The waits for the attestor end with its      *)
(* connection (RpcClient).                                                  *)
SettledAttemptEnds(r) ==
    (\A c \in Current(r) : ~Listening(c)) /\ AttemptEnds(r)

WindowFairness ==
    /\ \A r \in Requests : WF_windowVars(SettledAttemptEnds(r))
    /\ \A c \in AppCalls : WF_windowVars(OnTimeout(c))

-----------------------------------------------------------------------------
(* handleMessage answers a request at most once, whatever fails and however *)
(* often the claim is retried.                                              *)
OneReply == \A r \in Requests :
    /\ Len(handler[r].replies) <= 1
    /\ handler[r].replies # <<>> => handler[r].pc = "answered"

(* A request that has been answered, or attempted again, has calls to the   *)
(* app open only from an attempt that failed on a proof (generateProofs     *)
(* leaves the rest of its queue running): a claim is reported as done only  *)
(* after the app has answered every call of the attempt.                    *)
OpenCallsAreLeftovers == \A c \in AppCalls :
    Listening(c) =>
        LET h == handler[call[c].owner] IN
        \/ h.pc = "running" /\ h.attempt = call[c].attempt
        \/ call[c].attempt \in h.leftover

(* Every request the page works on is answered, even if the app never       *)
(* answers a call, provided that no wait on a host or a chain lasts for     *)
(* ever: waitForResponse times out, and retries are bounded.                *)
EveryRequestAnswered == \A r \in Requests :
    []<>~handler[r].awaits =>
        ((handler[r].pc = "running" /\ handler[r].to = "there")
            ~> (handler[r].replies # <<>>))

(* No listener stays on windowMsgs for good: not for a call whose answer is *)
(* lost, nor for one that was never sent.                                   *)
ListenersGo == \A c \in AppCalls : Listening(c) ~> ~Listening(c)
=============================================================================
