------------------------------ MODULE AvsTasks ------------------------------
(***************************************************************************)
(* Claims on the AVS chain: the contract ReclaimServiceManager.sol, the    *)
(* operators that register with it (avs/utils/register.ts), and clients    *)
(* that run createClaimOnAvs (avs/client/create-claim-on-avs.ts), paying   *)
(* themselves or through an attestor (createClaimOnChain and               *)
(* completeClaimOnChain handlers).                                         *)
(*                                                                         *)
(* A transaction is one step.  A signature is a record of what was signed  *)
(* and by whom; a hash is the value it is taken of, so that a task's       *)
(* stored hash is the flag `open'.  The context of a claim is "plain", or  *)
(* "preset": one that already holds what the attestor puts into it.        *)
(***************************************************************************)
EXTENDS Integers, Sequences, SequencesExt, FiniteSets

CONSTANTS
    Operators,      \* addresses of operators
    Admins,         \* operators that are admins of the contract
    Clients,        \* runs of createClaimOnAvs
    OwnerOf,        \* the wallet of every run
    Zero,           \* address(0)
    maxTaskLifetimeS, maxTaskCreationDelayS,
    MaxSignatures,  \* bound on the signatures per task
    MaxTime,        \* bound on the block time
    MaxChanges      \* bound on the transactions of admins and operators

ASSUME AvsAssumption ==
    /\ Zero \notin Operators /\ Admins \subseteq Operators
    /\ DOMAIN OwnerOf = Clients
    /\ maxTaskLifetimeS \in Nat /\ maxTaskCreationDelayS \in Nat
    /\ MaxSignatures \in Nat /\ MaxTime \in Nat /\ MaxChanges \in Nat

VARIABLES
    now,                    \* block.timestamp
    minSignaturesPerTask,   \* of taskCreationMetadata
    whitelistedOperators,   \* sequence of addresses
    staked,                 \* operators the stake registry has registered
    heavy,                  \* operators with weight 1; others have weight 0
    minimumWeight,          \* of the stake registry
    registeredOperators,    \* sequence of addresses
    tasks,                  \* the tasks created so far, by index
    completions,            \* history: TaskCompleted events
    attested,               \* history: claims an operator's attestor signed
    changes,                \* how many transactions of admins and operators
    client                  \* state of every createClaimOnAvs

adminVars == <<minSignaturesPerTask, whitelistedOperators, staked, heavy,
               minimumWeight, registeredOperators, changes>>
taskVars == <<now, tasks, completions, attested, client>>
vars == <<adminVars, taskVars>>

Contexts == {"plain", "preset"}
Owners == {OwnerOf[c] : c \in Clients}
Signature == [op : Operators, context : Contexts, owner : Owners,
              timestampS : 0 .. MaxTime]
Task == [owner : Owners, context : Contexts, createdAt : 0 .. MaxTime,
         expiresAt : Nat, operators : Seq(Operators \cup {Zero}),
         open : BOOLEAN]
Client == [pc : {"idle", "requested", "collecting", "done", "failed"},
           context : Contexts, requestedAt : 0 .. MaxTime, task : Nat,
           responses : Seq(Signature)]

TypeOK ==
    /\ now \in 0 .. MaxTime
    /\ minSignaturesPerTask \in Nat /\ minimumWeight \in {0, 1}
    /\ whitelistedOperators \in Seq(Operators \cup {Zero})
    /\ registeredOperators \in Seq(Operators \cup {Zero})
    /\ staked \subseteq Operators /\ heavy \subseteq Operators
    /\ tasks \in Seq(Task)
    /\ completions \in Seq([index : Nat, at : 0 .. MaxTime])
    /\ attested \subseteq Signature
    /\ changes \in 0 .. MaxChanges
    /\ client \in [Clients -> Client]

Init ==
    /\ now = 0
    /\ minSignaturesPerTask = 1
    /\ whitelistedOperators = <<>>
    /\ staked = {}
    /\ heavy \in SUBSET Operators
    /\ minimumWeight \in {0, 1}
    /\ registeredOperators = <<>>
    /\ tasks = <<>>
    /\ completions = <<>>
    /\ attested = {}
    /\ changes = 0
    /\ client = [c \in Clients |-> [pc |-> "idle", context |-> "plain",
            requestedAt |-> 0, task |-> 0, responses |-> <<>>]]

-----------------------------------------------------------------------------
(* The contract: administration and operators *)

Change == changes < MaxChanges /\ changes' = changes + 1

(* an admin gives n signatures per task; the zeroes of the other members    *)
(* leave them as they are                                                   *)
updateTaskCreationMetadata(n) ==
    /\ Change
    /\ n # 0
    /\ minSignaturesPerTask' = n
    /\ UNCHANGED <<taskVars, whitelistedOperators, staked, heavy,
                   minimumWeight, registeredOperators>>

IndicesOf(seq, a) == {i \in DOMAIN seq : seq[i] = a}
First(S) == CHOOSE i \in S : \A j \in S : i <= j

(* `delete' of an array element leaves the element there, zeroed *)
Zeroed(seq, a) == [seq EXCEPT ![First(IndicesOf(seq, a))] = Zero]

whitelistAddressAsOperator(o, isWhitelisted) ==
    /\ Change
    /\ \/ /\ isWhitelisted
          /\ whitelistedOperators' = Append(whitelistedOperators, o)
       \/ /\ ~isWhitelisted
          /\ IndicesOf(whitelistedOperators, o) # {}
          /\ whitelistedOperators' = Zeroed(whitelistedOperators, o)
    /\ UNCHANGED <<taskVars, minSignaturesPerTask, staked, heavy,
                   minimumWeight, registeredOperators>>

(* an admin counts as whitelisted *)
isOperatorWhitelisted(o) ==
    o \in Admins \/ IndicesOf(whitelistedOperators, o) # {}

(* registerOperator up to the registration with the stake registry, which   *)
(* calls registerOperatorToAVS                                              *)
registerOperatorToAVS(o) ==
    /\ Change
    /\ o \notin staked
    /\ isOperatorWhitelisted(o)
    /\ staked' = staked \cup {o}
    /\ UNCHANGED <<taskVars, minSignaturesPerTask, whitelistedOperators,
                   heavy, minimumWeight, registeredOperators>>

(* an operator leaves the stake registry *)
deregisterOperator(o) ==
    /\ Change
    /\ o \in staked
    /\ staked' = staked \ {o}
    /\ UNCHANGED <<taskVars, minSignaturesPerTask, whitelistedOperators,
                   heavy, minimumWeight, registeredOperators>>

(* the end of registerOperator, and an operator with an empty URL that      *)
(* takes itself off the list                                                *)
(* Wrong on purpose, as every definition named _Bug: adds an operator that  *)
(* is on the list a second time.                                            *)
updateOperatorMetadata_Bug(o, isEmpty) ==
    /\ Change
    /\ o \in staked /\ ~isEmpty
    /\ registeredOperators' = Append(registeredOperators, o)
    /\ UNCHANGED <<taskVars, minSignaturesPerTask, whitelistedOperators,
                   staked, heavy, minimumWeight>>
updateOperatorMetadata(o, isEmpty) ==
    /\ Change
    /\ o \in staked
    /\ IF IndicesOf(registeredOperators, o) # {}
       THEN registeredOperators' = IF isEmpty THEN Zeroed(registeredOperators, o)
                                              ELSE registeredOperators
       ELSE /\ ~isEmpty
            /\ registeredOperators' = Append(registeredOperators, o)
    /\ UNCHANGED <<taskVars, minSignaturesPerTask, whitelistedOperators,
                   staked, heavy, minimumWeight>>

-----------------------------------------------------------------------------
(* The contract: tasks *)

operatorHasMinimumWeight(a) == minimumWeight = 0 \/ a \in heavy

(* The random choice: each operator that is drawn is taken off the list, and *)
(* kept if it has the weight; the call fails when the list runs out first.   *)
pickRandomOperators(count) ==
    LET eligible == {i \in DOMAIN registeredOperators :
                        operatorHasMinimumWeight(registeredOperators[i])}
        draws == {d \in [1 .. count -> eligible] :
                        \A i, j \in 1 .. count : d[i] = d[j] => i = j}
    IN  {[i \in 1 .. count |-> registeredOperators[d[i]]] : d \in draws}

absDiff(a, b) == IF a > b THEN a - b ELSE b - a

(* the task the contract records for the request of client c, if it does *)
NewTasks(c) ==
    IF absDiff(client[c].requestedAt, now) > maxTaskCreationDelayS THEN {}
    ELSE {[owner |-> OwnerOf[c], context |-> client[c].context,
           createdAt |-> now, expiresAt |-> now + maxTaskLifetimeS,
           operators |-> ops, open |-> TRUE] :
                ops \in pickRandomOperators(minSignaturesPerTask)}

(* the operators whose signature of this task's claim is among sigs *)
recoverSigners(t, sigs) ==
    {s.op : s \in {x \in sigs : /\ x.context = t.context
                               /\ x.owner = t.owner
                               /\ x.timestampS = t.createdAt}}

(* Wrong on purpose: one of the operators is enough. *)
assertValidSignedClaim_Bug(t, sigs) ==
    ToSet(t.operators) \cap recoverSigners(t, sigs) # {}
assertValidSignedClaim(t, sigs) ==
    /\ sigs # {}
    /\ ToSet(t.operators) \subseteq recoverSigners(t, sigs)

CanComplete(i, sigs) ==
    /\ tasks[i].open
    /\ tasks[i].expiresAt > now
    /\ assertValidSignedClaim(tasks[i], sigs)

(* deletes the stored hash and emits TaskCompleted *)
taskCompleted(i) ==
    /\ tasks' = [tasks EXCEPT ![i].open = FALSE]
    /\ completions' = Append(completions, [index |-> i, at |-> now])

-----------------------------------------------------------------------------
(* createClaimOnAvs *)

(* it throws, and what it had collected is gone *)
Fail(c) == client' = [client EXCEPT ![c] = [@ EXCEPT !.pc = "failed",
    !.task = 0, !.responses = <<>>, !.context = "plain", !.requestedAt = 0]]

(* requestClaimCreation: the request carries the client's time *)
Request(c, context) ==
    /\ client[c].pc = "idle"
    /\ client' = [client EXCEPT ![c].pc = "requested", ![c].context = context,
                                ![c].requestedAt = now]
    /\ UNCHANGED <<adminVars, now, tasks, completions, attested>>

(* the transaction is mined, for the owner or for the attestor that pays *)
createNewTask(c) ==
    /\ client[c].pc = "requested"
    /\ \E t \in NewTasks(c) :
        /\ tasks' = Append(tasks, t)
        /\ client' = [client EXCEPT ![c].pc = "collecting",
                                    ![c].task = Len(tasks')]
    /\ UNCHANGED <<adminVars, now, completions, attested>>

(* The task is refused by the contract (it never had operators enough, or   *)
(* is too late), the attestor does not pay, or the answer of the attestor   *)
(* is lost: then the task exists and nobody collects for it.                *)
RequestFails(c) ==
    /\ client[c].pc = "requested"
    /\ Fail(c)
    /\ \/ UNCHANGED tasks
       \/ \E t \in NewTasks(c) : tasks' = Append(tasks, t)
    /\ UNCHANGED <<adminVars, now, completions, attested>>

(* the attestor of assertValidProviderTranscript puts the provider's hash   *)
(* into the context of the claim it signs                                   *)
ContextOfClaim(context) == "preset"

(* getClaimRequestDifference between the request and the claim *)
SameAsRequested(c, sig) == client[c].context = sig.context

NextOperator(c) ==
    tasks[client[c].task].operators[Len(client[c].responses) + 1]

(* createClaimOnAttestor at the next operator of the task, and the check of *)
(* what it returns                                                          *)
CollectSignature(c) ==
    /\ client[c].pc = "collecting"
    /\ Len(client[c].responses) < Len(tasks[client[c].task].operators)
    /\ NextOperator(c) # Zero
    /\ LET sig == [op |-> NextOperator(c), owner |-> OwnerOf[c],
                   context |-> ContextOfClaim(client[c].context),
                   timestampS |-> tasks[client[c].task].createdAt]
       IN  /\ attested' = attested \cup {sig}
           /\ IF SameAsRequested(c, sig)
              THEN client' = [client EXCEPT ![c].responses = Append(@, sig)]
              ELSE Fail(c)
    /\ UNCHANGED <<adminVars, now, tasks, completions>>

(* an attestor cannot be reached (a zeroed entry has no URL) or refuses, or *)
(* the final transaction gets lost                                          *)
CollectFails(c) ==
    /\ client[c].pc = "collecting"
    /\ Fail(c)
    /\ UNCHANGED <<adminVars, now, tasks, completions, attested>>

(* completeTask: the transaction is executed, or reverts *)
CompleteTask(c) ==
    /\ client[c].pc = "collecting"
    /\ Len(client[c].responses) = Len(tasks[client[c].task].operators)
    /\ IF CanComplete(client[c].task, ToSet(client[c].responses))
       THEN /\ taskCompleted(client[c].task)
            /\ client' = [client EXCEPT ![c].pc = "done"]
       ELSE Fail(c) /\ UNCHANGED <<tasks, completions>>
    /\ UNCHANGED <<adminVars, now, attested>>

(* taskCompleted may be called by anyone, again and again, with any of the   *)
(* signatures there are                                                     *)
AnyoneCompletes(i, sigs) ==
    /\ CanComplete(i, sigs)
    /\ taskCompleted(i)
    /\ UNCHANGED <<adminVars, now, attested, client>>

Tick ==
    /\ now < MaxTime
    /\ now' = now + 1
    /\ UNCHANGED <<adminVars, tasks, completions, attested, client>>

Next ==
    \/ \E n \in 1 .. MaxSignatures : updateTaskCreationMetadata(n)
    \/ \E o \in Operators :
        \/ \E b \in BOOLEAN : whitelistAddressAsOperator(o, b)
        \/ registerOperatorToAVS(o)
        \/ deregisterOperator(o)
        \/ \E b \in BOOLEAN : updateOperatorMetadata(o, b)
    \/ \E c \in Clients :
        \/ \E context \in Contexts : Request(c, context)
        \/ createNewTask(c)
        \/ RequestFails(c)
        \/ CollectSignature(c)
        \/ CollectFails(c)
        \/ CompleteTask(c)
    \/ \E i \in DOMAIN tasks, sigs \in SUBSET attested : AnyoneCompletes(i, sigs)
    \/ Tick

Spec == Init /\ [][Next]_vars

-----------------------------------------------------------------------------
(* A TaskCompleted event is the only one of its task, comes before the task *)
(* expires, and every operator picked for the task has attested to its very *)
(* claim: so a task that got a zeroed entry of the list never completes.    *)
SoundCompletion == \A e \in DOMAIN completions :
    LET t == tasks[completions[e].index] IN
    /\ \A f \in DOMAIN completions :
            completions[f].index = completions[e].index => f = e
    /\ completions[e].at < t.expiresAt
    /\ \A o \in ToSet(t.operators) :
            [op |-> o, context |-> t.context, owner |-> t.owner,
             timestampS |-> t.createdAt] \in attested

(* No operator is picked twice for a task, however often it came and went   *)
(* (updateOperatorMetadata, pickRandomOperators); only zeroed entries can.  *)
PickedDistinct == \A t \in ToSet(tasks) : \A i, j \in DOMAIN t.operators :
    (i # j /\ t.operators[i] = t.operators[j]) => t.operators[i] = Zero

(* What an operator of a task signs is the claim of that task, so that the  *)
(* client accepts it and the contract recovers its signer: what createClaim- *)
(* OnAvs needs for any claim.  It fails: the attestor adds the hash of the  *)
(* provider's parameters to the context it signs (ContextOfClaim), and the  *)
(* task holds the context as it was requested.                              *)
AttestedForTask == \A s \in attested : \E t \in ToSet(tasks) :
    /\ s.op \in ToSet(t.operators)
    /\ s.owner = t.owner /\ s.timestampS = t.createdAt /\ s.context = t.context
=============================================================================
