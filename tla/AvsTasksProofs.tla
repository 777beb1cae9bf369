-------------------------- MODULE AvsTasksProofs ---------------------------
(***************************************************************************)
(* Proofs about AvsTasks for any operators, clients and numbers of         *)
(* signatures: a completed task was attested by every operator picked for  *)
(* it, once and in time, and no operator is picked twice.                  *)
(***************************************************************************)
EXTENDS AvsTasks, SequenceTheorems, TLAPS

(* Apart from zeroed entries, an address is on a list once. *)
Distinct(seq) == \A i, j \in DOMAIN seq :
  (i # j /\ seq[i] = seq[j]) => seq[i] = Zero

(* What an operator signs for the claim of task t. *)
Attestation(t, o) ==
  [op |-> o, context |-> t.context, owner |-> t.owner, timestampS |-> t.createdAt]

TasksOK == \A i \in DOMAIN tasks : Distinct(tasks[i].operators)

(* A task that was completed is in the list, and closed. *)
CompletionsClosed == \A e \in DOMAIN completions :
  /\ completions[e].index \in DOMAIN tasks
  /\ ~tasks[completions[e].index].open

(* What a run of createClaimOnAvs holds: responses only from attestors, and *)
(* a task while it collects.                                               *)
ClientOK(c) ==
  /\ client[c].pc \in {"idle", "requested"} => client[c].responses = <<>>
  /\ client[c].pc = "collecting" => client[c].task \in DOMAIN tasks
  /\ ToSet(client[c].responses) \subseteq attested

(* The inductive invariant. *)
IInv ==
  /\ TypeOK /\ Distinct(registeredOperators) /\ TasksOK /\ CompletionsClosed
  /\ SoundCompletion
  /\ \A c \in Clients : ClientOK(c)
----------------------------------------------------------------------------
LEMMA Kinds ==
  /\ Zero \notin Operators /\ DOMAIN OwnerOf = Clients
  /\ maxTaskLifetimeS \in Nat /\ maxTaskCreationDelayS \in Nat
  /\ MaxSignatures \in Nat /\ MaxTime \in Nat /\ MaxChanges \in Nat
BY AvsAssumption DEF AvsAssumption

LEMMA InitIInv == Init => IInv
<1>. SUFFICES ASSUME Init PROVE IInv
  OBVIOUS
<1>1. client \in [Clients -> Client]
  <2>1. <<>> \in Seq(Signature)
    OBVIOUS
  <2>. QED
    BY <2>1, Kinds DEF Init, Client, Contexts
<1>2. TypeOK
  BY <1>1, Kinds DEF Init, TypeOK
<1>3. \A c \in Clients : ClientOK(c)
  BY DEF Init, ClientOK, ToSet
<1>. QED
  BY <1>2, <1>3 DEF Init, IInv, Distinct, TasksOK, CompletionsClosed, SoundCompletion
----------------------------------------------------------------------------
(* The lists of operators *)

LEMMA AppendDistinct ==
  ASSUME NEW seq \in Seq(Operators \cup {Zero}), Distinct(seq),
         NEW o \in Operators, IndicesOf(seq, o) = {}
  PROVE  Append(seq, o) \in Seq(Operators \cup {Zero}) /\ Distinct(Append(seq, o))
<1>1. /\ Append(seq, o) \in Seq(Operators \cup {Zero})
      /\ DOMAIN Append(seq, o) = 1 .. Len(seq) + 1
      /\ \A i \in 1 .. Len(seq) : Append(seq, o)[i] = seq[i]
      /\ Append(seq, o)[Len(seq) + 1] = o
  OBVIOUS
<1>2. \A i \in 1 .. Len(seq) : seq[i] # o
  BY DEF IndicesOf
<1>. QED
  BY <1>1, <1>2 DEF Distinct

(* Wherever the entry is that is zeroed. *)
LEMMA ZeroedDistinct ==
  ASSUME NEW seq \in Seq(Operators \cup {Zero}), NEW o
  PROVE  /\ Zeroed(seq, o) \in Seq(Operators \cup {Zero})
         /\ Distinct(seq) => Distinct(Zeroed(seq, o))
<1>. DEFINE i == First(IndicesOf(seq, o))
<1>1. Zeroed(seq, o) = [seq EXCEPT ![i] = Zero]
  BY DEF Zeroed
<1>. HIDE DEF i
<1>2. /\ [seq EXCEPT ![i] = Zero] \in Seq(Operators \cup {Zero})
      /\ DOMAIN [seq EXCEPT ![i] = Zero] = DOMAIN seq
      /\ \A j \in DOMAIN seq : [seq EXCEPT ![i] = Zero][j] = IF j = i THEN Zero ELSE seq[j]
  <2>. DEFINE f == [j \in 1 .. Len(seq) |-> IF j = i THEN Zero ELSE seq[j]]
  <2>1. DOMAIN seq = 1 .. Len(seq) /\ Len(seq) \in Nat
        /\ \A j \in 1 .. Len(seq) : seq[j] \in Operators \cup {Zero}
    OBVIOUS
  <2>2. [seq EXCEPT ![i] = Zero] = f
    BY <2>1
  <2>3. f \in Seq(Operators \cup {Zero})
    BY <2>1
  <2>. QED
    BY <2>1, <2>2, <2>3
<1>. QED
  BY <1>1, <1>2 DEF Distinct

(* Transactions of admins and operators touch no task and no client. *)
LEMMA AdminStep ==
  ASSUME IInv, UNCHANGED taskVars,
         \/ \E n \in 1 .. MaxSignatures : updateTaskCreationMetadata(n)
         \/ \E o \in Operators :
              \/ \E b \in BOOLEAN : whitelistAddressAsOperator(o, b)
              \/ registerOperatorToAVS(o)
              \/ deregisterOperator(o)
              \/ \E b \in BOOLEAN : updateOperatorMetadata(o, b)
  PROVE  IInv'
<1>1. changes' \in 0 .. MaxChanges
  BY Kinds DEF IInv, TypeOK, updateTaskCreationMetadata, whitelistAddressAsOperator,
     registerOperatorToAVS, deregisterOperator, updateOperatorMetadata, Change
<1>2. /\ minSignaturesPerTask' \in Nat /\ minimumWeight' \in {0, 1}
      /\ staked' \subseteq Operators /\ heavy' \subseteq Operators
  BY Kinds DEF IInv, TypeOK, updateTaskCreationMetadata, whitelistAddressAsOperator,
     registerOperatorToAVS, deregisterOperator, updateOperatorMetadata
<1>3. whitelistedOperators' \in Seq(Operators \cup {Zero})
  <2>1. whitelistedOperators \in Seq(Operators \cup {Zero})
    BY DEF IInv, TypeOK
  <2>2. ASSUME NEW o \in Operators, NEW b \in BOOLEAN, whitelistAddressAsOperator(o, b)
        PROVE  whitelistedOperators' \in Seq(Operators \cup {Zero})
    <3>1. Append(whitelistedOperators, o) \in Seq(Operators \cup {Zero})
      BY <2>1
    <3>2. Zeroed(whitelistedOperators, o) \in Seq(Operators \cup {Zero})
      BY <2>1, ZeroedDistinct
    <3>. QED
      BY <2>2, <3>1, <3>2 DEF whitelistAddressAsOperator
  <2>. QED
    BY <2>1, <2>2 DEF updateTaskCreationMetadata, registerOperatorToAVS,
       deregisterOperator, updateOperatorMetadata
<1>4. registeredOperators' \in Seq(Operators \cup {Zero}) /\ Distinct(registeredOperators')
  <2>1. registeredOperators \in Seq(Operators \cup {Zero}) /\ Distinct(registeredOperators)
    BY DEF IInv, TypeOK
  <2>2. ASSUME NEW o \in Operators, NEW b \in BOOLEAN, updateOperatorMetadata(o, b)
        PROVE  registeredOperators' \in Seq(Operators \cup {Zero})
               /\ Distinct(registeredOperators')
    BY <2>1, <2>2, ZeroedDistinct, AppendDistinct DEF updateOperatorMetadata
  <2>. QED
    BY <2>1, <2>2 DEF updateTaskCreationMetadata, whitelistAddressAsOperator,
       registerOperatorToAVS, deregisterOperator
<1>5. TypeOK'
  BY <1>1, <1>2, <1>3, <1>4 DEF IInv, TypeOK, taskVars
<1>. QED
  BY <1>4, <1>5 DEF IInv, taskVars, TasksOK, CompletionsClosed, SoundCompletion,
     ClientOK
----------------------------------------------------------------------------
(* Tasks *)

(* The operators of a new task are distinct entries of the list. *)
LEMMA PickDistinct ==
  ASSUME IInv, NEW n \in Nat, NEW ops \in pickRandomOperators(n)
  PROVE  ops \in Seq(Operators \cup {Zero}) /\ Distinct(ops)
<1>. DEFINE eligible == {i \in DOMAIN registeredOperators :
                           operatorHasMinimumWeight(registeredOperators[i])}
<1>1. PICK d \in [1 .. n -> eligible] :
        /\ \A i, j \in 1 .. n : d[i] = d[j] => i = j
        /\ ops = [i \in 1 .. n |-> registeredOperators[d[i]]]
  BY DEF pickRandomOperators
<1>2. \A i \in 1 .. n : d[i] \in DOMAIN registeredOperators
  BY <1>1
<1>3. registeredOperators \in Seq(Operators \cup {Zero}) /\ Distinct(registeredOperators)
  BY DEF IInv, TypeOK
<1>4. \A i \in 1 .. n : registeredOperators[d[i]] \in Operators \cup {Zero}
  BY <1>2, <1>3
<1>. HIDE DEF eligible
<1>5. ops \in Seq(Operators \cup {Zero}) /\ DOMAIN ops = 1 .. n
  BY <1>1, <1>4
<1>6. Distinct(ops)
  BY <1>1, <1>2, <1>3, <1>5 DEF Distinct
<1>. QED
  BY <1>5, <1>6

LEMMA NewTaskOK ==
  ASSUME IInv, NEW c \in Clients, NEW t \in NewTasks(c)
  PROVE  t \in Task /\ t.open = TRUE /\ Distinct(t.operators)
<1>1. PICK ops \in pickRandomOperators(minSignaturesPerTask) :
        t = [owner |-> OwnerOf[c], context |-> client[c].context,
             createdAt |-> now, expiresAt |-> now + maxTaskLifetimeS,
             operators |-> ops, open |-> TRUE]
  BY DEF NewTasks
<1>2. ops \in Seq(Operators \cup {Zero}) /\ Distinct(ops)
  BY PickDistinct DEF IInv, TypeOK
<1>3. OwnerOf[c] \in Owners /\ client[c].context \in Contexts
  BY DEF Owners, IInv, TypeOK, Client
<1>4. now \in 0 .. MaxTime /\ now + maxTaskLifetimeS \in Nat
  BY Kinds DEF IInv, TypeOK
<1>. QED
  BY <1>1, <1>2, <1>3, <1>4 DEF Task

(* A task is added: the others, and what was completed, stay. *)
LEMMA NewTaskStep ==
  ASSUME IInv, NEW t \in Task, Distinct(t.operators),
         tasks' = Append(tasks, t), UNCHANGED <<completions, attested>>
  PROVE  /\ tasks' \in Seq(Task) /\ Len(tasks') = Len(tasks) + 1
         /\ DOMAIN tasks \subseteq DOMAIN tasks' /\ Len(tasks') \in DOMAIN tasks'
         /\ TasksOK' /\ CompletionsClosed' /\ SoundCompletion'
<1>1. tasks \in Seq(Task)
  BY DEF IInv, TypeOK
<1>2. /\ tasks' \in Seq(Task) /\ Len(tasks') = Len(tasks) + 1
      /\ DOMAIN tasks \subseteq DOMAIN tasks' /\ Len(tasks') \in DOMAIN tasks'
      /\ \A i \in DOMAIN tasks : tasks'[i] = tasks[i]
      /\ tasks'[Len(tasks) + 1] = t
      /\ DOMAIN tasks' = DOMAIN tasks \cup {Len(tasks) + 1}
  BY <1>1
<1>3. TasksOK'
  BY <1>2 DEF IInv, TasksOK
<1>4. CompletionsClosed'
  BY <1>2 DEF IInv, CompletionsClosed
<1>5. SoundCompletion'
  BY <1>2 DEF IInv, CompletionsClosed, SoundCompletion
<1>. QED
  BY <1>2, <1>3, <1>4, <1>5

(* Who signed for a task, if all the signatures were given by attestors. *)
LEMMA SignersAttested ==
  ASSUME IInv, NEW t, NEW sigs \in SUBSET attested, NEW o \in recoverSigners(t, sigs)
  PROVE  Attestation(t, o) \in attested
<1>1. PICK s \in sigs : /\ s.context = t.context /\ s.owner = t.owner
                        /\ s.timestampS = t.createdAt /\ s.op = o
  BY DEF recoverSigners
<1>2. s \in Signature /\ s \in attested
  BY DEF IInv, TypeOK
<1>3. s = Attestation(t, o)
  BY <1>1, <1>2 DEF Signature, Attestation
<1>. QED
  BY <1>2, <1>3

(* A task is completed, with signatures that attestors gave. *)
LEMMA CompletedStep ==
  ASSUME IInv, NEW i \in DOMAIN tasks, NEW sigs \in SUBSET attested,
         CanComplete(i, sigs), taskCompleted(i), UNCHANGED attested
  PROVE  /\ tasks' \in Seq(Task) /\ DOMAIN tasks' = DOMAIN tasks
         /\ completions' \in Seq([index : Nat, at : 0 .. MaxTime])
         /\ TasksOK' /\ CompletionsClosed' /\ SoundCompletion'
<1>1. /\ tasks \in Seq(Task) /\ completions \in Seq([index : Nat, at : 0 .. MaxTime])
      /\ now \in 0 .. MaxTime
  BY DEF IInv, TypeOK
<1>2. /\ tasks' \in Seq(Task) /\ DOMAIN tasks' = DOMAIN tasks
      /\ \A j \in DOMAIN tasks :
           /\ tasks'[j].operators = tasks[j].operators
           /\ tasks'[j].context = tasks[j].context
           /\ tasks'[j].owner = tasks[j].owner
           /\ tasks'[j].createdAt = tasks[j].createdAt
           /\ tasks'[j].expiresAt = tasks[j].expiresAt
           /\ j # i => tasks'[j].open = tasks[j].open
      /\ tasks'[i].open = FALSE
  <2>. DEFINE t == [tasks[i] EXCEPT !.open = FALSE]
  <2>1. tasks[i] \in Task
    BY <1>1
  <2>2. t \in Task /\ t.operators = tasks[i].operators /\ t.context = tasks[i].context
        /\ t.owner = tasks[i].owner /\ t.createdAt = tasks[i].createdAt
        /\ t.expiresAt = tasks[i].expiresAt /\ t.open = FALSE
    BY <2>1 DEF Task
  <2>3. tasks' = [tasks EXCEPT ![i] = t]
    BY DEF taskCompleted
  <2>. HIDE DEF t
  <2>. QED
    BY <1>1, <2>2, <2>3
<1>. DEFINE ev == [index |-> i, at |-> now]
<1>3. /\ completions' \in Seq([index : Nat, at : 0 .. MaxTime])
      /\ DOMAIN completions' = DOMAIN completions \cup {Len(completions) + 1}
      /\ \A e \in DOMAIN completions : completions'[e] = completions[e]
      /\ completions'[Len(completions) + 1] = ev
      /\ Len(completions) + 1 \notin DOMAIN completions
  <2>1. ev \in [index : Nat, at : 0 .. MaxTime] /\ completions' = Append(completions, ev)
    BY <1>1 DEF taskCompleted
  <2>2. Len(completions) \in Nat /\ DOMAIN completions = 1 .. Len(completions)
    BY <1>1
  <2>. HIDE DEF ev
  <2>3. /\ completions' \in Seq([index : Nat, at : 0 .. MaxTime])
        /\ DOMAIN completions' = 1 .. Len(completions) + 1
        /\ \A e \in 1 .. Len(completions) : completions'[e] = completions[e]
        /\ completions'[Len(completions) + 1] = ev
    BY <1>1, <2>1, <2>2, AppendProperties, LenProperties
  <2>. QED
    BY <2>2, <2>3
<1>4. tasks[i].open
  BY DEF CanComplete
<1>5. TasksOK'
  BY <1>2 DEF IInv, TasksOK
<1>6. CompletionsClosed'
  <2>1. \A e \in DOMAIN completions : /\ completions[e].index \in DOMAIN tasks
                                      /\ ~tasks[completions[e].index].open
    BY DEF IInv, CompletionsClosed
  <2>2. \A j \in DOMAIN tasks : ~tasks[j].open => ~tasks'[j].open
    BY <1>2, <1>4
  <2>3. completions'[Len(completions) + 1].index = i
    BY <1>3
  <2>. QED
    BY <1>2, <1>3, <2>1, <2>2, <2>3 DEF CompletionsClosed
<1>7. \A e \in DOMAIN completions : completions[e].index # i
  BY <1>4 DEF IInv, CompletionsClosed
<1>8. now < tasks[i].expiresAt
        /\ \A o \in ToSet(tasks[i].operators) : Attestation(tasks[i], o) \in attested
  <2>1. ToSet(tasks[i].operators) \subseteq recoverSigners(tasks[i], sigs)
    BY DEF CanComplete, assertValidSignedClaim
  <2>2. now < tasks[i].expiresAt
    <3>1. tasks[i] \in Task
      BY <1>1
    <3>2. tasks[i].expiresAt \in Nat
      BY <3>1 DEF Task
    <3>. QED
      BY <1>1, <3>2 DEF CanComplete
  <2>. QED
    BY <2>1, <2>2, SignersAttested
<1>9. SoundCompletion'
  <2>. SUFFICES ASSUME NEW e \in DOMAIN completions'
                PROVE  LET t == tasks'[completions'[e].index] IN
                       /\ \A f \in DOMAIN completions' :
                            completions'[f].index = completions'[e].index => f = e
                       /\ completions'[e].at < t.expiresAt
                       /\ \A o \in ToSet(t.operators) : Attestation(t, o) \in attested
    BY DEF SoundCompletion, Attestation
  <2>1. CASE e = Len(completions) + 1
    <3>1. completions'[e].index = i /\ completions'[e].at = now
      BY <1>3, <2>1
    <3>2. \A f \in DOMAIN completions' : completions'[f].index = i => f = e
      BY <1>3, <1>7, <2>1
    <3>3. \A o : Attestation(tasks'[i], o) = Attestation(tasks[i], o)
      BY <1>2 DEF Attestation
    <3>. QED
      BY <1>2, <1>8, <3>1, <3>2, <3>3
  <2>2. CASE e \in DOMAIN completions
    <3>. DEFINE j == completions[e].index
    <3>1. completions'[e] = completions[e] /\ j \in DOMAIN tasks /\ j # i
      BY <1>3, <1>7, <2>2 DEF IInv, CompletionsClosed
    <3>2. /\ \A f \in DOMAIN completions : completions[f].index = j => f = e
          /\ completions[e].at < tasks[j].expiresAt
          /\ \A o \in ToSet(tasks[j].operators) : Attestation(tasks[j], o) \in attested
      BY <2>2 DEF IInv, SoundCompletion, Attestation
    <3>3. \A o : Attestation(tasks'[j], o) = Attestation(tasks[j], o)
      BY <1>2, <3>1 DEF Attestation
    <3>4. \A f \in DOMAIN completions' : completions'[f].index = j => f = e
      BY <1>3, <3>1, <3>2
    <3>5. completions'[e].index = j
      BY <3>1
    <3>. HIDE DEF j
    <3>. QED
      BY <1>2, <3>1, <3>2, <3>3, <3>4, <3>5
  <2>. QED
    BY <1>3, <2>1, <2>2
<1>. QED
  BY <1>2, <1>3, <1>5, <1>6, <1>9
----------------------------------------------------------------------------
(* Runs of createClaimOnAvs *)

(* One run becomes k; the others keep what they rely on, as tasks and      *)
(* attestations are only added.                                            *)
LEMMA ClientStep ==
  ASSUME IInv, UNCHANGED <<adminVars, now>>, NEW c \in Clients, NEW k \in Client,
         client' = [client EXCEPT ![c] = k],
         k.pc \in {"idle", "requested"} => k.responses = <<>>,
         k.pc = "collecting" => k.task \in DOMAIN tasks',
         ToSet(k.responses) \subseteq attested',
         DOMAIN tasks \subseteq DOMAIN tasks', attested \subseteq attested',
         tasks' \in Seq(Task), attested' \subseteq Signature,
         completions' \in Seq([index : Nat, at : 0 .. MaxTime]),
         TasksOK', CompletionsClosed', SoundCompletion'
  PROVE  IInv'
<1>1. \A d \in Clients : client'[d] = IF d = c THEN k ELSE client[d]
  BY DEF IInv, TypeOK
<1>2. TypeOK'
  <2>1. client' \in [Clients -> Client]
    BY DEF IInv, TypeOK
  <2>. QED
    BY <2>1 DEF IInv, TypeOK, adminVars
<1>3. \A d \in Clients : ClientOK(d)'
  <2>. SUFFICES ASSUME NEW d \in Clients PROVE ClientOK(d)'
    OBVIOUS
  <2>1. CASE d = c
    BY <1>1, <2>1 DEF ClientOK
  <2>2. CASE d # c
    <3>1. ClientOK(d) /\ client'[d] = client[d]
      BY <1>1, <2>2 DEF IInv
    <3>. QED
      BY <3>1 DEF ClientOK
  <2>. QED
    BY <2>1, <2>2
<1>4. Distinct(registeredOperators)'
  BY DEF IInv, Distinct, adminVars
<1>. QED
  BY <1>2, <1>3, <1>4 DEF IInv

(* The conditions of ClientStep on the chain when only clients move. *)
LEMMA SameChain ==
  ASSUME IInv, UNCHANGED <<tasks, completions>>, attested \subseteq attested'
  PROVE  /\ DOMAIN tasks \subseteq DOMAIN tasks' /\ tasks' \in Seq(Task)
         /\ completions' \in Seq([index : Nat, at : 0 .. MaxTime])
         /\ TasksOK' /\ CompletionsClosed' /\ SoundCompletion'
BY DEF IInv, TypeOK, TasksOK, CompletionsClosed, SoundCompletion

(* What is left of a run that failed. *)
LEMMA FailedClient ==
  ASSUME IInv, NEW c \in Clients, Fail(c)
  PROVE  \E k \in Client : /\ client' = [client EXCEPT ![c] = k]
                           /\ k.pc = "failed" /\ k.responses = <<>>
<1>. DEFINE k == [client[c] EXCEPT !.pc = "failed", !.task = 0, !.responses = <<>>,
                                   !.context = "plain", !.requestedAt = 0]
<1>1. client[c] \in Client /\ <<>> \in Seq(Signature) /\ 0 \in 0 .. MaxTime
  BY Kinds DEF IInv, TypeOK
<1>2. k \in Client /\ k.pc = "failed" /\ k.responses = <<>>
  BY <1>1 DEF Client, Contexts
<1>3. client' = [client EXCEPT ![c] = k]
  BY DEF Fail
<1>. HIDE DEF k
<1>. QED
  BY <1>2, <1>3

LEMMA FailStep ==
  ASSUME IInv, UNCHANGED <<adminVars, now, completions>>, NEW c \in Clients, Fail(c),
         DOMAIN tasks \subseteq DOMAIN tasks', attested \subseteq attested',
         tasks' \in Seq(Task), attested' \subseteq Signature,
         TasksOK', CompletionsClosed', SoundCompletion'
  PROVE  IInv'
<1>1. PICK k \in Client : /\ client' = [client EXCEPT ![c] = k]
                          /\ k.pc = "failed" /\ k.responses = <<>>
  BY FailedClient
<1>2. ToSet(k.responses) = {}
  BY <1>1 DEF ToSet
<1>3. completions' \in Seq([index : Nat, at : 0 .. MaxTime])
  BY DEF IInv, TypeOK
<1>. QED
  BY <1>1, <1>2, <1>3, ClientStep

LEMMA RequestStep ==
  ASSUME IInv, NEW c \in Clients, NEW context \in Contexts, Request(c, context)
  PROVE  IInv'
<1>. DEFINE k == [client[c] EXCEPT !.pc = "requested", !.context = context,
                                   !.requestedAt = now]
<1>1. client[c] \in Client /\ now \in 0 .. MaxTime /\ client[c].responses = <<>>
  BY DEF IInv, TypeOK, ClientOK, Request
<1>2. k \in Client /\ k.pc = "requested" /\ k.responses = <<>>
  BY <1>1 DEF Client
<1>3. client' = [client EXCEPT ![c] = k]
  BY DEF Request, IInv, TypeOK
<1>4. ToSet(k.responses) = {}
  BY <1>2 DEF ToSet
<1>. HIDE DEF k
<1>5. UNCHANGED <<adminVars, now, tasks, completions, attested>> /\ attested' \subseteq Signature
  BY DEF Request, IInv, TypeOK
<1>. QED
  BY <1>2, <1>3, <1>4, <1>5, SameChain, ClientStep

LEMMA CreateStep ==
  ASSUME IInv, NEW c \in Clients, createNewTask(c)
  PROVE  IInv'
<1>1. PICK t \in NewTasks(c) :
        /\ tasks' = Append(tasks, t)
        /\ client' = [client EXCEPT ![c].pc = "collecting", ![c].task = Len(tasks')]
  BY DEF createNewTask
<1>2. UNCHANGED <<adminVars, now, completions, attested>>
  BY DEF createNewTask
<1>3. t \in Task /\ Distinct(t.operators)
  BY NewTaskOK
<1>4. /\ tasks' \in Seq(Task) /\ Len(tasks') = Len(tasks) + 1
      /\ DOMAIN tasks \subseteq DOMAIN tasks' /\ Len(tasks') \in DOMAIN tasks'
      /\ TasksOK' /\ CompletionsClosed' /\ SoundCompletion'
  BY <1>1, <1>2, <1>3, NewTaskStep
<1>. DEFINE n == Len(tasks')
            k == [client[c] EXCEPT !.pc = "collecting", !.task = n]
<1>5. n \in Nat
  BY <1>4
<1>6. client[c] \in Client /\ client[c].responses = <<>>
  BY DEF IInv, TypeOK, ClientOK, createNewTask
<1>7. client' = [client EXCEPT ![c] = k]
  BY <1>1 DEF IInv, TypeOK
<1>. HIDE DEF n
<1>8. k \in Client /\ k.pc = "collecting" /\ k.task = n /\ k.responses = <<>>
  BY <1>5, <1>6 DEF Client
<1>9. ToSet(k.responses) = {} /\ n \in DOMAIN tasks'
  BY <1>4, <1>8 DEF ToSet, n
<1>10. /\ attested' \subseteq Signature
       /\ completions' \in Seq([index : Nat, at : 0 .. MaxTime])
  BY <1>2 DEF IInv, TypeOK
<1>. HIDE DEF k
<1>. QED
  BY <1>2, <1>4, <1>7, <1>8, <1>9, <1>10, ClientStep

LEMMA RequestFailsStep ==
  ASSUME IInv, NEW c \in Clients, RequestFails(c)
  PROVE  IInv'
<1>1. /\ Fail(c) /\ UNCHANGED <<adminVars, now, completions, attested>>
      /\ attested' \subseteq Signature
  BY DEF RequestFails, IInv, TypeOK
<1>2. CASE UNCHANGED tasks
  BY <1>1, <1>2, SameChain, FailStep
<1>3. ASSUME NEW t \in NewTasks(c), tasks' = Append(tasks, t) PROVE IInv'
  BY <1>1, <1>3, NewTaskOK, NewTaskStep, FailStep
<1>. QED
  BY <1>2, <1>3 DEF RequestFails

LEMMA CollectFailsStep ==
  ASSUME IInv, NEW c \in Clients, CollectFails(c)
  PROVE  IInv'
<1>1. /\ Fail(c) /\ UNCHANGED <<adminVars, now, tasks, completions, attested>>
      /\ attested' \subseteq Signature
  BY DEF CollectFails, IInv, TypeOK
<1>. QED
  BY <1>1, SameChain, FailStep

(* An operator of the task attests; the client keeps the signature only if *)
(* the context came back as it was.                                        *)
LEMMA CollectStep ==
  ASSUME IInv, NEW c \in Clients, CollectSignature(c)
  PROVE  IInv'
<1>. DEFINE i == client[c].task
            sig == [op |-> NextOperator(c), owner |-> OwnerOf[c],
                    context |-> ContextOfClaim(client[c].context),
                    timestampS |-> tasks[i].createdAt]
<1>1. client[c] \in Client /\ i \in DOMAIN tasks /\ tasks \in Seq(Task)
      /\ ToSet(client[c].responses) \subseteq attested
  BY DEF IInv, TypeOK, ClientOK, CollectSignature
<1>2. tasks[i] \in Task
  BY <1>1
<1>3. NextOperator(c) \in Operators
  <2>1. tasks[i].operators \in Seq(Operators \cup {Zero})
    BY <1>2 DEF Task
  <2>2. client[c].responses \in Seq(Signature)
    BY <1>1 DEF Client
  <2>3. Len(client[c].responses) + 1 \in 1 .. Len(tasks[i].operators)
    BY <2>1, <2>2 DEF CollectSignature
  <2>4. NextOperator(c) \in Operators \cup {Zero}
    BY <2>1, <2>3 DEF NextOperator
  <2>. QED
    BY <2>4 DEF CollectSignature
<1>4. sig \in Signature
  <2>1. OwnerOf[c] \in Owners /\ tasks[i].createdAt \in 0 .. MaxTime
    BY <1>2 DEF Owners, Task
  <2>. QED
    BY <1>3, <2>1 DEF Signature, ContextOfClaim, Contexts
<1>5. /\ attested' = attested \cup {sig}
      /\ IF SameAsRequested(c, sig)
         THEN client' = [client EXCEPT ![c].responses = Append(@, sig)] ELSE Fail(c)
      /\ UNCHANGED <<adminVars, now, tasks, completions>>
  BY DEF CollectSignature
<1>. HIDE DEF sig, i
<1>6. attested' \subseteq Signature /\ attested \subseteq attested'
  BY <1>4, <1>5 DEF IInv, TypeOK
<1>7. CASE ~SameAsRequested(c, sig)
  BY <1>5, <1>6, <1>7, SameChain, FailStep
<1>8. CASE SameAsRequested(c, sig)
  <2>. DEFINE rs == Append(client[c].responses, sig)
              k == [client[c] EXCEPT !.responses = rs]
  <2>1. client[c].responses \in Seq(Signature)
    BY <1>1 DEF Client
  <2>2. rs \in Seq(Signature) /\ ToSet(rs) = ToSet(client[c].responses) \cup {sig}
    BY <1>4, <2>1, AppendProperties, LenProperties DEF ToSet
  <2>3. client' = [client EXCEPT ![c] = k]
    BY <1>5, <1>8 DEF IInv, TypeOK
  <2>. HIDE DEF rs
  <2>4. k \in Client /\ k.pc = client[c].pc /\ k.responses = rs /\ k.task = client[c].task
        /\ k.context = client[c].context
    BY <1>1, <2>2 DEF Client
  <2>5. client[c].pc = "collecting"
    BY DEF CollectSignature
  <2>6. ToSet(k.responses) \subseteq attested'
    BY <1>1, <1>5, <2>2, <2>4
  <2>7. k.task \in DOMAIN tasks'
    BY <1>1, <1>5, <2>4 DEF i
  <2>. HIDE DEF k
  <2>. QED
    BY <1>5, <1>6, <2>3, <2>4, <2>5, <2>6, <2>7, SameChain, ClientStep
<1>. QED
  BY <1>7, <1>8

LEMMA CompleteStep ==
  ASSUME IInv, NEW c \in Clients, CompleteTask(c)
  PROVE  IInv'
<1>. DEFINE i == client[c].task
            sigs == ToSet(client[c].responses)
<1>1. /\ client[c] \in Client /\ client[c].pc = "collecting"
      /\ i \in DOMAIN tasks /\ sigs \in SUBSET attested
  BY DEF IInv, TypeOK, ClientOK, CompleteTask
<1>2. UNCHANGED <<adminVars, now, attested>> /\ attested' \subseteq Signature
  BY DEF CompleteTask, IInv, TypeOK
<1>3. CASE CanComplete(i, sigs)
  <2>1. taskCompleted(i) /\ client' = [client EXCEPT ![c].pc = "done"]
    BY <1>3 DEF CompleteTask
  <2>2. /\ tasks' \in Seq(Task) /\ DOMAIN tasks' = DOMAIN tasks
        /\ completions' \in Seq([index : Nat, at : 0 .. MaxTime])
        /\ TasksOK' /\ CompletionsClosed' /\ SoundCompletion'
    BY <1>1, <1>2, <1>3, <2>1, CompletedStep
  <2>. DEFINE k == [client[c] EXCEPT !.pc = "done"]
  <2>3. /\ k \in Client /\ k.pc = "done" /\ k.responses = client[c].responses
        /\ k.context = client[c].context
    BY <1>1 DEF Client
  <2>4. client' = [client EXCEPT ![c] = k]
    BY <2>1 DEF IInv, TypeOK
  <2>. HIDE DEF k, sigs, i
  <2>7. ToSet(k.responses) \subseteq attested'
    BY <1>1, <1>2, <2>3 DEF sigs
  <2>. QED
    BY <1>2, <2>2, <2>3, <2>4, <2>7, ClientStep
<1>4. CASE ~CanComplete(i, sigs)
  <2>1. Fail(c) /\ UNCHANGED <<tasks, completions>>
    BY <1>4 DEF CompleteTask
  <2>. QED
    BY <1>2, <2>1, SameChain, FailStep
<1>. QED
  BY <1>3, <1>4

LEMMA AnyoneStep ==
  ASSUME IInv, NEW i \in DOMAIN tasks, NEW sigs \in SUBSET attested,
         AnyoneCompletes(i, sigs)
  PROVE  IInv'
<1>1. /\ CanComplete(i, sigs) /\ taskCompleted(i)
      /\ UNCHANGED <<adminVars, now, attested, client>>
  BY DEF AnyoneCompletes
<1>2. /\ tasks' \in Seq(Task) /\ DOMAIN tasks' = DOMAIN tasks
      /\ completions' \in Seq([index : Nat, at : 0 .. MaxTime])
      /\ TasksOK' /\ CompletionsClosed' /\ SoundCompletion'
  BY <1>1, CompletedStep
<1>3. TypeOK'
  BY <1>1, <1>2 DEF IInv, TypeOK, adminVars
<1>4. \A c \in Clients : ClientOK(c)'
  BY <1>1, <1>2 DEF IInv, ClientOK
<1>. QED
  BY <1>1, <1>2, <1>3, <1>4 DEF IInv, Distinct, adminVars

LEMMA TickStep ==
  ASSUME IInv, Tick
  PROVE  IInv'
<1>1. now' \in 0 .. MaxTime
  BY Kinds DEF IInv, TypeOK, Tick
<1>2. TypeOK'
  BY <1>1 DEF IInv, TypeOK, Tick, adminVars
<1>. QED
  BY <1>2 DEF IInv, Tick, adminVars, Distinct, TasksOK, CompletionsClosed, SoundCompletion,
     ClientOK

LEMMA NextIInv == IInv /\ [Next]_vars => IInv'
<1>. SUFFICES ASSUME IInv, [Next]_vars PROVE IInv'
  OBVIOUS
<1>1. CASE UNCHANGED vars
  BY <1>1 DEF vars, adminVars, taskVars, IInv, TypeOK, Distinct, TasksOK,
     CompletionsClosed, SoundCompletion, ClientOK
<1>2. CASE \/ \E n \in 1 .. MaxSignatures : updateTaskCreationMetadata(n)
           \/ \E o \in Operators :
                \/ \E b \in BOOLEAN : whitelistAddressAsOperator(o, b)
                \/ registerOperatorToAVS(o)
                \/ deregisterOperator(o)
                \/ \E b \in BOOLEAN : updateOperatorMetadata(o, b)
  <2>1. UNCHANGED taskVars
    BY <1>2 DEF updateTaskCreationMetadata, whitelistAddressAsOperator,
       registerOperatorToAVS, deregisterOperator, updateOperatorMetadata
  <2>. QED
    BY <1>2, <2>1, AdminStep
<1>3. ASSUME NEW c \in Clients,
             \/ \E context \in Contexts : Request(c, context)
             \/ createNewTask(c) \/ RequestFails(c) \/ CollectSignature(c)
             \/ CollectFails(c) \/ CompleteTask(c)
      PROVE  IInv'
  BY <1>3, RequestStep, CreateStep, RequestFailsStep, CollectStep, CollectFailsStep,
     CompleteStep
<1>. QED
  BY <1>1, <1>2, <1>3, AnyoneStep, TickStep DEF Next
----------------------------------------------------------------------------
(* IInv holds in every reachable state of the contract and its clients. *)
THEOREM AvsInvariant == Spec => []IInv
BY InitIInv, NextIInv, PTL DEF Spec

(* Lists, tasks, events, signatures and runs keep their types. *)
THEOREM AvsTypeCorrect == Spec => []TypeOK
<1>1. IInv => TypeOK
  BY DEF IInv
<1>. QED
  BY <1>1, AvsInvariant, PTL

(* A task is completed at most once, before it expires, and with the       *)
(* attestation of every operator that was picked for it, whoever sends the *)
(* transaction and however often (ReclaimServiceManager.sol,               *)
(* taskCompleted).                                                         *)
THEOREM CompletionsAreSound == Spec => []SoundCompletion
<1>1. IInv => SoundCompletion
  BY DEF IInv
<1>. QED
  BY <1>1, AvsInvariant, PTL

(* No operator is picked twice for a task, after any sequence of           *)
(* registrations and departures (ReclaimServiceManager.sol,                *)
(* updateOperatorMetadata and pickRandomOperators).                        *)
THEOREM OperatorsPickedOnce == Spec => []PickedDistinct
<1>1. IInv => PickedDistinct
  BY DEF IInv, TasksOK, PickedDistinct, Distinct, ToSet
<1>. QED
  BY <1>1, AvsInvariant, PTL
============================================================================
