---------------------------- MODULE MCAvsTasks -----------------------------
(* Two operators, at most two signatures per task, and two runs of the     *)
(* same owner, whose tasks may be created in the same block.  The contract *)
(* is past its first steps: both operators have registered.                *)
EXTENDS AvsTasks

CONSTANTS o1, o2, c1, c2, w

MCOwnerOf == [c \in Clients |-> w]

MCInit ==
    /\ now = 0
    /\ minSignaturesPerTask = 1
    /\ whitelistedOperators = <<o1, o2>>
    /\ staked = Operators
    /\ minimumWeight \in {0, 1}
    /\ heavy \in {{o1}, Operators}
    /\ registeredOperators = <<o1, o2>>
    /\ tasks = <<>> /\ completions = <<>> /\ attested = {} /\ changes = 0
    /\ client = [c \in Clients |-> [pc |-> "idle", context |-> "plain",
            requestedAt |-> 0, task |-> 0, responses |-> <<>>]]

MCSpec == MCInit /\ [][Next]_vars

Symmetry == Permutations({c1, c2})
=============================================================================
