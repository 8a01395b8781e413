----------------------------- MODULE CostBudget -----------------------------
(***************************************************************************)
(* What one session has spent on the model                                 *)
(* (shared/reliability/cost_budget.py): a total in Redis that every        *)
(* instance adds to and reads, and in every instance the total it knows,   *)
(* which counts on alone while Redis is out.  Nothing here waits: a call   *)
(* of is_over_budget or add_usage is one step of its event loop.           *)
(***************************************************************************)
EXTENDS Naturals

CONSTANTS
    Instance,
    Budget,     \* SESSION_BUDGET_YUAN, in units of the smallest call
    MaxFaults   \* bound: outages in a behaviour

VARIABLES
    redis,      \* whether Redis answers
    faults,     \* outages so far
    shared,     \* cost:{session}:input_tokens and :output_tokens, as one cost
    known       \* of each instance: SessionBudget.cost_yuan

budget == <<redis, faults, shared, known>>

BudgetTypeOK ==
    /\ redis \in BOOLEAN /\ faults \in 0 .. MaxFaults
    /\ shared \in Nat /\ known \in [Instance -> Nat]

BudgetInit == redis = TRUE /\ faults = 0 /\ shared = 0 /\ known = [i \in Instance |-> 0]

\* status: an absent counter leaves what the instance knows.
Known(i) == IF redis /\ shared > 0 THEN shared ELSE known[i]

\* is_over_budget, with what status leaves behind.
OverBudget(i) == Known(i) >= Budget
Reads(i) == known' = [known EXCEPT ![i] = Known(i)] /\ UNCHANGED <<redis, faults, shared>>

Out == redis /\ redis' = FALSE /\ faults < MaxFaults /\ faults' = faults + 1

\* add_usage.  Redis may go between the two counters: then the cost is added
\* here as well.
Adds(i, cost) ==
    \/ /\ redis
       /\ shared' = shared + cost
       /\ known' = [known EXCEPT ![i] = shared']
       /\ UNCHANGED <<redis, faults>>
    \/ /\ Out
       /\ \E part \in 0 .. cost : shared' = shared + part
       /\ known' = [known EXCEPT ![i] = @ + cost]
    \/ /\ ~redis
       /\ known' = [known EXCEPT ![i] = @ + cost]
       /\ UNCHANGED <<redis, faults, shared>>

RedisGoes == Out /\ UNCHANGED <<shared, known>>

RedisReturns == ~redis /\ redis' = TRUE /\ UNCHANGED <<faults, shared, known>>

\* _budgets of a restarted process is empty.
Forgets(i) == known' = [known EXCEPT ![i] = 0] /\ UNCHANGED <<redis, faults, shared>>
=============================================================================
