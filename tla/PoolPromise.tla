----------------------------- MODULE PoolPromise -----------------------------
(***************************************************************************)
(* What the real provider promises each request, whatever the other        *)
(* requests do (shared/llm/real/provider.py, _post_chat): it calls models  *)
(* it has not given up on, gives one up for good, and only fails after it  *)
(* has given up every model, or at once when the request itself is wrong.  *)
(* There is no pool pointer here and no order: those are LlmCall's.        *)
(***************************************************************************)
EXTENDS FiniteSets

CONSTANTS Request, Model

VARIABLES
    left,      \* the models a request has not given up
    outcome    \* none, waiting, answer, mock (degraded) or raised

vars == <<left, outcome>>

Init ==
    /\ left = [r \in Request |-> Model]
    /\ outcome = [r \in Request |-> "none"]

\* A request is posted: every model is there to be called.
Post(r) ==
    /\ outcome[r] = "none"
    /\ left' = [left EXCEPT ![r] = Model]
    /\ outcome' = [outcome EXCEPT ![r] = "waiting"]

\* A model failed it: it is given up, and another one is called.
GiveUp(r, m) ==
    /\ outcome[r] = "waiting" /\ m \in left[r] /\ left[r] # {m}
    /\ left' = [left EXCEPT ![r] = @ \ {m}]
    /\ UNCHANGED outcome

\* The last model failed it: the request degrades or raises.
AllFailed(r, m) ==
    /\ outcome[r] = "waiting" /\ left[r] = {m}
    /\ left' = [left EXCEPT ![r] = {}]
    /\ \E o \in {"mock", "raised"} : outcome' = [outcome EXCEPT ![r] = o]

\* A model answered, or refused the request itself: no other is called.
Settle(r, m) ==
    /\ outcome[r] = "waiting" /\ m \in left[r]
    /\ \E o \in {"answer", "mock", "raised"} : outcome' = [outcome EXCEPT ![r] = o]
    /\ UNCHANGED left

\* An answer that is no JSON object: posted once more.
PostAgain(r) ==
    /\ outcome[r] = "waiting" /\ left[r] # {}
    /\ left' = [left EXCEPT ![r] = Model]
    /\ UNCHANGED outcome

\* The caller takes the outcome and may come again.
Take(r) ==
    /\ outcome[r] \in {"answer", "mock", "raised"}
    /\ outcome' = [outcome EXCEPT ![r] = "none"]
    /\ left' = [left EXCEPT ![r] = Model]

Next == \E r \in Request :
    \/ Post(r) \/ PostAgain(r) \/ Take(r)
    \/ \E m \in Model : GiveUp(r, m) \/ AllFailed(r, m) \/ Settle(r, m)

Spec == Init /\ [][Next]_vars
=============================================================================
