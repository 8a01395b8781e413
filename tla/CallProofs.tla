------------------------------ MODULE CallProofs ------------------------------
(***************************************************************************)
(* Proofs about what the application calls its services through: the pool  *)
(* of models (LlmCall) and the circuit breaker of a tool (CircuitBreaker). *)
(*                                                                         *)
(* LlmCall, for any number of requests, models and retries: each request   *)
(* keeps PoolPromise, whatever the others do to the pointer.  The argument:*)
(* what a request has given up are the first k models of the order it took *)
(* when it was posted, and an order names every model once.                *)
(*                                                                         *)
(* CircuitBreaker, for any processes, threads and threshold: a timestamp   *)
(* is written before the last thread that owes one is through.             *)
(***************************************************************************)
EXTENDS LlmCall, CircuitBreaker, TLAPS

\* The first k models of the order that begins at start.
Tried(start, k) == {Order(start, j) : j \in 0 .. k - 1}

\* What a request in state s has given up is g.
Accounted(s, g) ==
    /\ s.pc = "idle" => g = {}
    /\ s.pc = "ask" => g = Tried(s.start, s.k)
    /\ s.pc = "done" => s.result # "none"

IInv == TypeOK /\ \A r \in Request : Accounted(req[r], gaveUp[r])

\* The two variables of PoolPromise, as LlmCall's INSTANCE gives them.
Left == [r \in Request |-> Model \ gaveUp[r]]
OutcomeOf(s) == CASE s.pc = "idle" -> "none"
                  [] s.pc = "ask" -> "waiting"
                  [] OTHER -> s.result
Outcome == [r \in Request |-> OutcomeOf(req[r])]

-----------------------------------------------------------------------------
\* An order names every model, and none twice.
LEMMA OrderIsPermutation ==
    ASSUME NEW start \in Model
    PROVE  /\ \A i \in Model : Order(start, i) \in Model
           /\ \A i, j \in Model : Order(start, i) = Order(start, j) => i = j
           /\ \A m \in Model : \E i \in Model : Order(start, i) = m
<1>1. \A i \in Model : Order(start, i) \in Model
    BY PoolAssumption DEF Model, Order
<1>2. \A i, j \in Model : Order(start, i) = Order(start, j) => i = j
    BY PoolAssumption DEF Model, Order
<1>3. ASSUME NEW m \in Model PROVE \E i \in Model : Order(start, i) = m
    <2>1. CASE m >= start
        <3>1. m - start \in Model /\ Order(start, m - start) = m
            BY <2>1, PoolAssumption DEF Model, Order
        <3> QED BY <3>1
    <2>2. CASE m < start
        <3>1. m - start + N \in Model /\ Order(start, m - start + N) = m
            BY <2>2, PoolAssumption DEF Model, Order
        <3> QED BY <3>1
    <2> QED BY <2>1, <2>2, PoolAssumption DEF Model
<1> QED BY <1>1, <1>2, <1>3

\* The model a request is at is one it has not given up; giving it up is to be
\* at the next one; and only at the end of the order is it the last one left.
LEMMA TriedAndLeft ==
    ASSUME NEW start \in Model, NEW k \in Model
    PROVE  /\ Order(start, k) \in Model \ Tried(start, k)
           /\ Tried(start, k) \cup {Order(start, k)} = Tried(start, k + 1)
           /\ k + 1 < N => Model \ Tried(start, k) # {Order(start, k)}
           /\ k + 1 >= N => Model \ Tried(start, k) = {Order(start, k)}
<1>1. Order(start, k) \in Model \ Tried(start, k)
    BY OrderIsPermutation, PoolAssumption DEF Model, Tried
<1>2. Tried(start, k) \cup {Order(start, k)} = Tried(start, k + 1)
    <2>1. 0 .. (k + 1) - 1 = (0 .. k - 1) \cup {k}
        BY PoolAssumption DEF Model
    <2> QED BY <2>1 DEF Tried
<1>3. ASSUME k + 1 < N PROVE Model \ Tried(start, k) # {Order(start, k)}
    <2>1. k + 1 \in Model /\ Order(start, k + 1) # Order(start, k)
        BY <1>3, OrderIsPermutation, PoolAssumption DEF Model
    <2>2. Order(start, k + 1) \in Model \ Tried(start, k)
        BY <2>1, OrderIsPermutation, PoolAssumption DEF Model, Tried
    <2> QED BY <2>1, <2>2
<1>4. ASSUME k + 1 >= N PROVE Model \ Tried(start, k) = {Order(start, k)}
    <2>1. ASSUME NEW m \in Model \ Tried(start, k) PROVE m = Order(start, k)
        <3>1. PICK i \in Model : Order(start, i) = m
            BY OrderIsPermutation
        <3>2. i \notin 0 .. k - 1
            BY <3>1 DEF Tried
        <3>3. i = k
            BY <3>2, <1>4, PoolAssumption DEF Model
        <3> QED BY <3>1, <3>3
    <2> QED BY <2>1, <1>1
<1> QED BY <1>1, <1>2, <1>3, <1>4

\* What is tried is nothing before the first model.
LEMMA NothingTried == \A start \in Model : Tried(start, 0) = {}
BY DEF Tried

-----------------------------------------------------------------------------
\* A step of request r alone that leaves its account right.
LEMMA RequestStep ==
    ASSUME IInv, NEW r \in Request,
           idx' \in Model, active' \in Model \cup {None},
           req' = [req EXCEPT ![r] = req'[r]], gaveUp' = [gaveUp EXCEPT ![r] = gaveUp'[r]],
           req'[r] \in ReqState, gaveUp'[r] \in SUBSET Model, Accounted(req'[r], gaveUp'[r])
    PROVE  /\ IInv'
           /\ Left' = [Left EXCEPT ![r] = Model \ gaveUp'[r]]
           /\ Outcome' = [Outcome EXCEPT ![r] = OutcomeOf(req'[r])]
<1>1. TypeOK'
    BY DEF IInv, TypeOK
<1>2. ASSUME NEW q \in Request PROVE Accounted(req'[q], gaveUp'[q])
    <2>1. CASE q = r
        BY <2>1
    <2>2. CASE q # r
        <3>1. req'[q] = req[q] /\ gaveUp'[q] = gaveUp[q]
            BY <2>2 DEF IInv, TypeOK
        <3> QED BY <3>1 DEF IInv
    <2> QED BY <2>1, <2>2
<1>3. (\A q \in Request : Accounted(req[q], gaveUp[q]))'
    BY <1>2 DEF Accounted
<1>4. Left' = [Left EXCEPT ![r] = Model \ gaveUp'[r]]
    BY DEF IInv, TypeOK, Left
<1>5. Outcome' = [Outcome EXCEPT ![r] = OutcomeOf(req'[r])]
    BY DEF IInv, TypeOK, Outcome, OutcomeOf
<1> QED BY <1>1, <1>3, <1>4, <1>5 DEF IInv

\* What PoolPromise sees of a request.
LEMMA Seen ==
    ASSUME NEW r \in Request
    PROVE  Left[r] = Model \ gaveUp[r] /\ Outcome[r] = OutcomeOf(req[r])
BY DEF Left, Outcome

LEMMA Outcomes ==
    ASSUME NEW s \in ReqState
    PROVE  /\ s.pc = "idle" => OutcomeOf(s) = "none"
           /\ s.pc = "ask" => OutcomeOf(s) = "waiting"
           /\ s.pc = "done" => OutcomeOf(s) = s.result
BY DEF OutcomeOf, ReqState

-----------------------------------------------------------------------------
\* A request at a model: where it is, and the four ways it can go on.
LEMMA AtModel ==
    ASSUME IInv, NEW r \in Request, req[r].pc = "ask"
    PROVE  /\ CurrentModel(r) \in Left[r] /\ Outcome[r] = "waiting"
           /\ gaveUp[r] \in SUBSET Model /\ gaveUp[r] = Tried(req[r].start, req[r].k)
<1>1. req[r].start \in Model /\ req[r].k \in Model /\ req[r] \in ReqState
    BY DEF IInv, TypeOK, ReqState
<1>2. gaveUp[r] = Tried(req[r].start, req[r].k) /\ gaveUp[r] \in SUBSET Model
    BY DEF IInv, TypeOK, Accounted
<1>3. CurrentModel(r) \in Model \ gaveUp[r]
    BY <1>1, <1>2, TriedAndLeft DEF CurrentModel
<1> QED
    BY <1>1, <1>2, <1>3, Seen, Outcomes

\* A request that is settled without giving a model up.
LEMMA SettleStep ==
    ASSUME IInv, NEW r \in Request, req[r].pc = "ask",
           NEW o \in {"answer", "mock", "raised"},
           idx' \in Model, active' \in Model \cup {None},
           req' = [req EXCEPT ![r] = Settled(r, o)], UNCHANGED gaveUp
    PROVE  IInv' /\ \E m \in Model : Pool!Settle(r, m)
<1>1. req'[r] = Settled(r, o) /\ req' = [req EXCEPT ![r] = req'[r]]
    BY DEF IInv, TypeOK
<1>2. req'[r] \in ReqState /\ req'[r].pc = "done" /\ req'[r].result = o
    <2>1. req[r] \in ReqState
        BY DEF IInv, TypeOK
    <2>2. Settled(r, o) \in ReqState /\ Settled(r, o).pc = "done" /\ Settled(r, o).result = o
        BY <2>1 DEF Settled, ReqState
    <2> QED BY <1>1, <2>2
<1>3. gaveUp' = [gaveUp EXCEPT ![r] = gaveUp'[r]] /\ gaveUp'[r] \in SUBSET Model
    BY DEF IInv, TypeOK
<1>4. IInv' /\ Outcome' = [Outcome EXCEPT ![r] = o]
    <2>1. Accounted(req'[r], gaveUp'[r]) /\ OutcomeOf(req'[r]) = o
        BY <1>2, Outcomes DEF Accounted
    <2> QED BY <1>1, <1>2, <1>3, <2>1, RequestStep
<1>5. Left' = Left
    BY DEF Left
<1>6. PICK m \in Model : m = CurrentModel(r)
    BY AtModel DEF Left
<1>7. Pool!Settle(r, m)
    BY <1>4, <1>5, <1>6, AtModel DEF Pool!Settle, Left, Outcome, OutcomeOf
<1> QED
    BY <1>4, <1>7

\* A request that gives its model up, for the next one or as the last one.
LEMMA LeavesStep ==
    ASSUME IInv, NEW r \in Request, req[r].pc = "ask",
           NEW e \in {"quota", "busy", "transient", "refused"},
           idx' \in Model, UNCHANGED active, Leaves(r, e)
    PROVE  IInv' /\ \E m \in Model : Pool!GiveUp(r, m) \/ Pool!AllFailed(r, m)
<1>0. PICK m \in Model : m = CurrentModel(r)
    BY AtModel DEF Left
<1> DEFINE g == gaveUp[r] \cup {m}
           s == NextModel(r, e)
<1>1. /\ req[r] \in ReqState /\ req[r].start \in Model /\ req[r].k \in Model
      /\ active' \in Model \cup {None}
    BY DEF IInv, TypeOK, ReqState
<1>2. g = Tried(req[r].start, req[r].k + 1) /\ g \in SUBSET Model
    BY <1>0, <1>1, AtModel, TriedAndLeft DEF CurrentModel
<1>3. Left[r] \ {m} = Model \ g
    BY Seen
<1>6. /\ req'[r] = s /\ gaveUp'[r] = g
      /\ req' = [req EXCEPT ![r] = req'[r]] /\ gaveUp' = [gaveUp EXCEPT ![r] = gaveUp'[r]]
    BY <1>0 DEF Leaves, IInv, TypeOK
<1>4. CASE req[r].k + 1 < N
    <2>1. s = [req[r] EXCEPT !.k = req[r].k + 1, !.attempt = 0]
        BY <1>4 DEF NextModel
    <2> HIDE DEF s
    <2>2. /\ s \in ReqState /\ s.pc = "ask" /\ s.start = req[r].start /\ s.k = req[r].k + 1
        <3>1. req[r].k + 1 \in Model /\ 0 \in 0 .. MaxRetries
            BY <1>1, <1>4, PoolAssumption DEF Model
        <3> QED BY <2>1, <3>1, <1>1 DEF ReqState
    <2>3. Accounted(s, g) /\ OutcomeOf(s) = "waiting"
        BY <2>2, <1>2, Outcomes DEF Accounted
    <2>4. /\ IInv' /\ Left' = [Left EXCEPT ![r] = Model \ g]
          /\ Outcome' = [Outcome EXCEPT ![r] = "waiting"]
        BY <1>1, <1>2, <1>6, <2>2, <2>3, RequestStep
    <2>5. Left[r] # {m}
        BY <1>0, <1>1, <1>4, AtModel, TriedAndLeft, Seen DEF CurrentModel
    <2>6. Outcome' = Outcome
        BY <2>4, AtModel DEF Outcome
    <2>7. Pool!GiveUp(r, m)
        BY <1>0, <2>4, <2>5, <2>6, <1>3, AtModel DEF Pool!GiveUp, Left, Outcome, OutcomeOf
    <2> QED BY <2>4, <2>7
<1>5. CASE ~(req[r].k + 1 < N)
    <2>1. s = Settled(r, DegradeOrRaise(e)) /\ DegradeOrRaise(e) \in {"mock", "raised"}
        BY <1>5 DEF NextModel, DegradeOrRaise
    <2> HIDE DEF s
    <2>2. s \in ReqState /\ s.pc = "done" /\ s.result = DegradeOrRaise(e)
        BY <2>1, <1>1 DEF Settled, ReqState
    <2>3. Accounted(s, g) /\ OutcomeOf(s) = DegradeOrRaise(e)
        BY <2>1, <2>2, Outcomes DEF Accounted
    <2>4. /\ IInv' /\ Left' = [Left EXCEPT ![r] = Model \ g]
          /\ Outcome' = [Outcome EXCEPT ![r] = DegradeOrRaise(e)]
        BY <1>1, <1>2, <1>6, <2>2, <2>3, RequestStep
    <2>5. Left[r] = {m}
        <3>1. req[r].k + 1 >= N
            BY <1>1, <1>5, PoolAssumption DEF Model
        <3> QED BY <1>0, <1>1, <3>1, AtModel, TriedAndLeft, Seen DEF CurrentModel
    <2>6. Left' = [Left EXCEPT ![r] = {}]
        BY <2>4, <2>5, <1>3
    <2>7. Pool!AllFailed(r, m)
        BY <1>0, <2>1, <2>4, <2>5, <2>6, AtModel DEF Pool!AllFailed, Left, Outcome, OutcomeOf
    <2> QED BY <2>4, <2>7
<1> QED
    BY <1>4, <1>5

LEMMA PostStep ==
    ASSUME IInv, NEW r \in Request, NEW json \in BOOLEAN, NEW fresh \in BOOLEAN, Post(r, json, fresh)
    PROVE  IInv' /\ Pool!Post(r)
<1> DEFINE i == StartIndex(fresh)
           s == [Idle EXCEPT !.pc = "ask", !.json = json, !.start = i]
<1>1. i \in Model
    BY PoolAssumption DEF StartIndex, ActiveIndex, IInv, TypeOK, Model
<1>2. s \in ReqState /\ s.pc = "ask" /\ s.start = i /\ s.k = 0
    <2>1. 0 \in Model /\ 0 \in 0 .. MaxRetries
        BY PoolAssumption DEF Model
    <2> QED BY <1>1, <2>1 DEF Idle, ReqState
<1>3. gaveUp'[r] = {} /\ gaveUp' = [gaveUp EXCEPT ![r] = gaveUp'[r]] /\ req[r] \in ReqState
    BY DEF Post, IInv, TypeOK, Accounted
<1>4. Accounted(s, {}) /\ OutcomeOf(s) = "waiting"
    BY <1>1, <1>2, NothingTried, Outcomes DEF Accounted
<1>5. /\ IInv' /\ Left' = [Left EXCEPT ![r] = Model]
      /\ Outcome' = [Outcome EXCEPT ![r] = "waiting"]
    <2>1. /\ idx' \in Model /\ active' \in Model \cup {None}
          /\ req'[r] = s /\ req' = [req EXCEPT ![r] = req'[r]]
        BY <1>1 DEF Post, IInv, TypeOK
    <2>2. Model \ {} = Model /\ {} \in SUBSET Model
        OBVIOUS
    <2> HIDE DEF s
    <2> QED BY <1>2, <1>3, <1>4, <2>1, <2>2, RequestStep
<1>6. Outcome[r] = "none"
    BY <1>3, Seen, Outcomes DEF Post
<1> QED
    BY <1>5, <1>6 DEF Pool!Post, Left, Outcome, OutcomeOf

LEMMA UnparsableStep ==
    ASSUME IInv, NEW r \in Request, Unparsable(r)
    PROVE  IInv' /\ ((\E m \in Model : Pool!Settle(r, m)) \/ Pool!PostAgain(r))
<1>1. /\ req[r].pc = "ask" /\ idx' \in Model /\ idx \in Model /\ idx' = idx
      /\ active' \in Model \cup {None}
    BY AtModel DEF Unparsable, IInv, TypeOK, Left
<1>2. CASE req[r].again
    BY <1>1, <1>2, SettleStep DEF Unparsable
<1>3. CASE ~req[r].again
    <2> DEFINE s == [Idle EXCEPT !.pc = "ask", !.json = TRUE, !.start = idx, !.again = TRUE]
    <2>1. s \in ReqState /\ s.pc = "ask" /\ s.start = idx /\ s.k = 0
        <3>1. 0 \in Model /\ 0 \in 0 .. MaxRetries
            BY PoolAssumption DEF Model
        <3> QED BY <1>1, <3>1 DEF Idle, ReqState
    <2>2. Accounted(s, {}) /\ OutcomeOf(s) = "waiting"
        BY <1>1, <2>1, NothingTried, Outcomes DEF Accounted
    <2>3. /\ req'[r] = s /\ req' = [req EXCEPT ![r] = req'[r]]
          /\ gaveUp'[r] = {} /\ gaveUp' = [gaveUp EXCEPT ![r] = gaveUp'[r]]
        BY <1>3 DEF Unparsable, IInv, TypeOK
    <2> HIDE DEF s
    <2>4. Model \ {} = Model /\ {} \in SUBSET Model
        OBVIOUS
    <2>5. /\ IInv' /\ Left' = [Left EXCEPT ![r] = Model]
          /\ Outcome' = [Outcome EXCEPT ![r] = "waiting"]
        BY <1>1, <2>1, <2>2, <2>3, <2>4, RequestStep
    <2>6. Outcome' = Outcome
        BY <1>1, <2>5, AtModel DEF Outcome
    <2>7. Pool!PostAgain(r)
        BY <1>1, <2>5, <2>6, AtModel DEF Pool!PostAgain, Left, Outcome, OutcomeOf
    <2> QED BY <2>5, <2>7
<1> QED
    BY <1>2, <1>3

\* A timeout short of the last one is no step of PoolPromise.
LEMMA TransientStep ==
    ASSUME IInv, NEW r \in Request, Transient(r)
    PROVE  IInv' /\ (\/ \E m \in Model : Pool!GiveUp(r, m) \/ Pool!AllFailed(r, m)
                \/ UNCHANGED <<Left, Outcome>>)
<1>1. req[r].pc = "ask" /\ idx' \in Model /\ active' = active /\ active' \in Model \cup {None}
    BY DEF Transient, IInv, TypeOK
<1>2. CASE req[r].attempt < MaxRetries
    <2> DEFINE s == [req[r] EXCEPT !.attempt = req[r].attempt + 1]
    <2>1. req[r] \in ReqState
        BY DEF IInv, TypeOK
    <2>2. /\ s \in ReqState /\ s.pc = "ask" /\ s.start = req[r].start /\ s.k = req[r].k
        BY <1>1, <1>2, <2>1, PoolAssumption DEF ReqState
    <2>3. Accounted(s, gaveUp[r]) /\ OutcomeOf(s) = "waiting"
        BY <1>1, <2>2, AtModel, Outcomes DEF Accounted
    <2>4. /\ req'[r] = s /\ req' = [req EXCEPT ![r] = req'[r]]
          /\ gaveUp'[r] = gaveUp[r] /\ gaveUp' = [gaveUp EXCEPT ![r] = gaveUp'[r]]
        BY <1>2 DEF Transient, IInv, TypeOK
    <2> HIDE DEF s
    <2>5. /\ IInv' /\ Left' = [Left EXCEPT ![r] = Model \ gaveUp[r]]
          /\ Outcome' = [Outcome EXCEPT ![r] = "waiting"]
        BY <1>1, <2>2, <2>3, <2>4, AtModel, RequestStep
    <2>6. Left' = Left /\ Outcome' = Outcome
        <3>1. Left[r] = Model \ gaveUp[r] /\ Outcome[r] = "waiting"
            BY <1>1, AtModel, Seen
        <3>2. Left = [Left EXCEPT ![r] = Left[r]] /\ Outcome = [Outcome EXCEPT ![r] = Outcome[r]]
            BY DEF Left, Outcome
        <3> QED BY <2>5, <3>1, <3>2
    <2> QED BY <2>5, <2>6
<1>3. CASE ~(req[r].attempt < MaxRetries)
    BY <1>1, <1>3, LeavesStep DEF Transient
<1> QED
    BY <1>2, <1>3

LEMMA RefusedStep ==
    ASSUME IInv, NEW r \in Request, Refused(r)
    PROVE  IInv' /\ \E m \in Model : Pool!GiveUp(r, m) \/ Pool!AllFailed(r, m) \/ Pool!Settle(r, m)
<1>1. req[r].pc = "ask" /\ idx' \in Model /\ active' = active /\ active' \in Model \cup {None}
    BY DEF Refused, IInv, TypeOK
<1>2. CASE req[r].attempt < MaxRetries
    <2>1. DegradeOrRaise("refused") \in {"answer", "mock", "raised"}
        BY DEF DegradeOrRaise
    <2> QED BY <1>1, <1>2, <2>1, SettleStep DEF Refused
<1>3. CASE ~(req[r].attempt < MaxRetries)
    BY <1>1, <1>3, LeavesStep DEF Refused
<1> QED
    BY <1>2, <1>3

LEMMA QuotaOutStep ==
    ASSUME IInv, NEW r \in Request, NEW e \in {"quota", "busy"}, QuotaOut(r, e)
    PROVE  IInv' /\ \E m \in Model : Pool!GiveUp(r, m) \/ Pool!AllFailed(r, m)
<1>1. idx \in Model /\ req[r].k \in Model
    BY DEF IInv, TypeOK, ReqState
<1>2. idx' \in Model
    BY <1>1, PoolAssumption DEF QuotaOut, Order, Model
<1> QED
    BY <1>2, LeavesStep DEF QuotaOut

LEMMA AnswerStep ==
    ASSUME IInv, NEW r \in Request, Answer(r)
    PROVE  IInv' /\ \E m \in Model : Pool!Settle(r, m)
<1>1. req[r].pc = "ask" /\ idx' \in Model /\ active' \in Model \cup {None}
    BY AtModel DEF Answer, IInv, TypeOK, Left
<1> QED
    BY <1>1, SettleStep DEF Answer

LEMMA TakeStep ==
    ASSUME IInv, NEW r \in Request, Take(r)
    PROVE  IInv' /\ Pool!Take(r)
<1>1. Idle \in ReqState /\ Idle.pc = "idle"
    BY PoolAssumption DEF Idle, ReqState, Model
<1>2. Accounted(Idle, {}) /\ OutcomeOf(Idle) = "none"
    BY <1>1, Outcomes DEF Accounted
<1>3. Model \ {} = Model /\ {} \in SUBSET Model
    OBVIOUS
<1>4. /\ IInv' /\ Left' = [Left EXCEPT ![r] = Model]
      /\ Outcome' = [Outcome EXCEPT ![r] = "none"]
    <2>1. /\ req'[r] = Idle /\ req' = [req EXCEPT ![r] = req'[r]]
          /\ gaveUp'[r] = {} /\ gaveUp' = [gaveUp EXCEPT ![r] = gaveUp'[r]]
          /\ idx' \in Model /\ active' \in Model \cup {None}
        BY DEF Take, IInv, TypeOK
    <2> QED BY <1>1, <1>2, <1>3, <2>1, RequestStep
<1>5. Outcome[r] \in {"answer", "mock", "raised"}
    <2>1. req[r] \in ReqState /\ req[r].pc = "done" /\ req[r].result # "none"
        BY DEF Take, IInv, TypeOK, Accounted
    <2>2. req[r].result \in {"answer", "mock", "raised"}
        BY <2>1 DEF ReqState
    <2> QED BY <2>1, <2>2, Seen, Outcomes
<1> QED
    BY <1>4, <1>5 DEF Pool!Take, Left, Outcome, OutcomeOf

-----------------------------------------------------------------------------
LEMMA InitIInv == Init => IInv /\ Pool!Init
<1> SUFFICES ASSUME Init PROVE IInv /\ Pool!Init
    OBVIOUS
<1>1. Idle \in ReqState /\ Idle.pc = "idle"
    BY PoolAssumption DEF Idle, ReqState, Model
<1>2. IInv
    BY <1>1, PoolAssumption DEF Init, IInv, TypeOK, Accounted, Model
<1>3. Pool!Init
    <2>1. \A r \in Request : gaveUp[r] = {} /\ req[r].pc = "idle"
        BY <1>1 DEF Init
    <2> QED BY <2>1 DEF Pool!Init
<1> QED
    BY <1>2, <1>3

\* Every step keeps the invariant and is a step or a stutter of PoolPromise.
LEMMA NextStep == IInv /\ [Next]_vars => IInv' /\ [Pool!Next]_(Pool!vars)
<1> SUFFICES ASSUME IInv, [Next]_vars PROVE IInv' /\ [Pool!Next]_(Pool!vars)
    OBVIOUS
<1>1. ASSUME NEW r \in Request, NEW json \in BOOLEAN, NEW fresh \in BOOLEAN, Post(r, json, fresh)
      PROVE  IInv' /\ Pool!Next
    BY <1>1, PostStep DEF Pool!Next
<1>2. ASSUME NEW r \in Request, Responds(r)
      PROVE  IInv' /\ [Pool!Next]_(Pool!vars)
    <2>1. CASE Answer(r)
        BY <2>1, AnswerStep DEF Pool!Next
    <2>2. CASE Unparsable(r)
        BY <2>2, UnparsableStep DEF Pool!Next
    <2>3. CASE Transient(r)
        <3>1. UNCHANGED <<Left, Outcome>> => UNCHANGED Pool!vars
            BY DEF Pool!vars, Left, Outcome, OutcomeOf
        <3> QED BY <2>3, <3>1, TransientStep DEF Pool!Next
    <2>4. CASE Refused(r)
        BY <2>4, RefusedStep DEF Pool!Next
    <2>5. ASSUME NEW e \in {"quota", "busy"}, QuotaOut(r, e)
          PROVE  IInv' /\ Pool!Next
        BY <2>5, QuotaOutStep DEF Pool!Next
    <2> QED BY <1>2, <2>1, <2>2, <2>3, <2>4, <2>5 DEF Responds
<1>3. ASSUME NEW r \in Request, Take(r)
      PROVE  IInv' /\ Pool!Next
    BY <1>3, TakeStep DEF Pool!Next
<1>4. CASE UNCHANGED vars
    BY <1>4 DEF vars, IInv, TypeOK, Accounted, Pool!vars
<1> QED
    BY <1>1, <1>2, <1>3, <1>4 DEF Next

\* Every reachable state of pool, requests and models given up is well typed.
THEOREM TypeCorrect == Spec => []TypeOK
<1>1. IInv => TypeOK
    BY DEF IInv
<1> QED
    BY <1>1, InitIInv, NextStep, PTL DEF Spec

\* For any number of requests, models and retries: a request calls each model of
\* the pool at most once before it gives it up, and fails only after all of them,
\* however the others move the pointer (_post_chat).
THEOREM PoolPromiseIsKept == Spec => KeepsThePromise
BY InitIInv, NextStep, PTL DEF Spec, KeepsThePromise, Pool!Spec

\* A request does not come back to a model that failed it.
THEOREM NobodyIsAskedAgain == Spec => []NeverAskedAgain
<1>1. IInv => NeverAskedAgain
    BY AtModel DEF NeverAskedAgain, Left
<1> QED
    BY <1>1, InitIInv, NextStep, PTL DEF Spec

-----------------------------------------------------------------------------
(***************************************************************************)
(* CircuitBreaker                                                          *)
(***************************************************************************)
\* A thread is in a process.
LEMMA AtHome == BreakerTypeOK => \A t \in Thread : home[t] \in Instance
BY DeploymentAssumption DEF BreakerTypeOK

BreakerInv == BreakerTypeOK /\ OpenIsStamped

\* The steps of a thread keep the types.
LEMMA BreakerTypes ==
    ASSUME BreakerTypeOK, [BreakerNext]_breakerVars
    PROVE  BreakerTypeOK'
<1>0. \A t \in Thread : home[t] \in Instance
    BY AtHome
<1>1. ASSUME NEW t \in Thread, Begin(t) \/ Proceed(t) PROVE BreakerTypeOK'
    <2>1. ASSUME NEW p \in Phase, Goto(t, p) PROVE pc' \in [Thread -> Phase]
        BY <2>1 DEF Goto, BreakerTypeOK
    <2>2. CASE Begin(t) \/ Cooling(t) \/ HalfOpen(t) \/ CacheHit(t) \/ Leave(t) \/ Answered(t)
        BY <1>0, <2>2 DEF Begin, Cooling, HalfOpen, CacheHit, Leave, Answered,
                          Goto, breaker, BreakerTypeOK, Phase
    <2>3. CASE CacheAnswer(t) \/ ProbeFailed(t)
        BY <1>0, <2>3 DEF CacheAnswer, ProbeFailed, Goto, Drop, breaker, BreakerTypeOK, Phase
    <2>8. CASE AskRedis(t)
        <3>1. PICK answer \in {key, FALSE} : held' = [held EXCEPT ![t] = answer]
            BY <2>8 DEF AskRedis
        <3>2. held' \in [Thread -> BOOLEAN]
            BY <3>1 DEF BreakerTypeOK
        <3> QED BY <2>8, <3>2 DEF AskRedis, Goto, breaker, BreakerTypeOK, Phase
    <2>4. CASE OnSuccess(t) \/ Close(t) \/ ClearFailures(t) \/ Open(t)
        BY <1>0, <2>4, ThresholdAssumption DEF OnSuccess, Close, ClearFailures, Open, Goto, breaker, BreakerTypeOK, Phase
    <2>5. CASE Unshare(t) \/ ShareOpen(t)
        BY <1>0, <2>5 DEF Unshare, ShareOpen, Share, Goto, breaker, BreakerTypeOK, Phase
    <2>6. CASE CountFailure(t)
        BY <1>0, <2>6, ThresholdAssumption DEF CountFailure, Least, Goto, BreakerTypeOK, Phase
    <2>7. CASE Stamp(t)
        BY <1>0, <2>7, ThresholdAssumption DEF Stamp, Goto, Drop, BreakerTypeOK, Phase
    <2> QED BY <1>1, <2>2, <2>3, <2>4, <2>5, <2>6, <2>7, <2>8 DEF Proceed
<1>2. CASE Time
    BY <1>2 DEF Time, KeyExpires, CooldownEnds, CacheAges, breaker, BreakerTypeOK
<1>3. CASE HealthChanges
    BY <1>3 DEF HealthChanges, breaker, BreakerTypeOK
<1>4. CASE UNCHANGED breakerVars
    BY <1>4 DEF breakerVars, BreakerTypeOK
<1> QED BY <1>1, <1>2, <1>3, <1>4 DEF BreakerNext

\* A step that leaves state and timestamp alone and takes no thread off its way
\* to the stamp.
LEMMA StampStays ==
    ASSUME OpenIsStamped, UNCHANGED <<st, openedAt, home>>,
           \A t \in Thread : pc[t] \in {"sharing", "stamping"} => pc'[t] \in {"sharing", "stamping"}
    PROVE  OpenIsStamped'
BY DEF OpenIsStamped

\* Every step keeps the debt of a stamp.
LEMMA StampStep ==
    ASSUME BreakerInv, [BreakerNext]_breakerVars
    PROVE  OpenIsStamped'
<1>0. /\ BreakerTypeOK /\ OpenIsStamped /\ \A t \in Thread : home[t] \in Instance
    BY AtHome DEF BreakerInv
<1>1. ASSUME NEW t \in Thread, Begin(t) \/ Proceed(t) PROVE OpenIsStamped'
    <2>1. ASSUME NEW p, Goto(t, p), pc[t] \notin {"sharing", "stamping"},
                 UNCHANGED <<st, openedAt, home>>
          PROVE  OpenIsStamped'
        BY <1>0, <2>1, StampStays DEF Goto, BreakerTypeOK
    <2>2. CASE Begin(t) \/ Cooling(t) \/ CacheHit(t) \/ AskRedis(t) \/ CacheAnswer(t) \/ Leave(t)
        BY <2>1, <2>2 DEF Begin, Cooling, CacheHit, AskRedis, CacheAnswer, Leave, breaker
    <2>3. CASE Answered(t) \/ OnSuccess(t) \/ Unshare(t) \/ ClearFailures(t) \/ ProbeFailed(t)
               \/ CountFailure(t)
        BY <2>1, <2>3 DEF Answered, OnSuccess, Unshare, ClearFailures, ProbeFailed, CountFailure, breaker
    <2>4. CASE HalfOpen(t) \/ Close(t)
        BY <1>0, <2>4 DEF HalfOpen, Close, Goto, BreakerTypeOK, OpenIsStamped
    <2>5. CASE Open(t)
        BY <1>0, <2>5 DEF Open, Goto, BreakerTypeOK, OpenIsStamped
    <2>6. CASE ShareOpen(t)
        <3>1. \A u \in Thread : pc[u] \in {"sharing", "stamping"} => pc'[u] \in {"sharing", "stamping"}
            BY <1>0, <2>6 DEF ShareOpen, Goto, BreakerTypeOK
        <3> QED BY <1>0, <2>6, <3>1, StampStays DEF ShareOpen, breaker
    <2>7. CASE Stamp(t)
        BY <1>0, <2>7 DEF Stamp, Goto, BreakerTypeOK, OpenIsStamped
    <2> QED BY <1>1, <2>2, <2>3, <2>4, <2>5, <2>6, <2>7 DEF Proceed
<1>2. ASSUME NEW i \in Instance, CooldownEnds(i) PROVE OpenIsStamped'
    BY <1>0, <1>2 DEF CooldownEnds, BreakerTypeOK, OpenIsStamped
<1>3. CASE KeyExpires \/ HealthChanges \/ \E i \in Instance : CacheAges(i)
    BY <1>0, <1>3 DEF KeyExpires, HealthChanges, CacheAges, breaker, OpenIsStamped
<1>4. CASE UNCHANGED breakerVars
    BY <1>0, <1>4 DEF breakerVars, OpenIsStamped
<1> QED BY <1>1, <1>2, <1>3, <1>4 DEF BreakerNext, Time

\* Every reachable state of breakers, threads and the shared key is well typed.
THEOREM BreakerTypeCorrect == BreakerSpec => []BreakerTypeOK
<1>1. ASSUME BreakerInit PROVE BreakerTypeOK
    <2>1. fails \in [Instance -> 0 .. Threshold] /\ pc \in [Thread -> Phase]
        BY <1>1, ThresholdAssumption DEF BreakerInit, Phase
    <2>2. /\ st \in [Instance -> {"CLOSED", "OPEN", "HALF_OPEN"}]
          /\ openedAt \in [Instance -> {"none", "fresh", "old"}]
          /\ cache \in [Instance -> {"none", "open", "shut"}]
        BY <1>1 DEF BreakerInit
    <2>3. key \in BOOLEAN /\ failing \in BOOLEAN /\ held \in [Thread -> BOOLEAN] /\ home \in Deployment
        BY <1>1 DEF BreakerInit
    <2> QED BY <2>1, <2>2, <2>3 DEF BreakerTypeOK
<1> QED BY <1>1, BreakerTypes, PTL DEF BreakerSpec

\* However the threads that share a breaker object are interleaved, an OPEN one
\* is stamped or about to be.
THEOREM StampIsNotLost == BreakerSpec => []OpenIsStamped
<1>1. BreakerInit => OpenIsStamped
    BY DEF BreakerInit, OpenIsStamped
<1>2. BreakerTypeOK /\ OpenIsStamped /\ [BreakerNext]_breakerVars => OpenIsStamped'
    BY StampStep DEF BreakerInv
<1> QED BY <1>1, <1>2, BreakerTypeCorrect, PTL DEF BreakerSpec
=============================================================================
