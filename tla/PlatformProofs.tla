--------------------------- MODULE PlatformProofs ---------------------------
(***************************************************************************)
(* Proofs about the parts of Platform for any number of users, requests,   *)
(* keys, reports and turns.  The parts share no variable, so a step of the *)
(* platform is a step of one part and a stutter of every other: each part  *)
(* has its own inductive invariant, shown to hold at the start and to be   *)
(* kept by a step of its own part, and Apart does the rest.                *)
(***************************************************************************)
EXTENDS Platform, FiniteSetTheorems, TLAPS

\* A step of the platform is a step of a part, or the part stutters.
LEMMA Apart ==
    ASSUME [Next]_vars
    PROVE  /\ TurnNext \/ UNCHANGED <<budget, tool, turns>>
           /\ BriefNext \/ UNCHANGED briefs
           /\ EvalNext \/ UNCHANGED evals
           /\ IdemNext \/ UNCHANGED idem
           /\ MigrationNext \/ UNCHANGED migration
           /\ RetrievalNext \/ UNCHANGED retrieval
           /\ FeedbackNext \/ UNCHANGED feedback
           /\ TokensNext \/ UNCHANGED tokens
           /\ KeysNext \/ UNCHANGED keys
           /\ ReportsNext \/ UNCHANGED reports
           /\ RoutingNext \/ UNCHANGED routing
           /\ LinkingNext \/ UNCHANGED linked
           /\ DataNext \/ UNCHANGED data
BY DEF Next, vars, TurnMoves, BriefMoves, EvalMoves, IdemMoves, MigrationMoves, RetrievalMoves,
       FeedbackMoves, TokensMoves, KeysMoves, ReportsMoves, RoutingMoves, LinkingMoves, DataMoves

-----------------------------------------------------------------------------
(***************************************************************************)
(* OpsTurn, ReadTool, CostBudget                                           *)
(***************************************************************************)
\* What a read must not answer, and when its instance still has a copy.
NotLost(r) == r.owed => r.answer # "unavailable"

\* A copy is kept with every answer, and until the instance restarts.
ServedInv ==
    /\ read \in [Reader -> ReadState] /\ turn \in [Reader -> TurnState]
    /\ snapshot \in [Process -> BOOLEAN] /\ served \in [Process -> BOOLEAN]
    /\ \A i \in Process : served[i] => snapshot[i]
    /\ \A t \in Reader :
         /\ NotLost(read[t])
         /\ turn[t].pc # "rest" => turn[t].at \in Process
         /\ turn[t].pc = "read" /\ read[t].owed => snapshot[turn[t].at]

\* A step of one reader that keeps NotLost and finds the copy where it was.
LEMMA ReadGoes ==
    ASSUME ServedInv, NEW t \in Reader, NEW new \in ReadState, NotLost(new), new.owed = read[t].owed,
           read' = [read EXCEPT ![t] = new], UNCHANGED <<turn, snapshot, served>>
    PROVE  ServedInv'
BY DEF ServedInv, NotLost

\* A source is left, without an answer or with one.
LEMMA SourceLeft ==
    ASSUME ServedInv, NEW t \in Reader, UNCHANGED <<turn, snapshot, served>>
    PROVE  /\ \A answer \in Answer :
                Ends(t, answer) /\ (answer = "unavailable" => ~read[t].owed) => ServedInv'
           /\ \A next \in Source :
                Again(t, next) /\ (next = "none" => ~read[t].owed) => ServedInv'
<1> USE ReadAssumption
<1> DEFINE s == read[t]
<1>1. s \in ReadState /\ s.attempt \in 0 .. MaxRetries /\ NotLost(s)
    BY DEF ServedInv, ReadState
<1>2. ASSUME NEW answer \in Answer, Ends(t, answer), answer = "unavailable" => ~s.owed
      PROVE  ServedInv'
    <2> DEFINE new == [s EXCEPT !.source = "none", !.answer = answer]
    <2>1. new \in ReadState /\ new.owed = s.owed /\ NotLost(new)
        BY <1>1, <1>2 DEF ReadState, Source, NotLost
    <2>2. read' = [read EXCEPT ![t] = new]
        BY <1>2 DEF Ends
    <2> HIDE DEF new
    <2> QED BY <2>1, <2>2, ReadGoes
<1>3. ASSUME NEW next \in Source, Again(t, next), next = "none" => ~s.owed PROVE ServedInv'
    <2>1. CASE read' = [read EXCEPT ![t].attempt = @ + 1] /\ s.attempt < MaxRetries
        <3> DEFINE new == [s EXCEPT !.attempt = @ + 1]
        <3>1. new \in ReadState /\ new.owed = s.owed /\ NotLost(new)
            BY <1>1, <2>1 DEF ReadState, NotLost
        <3>2. read' = [read EXCEPT ![t] = new]
            BY <2>1
        <3> HIDE DEF new
        <3> QED BY <3>1, <3>2, ReadGoes
    <2>2. CASE read' = [read EXCEPT ![t].source = next, ![t].attempt = 0]
        <3> DEFINE new == [s EXCEPT !.source = next, !.attempt = 0]
        <3>1. 0 \in 0 .. MaxRetries
            OBVIOUS
        <3>2. new \in ReadState /\ new.owed = s.owed /\ NotLost(new)
            BY <1>1, <3>1 DEF ReadState, NotLost
        <3>3. read' = [read EXCEPT ![t] = new]
            BY <2>2
        <3> HIDE DEF new
        <3> QED BY <3>2, <3>3, ReadGoes
    <2>3. CASE Ends(t, "unavailable") /\ next = "none"
        BY <1>2, <1>3, <2>3 DEF Answer
    <2> QED BY <1>3, <2>1, <2>2, <2>3 DEF Again
<1> QED BY <1>2, <1>3

\* An answer of the API or of the cache is told and kept.
LEMMA AnswerKept ==
    ASSUME ServedInv, NEW t \in Reader, NEW i \in Process, NEW new \in ReadState,
           new.answer = "live", read' = [read EXCEPT ![t] = new], Keeps(i),
           \/ UNCHANGED turn /\ turn[t].at = i
           \/ turn' = [turn EXCEPT ![t].pc = "read"] /\ turn[t].at = i
    PROVE  ServedInv'
<1>1. snapshot' \in [Process -> BOOLEAN] /\ served' \in [Process -> BOOLEAN] /\ snapshot'[i]
      /\ \A j \in Process : (served[j] => snapshot[j]) /\ (snapshot[j] => snapshot'[j])
                            /\ (served'[j] => snapshot'[j])
    BY DEF ServedInv, Keeps
<1>2. turn' \in [Reader -> TurnState] /\ turn'[t].at = i /\ \A s \in Reader : s # t => turn'[s] = turn[s]
    BY DEF ServedInv, TurnState
<1>3. read' \in [Reader -> ReadState] /\ NotLost(read'[t]) /\ \A s \in Reader : s # t => read'[s] = read[s]
    BY DEF ServedInv, NotLost
<1> QED BY <1>1, <1>2, <1>3 DEF ServedInv, NotLost

\* Every step of a call to the tool keeps it.
LEMMA ToolServes ==
    ASSUME ServedInv, NEW t \in Reader, ToolSteps(t)
    PROVE  ServedInv'
<1> USE ReadAssumption
<1> DEFINE s == read[t]
<1>1. /\ turn[t].pc = "read" /\ s \in ReadState /\ NotLost(s) /\ 0 \in 0 .. MaxRetries
      /\ s.attempt \in 0 .. MaxRetries /\ UNCHANGED turn
      /\ turn[t].at \in Process /\ (s.owed => snapshot[turn[t].at])
    BY DEF ServedInv, ReadState, ToolSteps, turns
<1>2. CASE ApiAnswers(t, turn[t].at)
    <2> DEFINE new == [s EXCEPT !.source = "none", !.answer = "live"]
    <2>1. new \in ReadState /\ new.answer = "live"
        BY <1>1 DEF ReadState, Source, Answer
    <2>2. read' = [read EXCEPT ![t] = new]
        BY <1>2 DEF ApiAnswers, Ends
    <2> HIDE DEF new
    <2> QED BY <1>1, <1>2, <2>1, <2>2, AnswerKept DEF ApiAnswers
<1>3. CASE ApiRefuses(t)
    <2> DEFINE answer == IF s.attempt = MaxRetries THEN "failed" ELSE "refused"
               new == [s EXCEPT !.refused = TRUE, !.source = "none", !.answer = answer]
    <2>1. answer \in {"failed", "refused"}
        OBVIOUS
    <2>2. read' = [read EXCEPT ![t] = new]
        BY <1>3 DEF ApiRefuses
    <2> HIDE DEF answer
    <2>3. new \in ReadState /\ new.owed = s.owed /\ NotLost(new)
        BY <1>1, <2>1 DEF ReadState, Source, Answer, NotLost
    <2> HIDE DEF new
    <2> QED BY <1>1, <1>3, <2>2, <2>3, ReadGoes DEF ApiRefuses
<1>4. CASE ApiRefusesInDigits(t)
    <2>1. CASE s.attempt < MaxRetries /\ read' = [read EXCEPT ![t].refused = TRUE, ![t].attempt = @ + 1]
        <3> DEFINE next == s.attempt + 1
                   new == [s EXCEPT !.refused = TRUE, !.attempt = next]
        <3>1. next \in 0 .. MaxRetries
            BY <1>1, <2>1
        <3>2. read' = [read EXCEPT ![t] = new]
            BY <2>1
        <3> HIDE DEF next
        <3>3. new \in ReadState /\ new.owed = s.owed /\ NotLost(new)
            BY <1>1, <3>1 DEF ReadState, NotLost
        <3> HIDE DEF new
        <3> QED BY <1>1, <1>4, <3>3, <3>2, ReadGoes DEF ApiRefusesInDigits
    <2>2. CASE read' = [read EXCEPT ![t].refused = TRUE, ![t].source = "snapshot", ![t].attempt = 0]
        <3> DEFINE new == [s EXCEPT !.refused = TRUE, !.source = "snapshot", !.attempt = 0]
        <3>1. new \in ReadState /\ new.owed = s.owed /\ NotLost(new)
            BY <1>1 DEF ReadState, Source, NotLost
        <3>2. read' = [read EXCEPT ![t] = new]
            BY <2>2
        <3> HIDE DEF new
        <3> QED BY <1>1, <1>4, <3>1, <3>2, ReadGoes DEF ApiRefusesInDigits
    <2> QED BY <1>4, <2>1, <2>2 DEF ApiRefusesInDigits
<1>5. CASE BreakerRefuses(t)
    <2> DEFINE new == [s EXCEPT !.source = "snapshot", !.attempt = 0]
    <2>1. new \in ReadState /\ new.owed = s.owed /\ NotLost(new)
        BY <1>1 DEF ReadState, Source, NotLost
    <2>2. read' = [read EXCEPT ![t] = new]
        BY <1>5 DEF BreakerRefuses
    <2> HIDE DEF new
    <2> QED BY <1>1, <1>5, <2>1, <2>2, ReadGoes DEF BreakerRefuses
<1>6. CASE ApiFails(t)
    <2>1. "snapshot" \in Source /\ "snapshot" # "none"
        BY DEF Source
    <2> QED BY <1>1, <1>6, <2>1, SourceLeft DEF ApiFails
<1>7. CASE ReadSnapshot(t, turn[t].at)
    <2>1. "none" \in Source /\ {"old", "failed"} \subseteq Answer
        BY DEF Source, Answer
    <2>2. ~snapshot[turn[t].at] => ~s.owed
        BY <1>1
    <2> QED BY <1>1, <1>7, <2>1, <2>2, SourceLeft DEF ReadSnapshot
<1> QED BY <1>2, <1>3, <1>4, <1>5, <1>6, <1>7 DEF ToolSteps

\* Every step of a turn keeps it.
LEMMA ServedStep ==
    ASSUME ServedInv, TurnNext
    PROVE  ServedInv'
<1> USE ReadAssumption
<1>1. NoRead \in ReadState /\ NotLost(NoRead) /\ ~NoRead.owed /\ NoTurn \in TurnState /\ NoTurn.pc = "rest"
    <2>1. 0 \in 0 .. MaxRetries
        OBVIOUS
    <2> QED BY <2>1 DEF NoRead, ReadState, Source, Answer, NotLost, NoTurn, TurnState
<1>2. ASSUME UNCHANGED tool, NEW t \in Reader, NEW new \in TurnState, turn' = [turn EXCEPT ![t] = new],
             new.pc = "read" => turn[t].pc = "read" /\ new.at = turn[t].at,
             new.pc # "rest" => new.at \in Process
      PROVE  ServedInv'
    BY <1>2 DEF ServedInv, tool, NotLost
<1>3. ASSUME NEW t \in Reader, NEW pc \in {"execute", "respond", "report"}, Goes(t, pc), UNCHANGED tool,
             turn[t].pc # "rest"
      PROVE  ServedInv'
    <2> DEFINE new == [turn[t] EXCEPT !.pc = pc]
    <2>1. new \in TurnState /\ new.pc # "read" /\ new.at \in Process
        BY <1>3 DEF ServedInv, TurnState
    <2>2. turn' = [turn EXCEPT ![t] = new]
        BY <1>3 DEF Goes
    <2> HIDE DEF new
    <2> QED BY <1>2, <1>3, <2>1, <2>2
<1>4. ASSUME NEW t \in Reader, TurnEnds(t), UNCHANGED tool PROVE ServedInv'
    BY <1>1, <1>2, <1>4 DEF TurnEnds
<1>5. ASSUME NEW t \in Reader, IntentAnswered(t) \/ IntentByRule(t) PROVE ServedInv'
    <2>1. CASE Goes(t, "execute") /\ UNCHANGED tool
        BY <1>3, <1>5, <2>1 DEF IntentAnswered, IntentByRule
    <2>2. CASE /\ Goes(t, "respond") /\ UNCHANGED <<snapshot, served>>
               /\ \E s \in Reader : read' = [read EXCEPT ![t] = read[s]]
        <3>1. PICK s \in Reader : read' = [read EXCEPT ![t] = read[s]]
            BY <2>2
        <3>2. /\ turn' \in [Reader -> TurnState] /\ turn'[t].pc = "respond" /\ turn'[t].at \in Process
              /\ \A u \in Reader : u # t => turn'[u] = turn[u]
            BY <1>5, <2>2 DEF Goes, ServedInv, TurnState, IntentAnswered, IntentByRule
        <3> QED BY <2>2, <3>1, <3>2 DEF ServedInv, NotLost
    <2> QED BY <1>5, <2>1, <2>2 DEF IntentAnswered, IntentByRule, Routes
<1>6. ASSUME NEW t \in Reader, Executes(t) PROVE ServedInv'
    <2> DEFINE i == turn[t].at
    <2>1. i \in Process /\ turn' = [turn EXCEPT ![t].pc = "read"] /\ served[i] \in BOOLEAN
        BY <1>6 DEF Executes, Goes, ServedInv
    <2>2. CASE FromCache(t, i)
        <3> DEFINE new == [NoRead EXCEPT !.answer = "live", !.owed = served[i]]
        <3>1. new \in ReadState /\ new.answer = "live"
            BY <1>1, <2>1 DEF ReadState, Answer
        <3>2. read' = [read EXCEPT ![t] = new] /\ Keeps(i)
            BY <2>2 DEF FromCache
        <3> HIDE DEF new
        <3> QED BY <2>1, <3>1, <3>2, AnswerKept
    <2>3. CASE /\ read' = [read EXCEPT ![t] = [NoRead EXCEPT !.source = "api", !.owed = served[i]]]
               /\ UNCHANGED <<snapshot, served>>
        <3> DEFINE new == [NoRead EXCEPT !.source = "api", !.owed = served[i]]
        <3>1. new \in ReadState /\ new.owed = served[i] /\ NotLost(new)
            BY <1>1, <2>1 DEF ReadState, Source, NotLost, NoRead
        <3>2. read' = [read EXCEPT ![t] = new]
            BY <2>3
        <3> HIDE DEF new
        <3>3. /\ read' \in [Reader -> ReadState] /\ read'[t] = new
              /\ \A u \in Reader : u # t => read'[u] = read[u] /\ turn'[u] = turn[u]
            BY <2>1, <3>1, <3>2 DEF ServedInv
        <3>4. turn' \in [Reader -> TurnState] /\ turn'[t].at = i
            BY <2>1 DEF ServedInv, TurnState
        <3>5. NotLost(read'[t]) /\ (read'[t].owed => snapshot[i])
            BY <2>1, <3>1, <3>3 DEF ServedInv
        <3> QED BY <2>1, <2>3, <3>3, <3>4, <3>5 DEF ServedInv
    <2> QED BY <1>6, <2>2, <2>3 DEF Executes, ReadBegins
<1>7. ASSUME NEW t \in Reader, NEW i \in Instance, TurnBegins(t, i) PROVE ServedInv'
    <2> DEFINE new == [pc |-> IF OverBudget(i) THEN "rules" ELSE "intent", at |-> i]
    <2>1. new \in TurnState /\ new.pc # "read" /\ new.at \in Process
        BY TurnAssumption DEF TurnState
    <2>2. turn' = [turn EXCEPT ![t] = new] /\ UNCHANGED tool
        BY <1>7 DEF TurnBegins
    <2> HIDE DEF new
    <2> QED BY <1>2, <2>1, <2>2
<1>8. ASSUME NEW i \in Instance, Restarts(i) PROVE ServedInv'
    <2>1. /\ turn' \in [Reader -> TurnState] /\ read' \in [Reader -> ReadState]
          /\ \A t \in Reader : \/ turn'[t] = NoTurn /\ read'[t] = NoRead
                               \/ turn'[t] = turn[t] /\ read'[t] = read[t] /\ turn[t].at # i
        BY <1>1, <1>8 DEF Restarts, ServedInv
    <2>2. /\ snapshot' \in [Process -> BOOLEAN] /\ served' \in [Process -> BOOLEAN]
          /\ \A j \in Process : served'[j] => snapshot'[j]
          /\ \A j \in Process : j # i => snapshot'[j] = snapshot[j]
        BY <1>8 DEF Restarts, ServedInv
    <2> QED BY <1>1, <2>1, <2>2 DEF ServedInv, NotLost
<1>9. CASE UNCHANGED <<read, turn, snapshot, served>>
    BY <1>9 DEF ServedInv
<1>10. ASSUME NEW t \in Reader, Executed(t) \/ Responds(t) \/ ReportAnswered(t) \/ ReportFails(t)
       PROVE  ServedInv'
    BY <1>3, <1>4, <1>10 DEF Executed, Responds, ReportAnswered, ReportFails
<1> QED
    BY <1>5, <1>6, <1>7, <1>8, <1>9, <1>10, ToolServes DEF TurnNext, RedisGoes, RedisReturns,
        CacheExpires, tool, turns

\* However the sources of a read fail, an instance that gave an answer once
\* still has one.
THEOREM ServiceStays == Spec => []OnceServedAlwaysServed
<1>1. Init => ServedInv
    <2> SUFFICES ASSUME TurnInit PROVE ServedInv
        BY DEF Init
    <2>1. NoRead \in ReadState /\ NotLost(NoRead) /\ NoTurn \in TurnState /\ NoTurn.pc = "rest"
        BY ReadAssumption DEF NoRead, ReadState, Source, Answer, NotLost, NoTurn, TurnState
    <2> QED BY <2>1 DEF TurnInit, ToolInit, ServedInv
<1>2. ServedInv /\ [Next]_vars => ServedInv'
    <2> SUFFICES ASSUME ServedInv, [Next]_vars, UNCHANGED <<tool, turns>> PROVE ServedInv'
        BY ServedStep, Apart
    <2> QED BY DEF tool, turns, ServedInv
<1>3. ServedInv => OnceServedAlwaysServed
    BY DEF ServedInv, NotLost, OnceServedAlwaysServed
<1> QED
    BY <1>1, <1>2, <1>3, PTL DEF Spec

-----------------------------------------------------------------------------
Dearest == IF IntentCost > ReportCost THEN IntentCost ELSE ReportCost

\* The turns whose call of the model is out.
Asking == {t \in Reader : turn[t].pc \in {"intent", "report"}}

\* Once the budget is spent no turn asks any more: what is to come is what the
\* turns that are asking will add.
SpendingInv ==
    /\ redis \in BOOLEAN /\ faults \in Nat /\ shared \in Nat
    /\ turn \in [Reader -> TurnState]
    /\ faults = 0 =>
         /\ redis
         /\ \/ shared < Budget
            \/ shared + Cardinality(Asking) * Dearest < Budget + Cardinality(Reader) * Dearest

\* Only as many turns as there are readers are asking, and one less once one stops.
LEMMA AskingIsFinite ==
    /\ IsFiniteSet(Asking) /\ Cardinality(Asking) \in Nat /\ Cardinality(Asking) <= Cardinality(Reader)
    /\ Cardinality(Reader) \in Nat /\ Dearest \in Nat
    /\ \A t \in Asking : Cardinality(Asking \ {t}) = Cardinality(Asking) - 1
<1>1. Asking \in SUBSET Reader /\ IsFiniteSet(Reader)
    BY TurnAssumption DEF Asking
<1>2. IsFiniteSet(Asking) /\ Cardinality(Asking) <= Cardinality(Reader)
    BY <1>1, FS_Subset
<1>3. Cardinality(Asking) \in Nat /\ Cardinality(Reader) \in Nat
    BY <1>1, <1>2, FS_CardinalityType
<1>4. \A t \in Asking : Cardinality(Asking \ {t}) = Cardinality(Asking) - 1
    BY <1>2, FS_RemoveElement
<1> QED BY <1>2, <1>3, <1>4, TurnAssumption DEF Dearest

\* A step after which no more turns ask, or that finds budget left.
LEMMA SpendsNothing ==
    ASSUME SpendingInv, UNCHANGED <<redis, faults, shared>>, turn' \in [Reader -> TurnState],
           Asking' \subseteq Asking \/ (redis => shared < Budget)
    PROVE  SpendingInv'
<1>1. CASE redis => shared < Budget
    BY <1>1 DEF SpendingInv
<1>2. CASE Asking' \subseteq Asking
    <2>1. /\ Cardinality(Asking') <= Cardinality(Asking) /\ Cardinality(Asking') \in Nat
          /\ Cardinality(Asking) \in Nat /\ Dearest \in Nat
        <3>1. Asking' \in SUBSET Asking
            BY <1>2
        <3>2. IsFiniteSet(Asking') /\ Cardinality(Asking') <= Cardinality(Asking)
            BY <3>1, AskingIsFinite, FS_Subset
        <3> QED BY <3>2, AskingIsFinite, FS_CardinalityType
    <2>2. /\ Cardinality(Asking') * Dearest <= Cardinality(Asking) * Dearest
          /\ Cardinality(Asking') * Dearest \in Nat /\ Cardinality(Asking) * Dearest \in Nat
        <3>1. \A a, b, c \in Nat : a <= b => a * c <= b * c /\ a * c \in Nat /\ b * c \in Nat
            OBVIOUS
        <3> QED BY <2>1, <3>1
    <2>3. Budget + Cardinality(Reader) * Dearest \in Nat
        BY AskingIsFinite, TurnAssumption
    <2> QED BY <2>1, <2>2, <2>3 DEF SpendingInv
<1> QED BY <1>1, <1>2

\* An outage of Redis costs a fault.
LEMMA OutIsCounted ==
    ASSUME faults \in Nat, Out
    PROVE  redis' \in BOOLEAN /\ faults' \in Nat /\ faults' # 0
<1>1. redis' = FALSE /\ faults' = faults + 1
    BY DEF Out
<1>2. redis' \in BOOLEAN
    BY <1>1
<1>3. faults' \in Nat /\ faults' # 0
    BY <1>1
<1> QED BY <1>2, <1>3

\* A turn that was asking adds its cost.
LEMMA SpendsOnce ==
    ASSUME SpendingInv, NEW t \in Asking, NEW cost \in Nat, cost <= Dearest, NEW i,
           Adds(i, cost), turn' \in [Reader -> TurnState], Asking' = Asking \ {t}
    PROVE  SpendingInv'
<1>1. CASE redis /\ shared' = shared + cost /\ UNCHANGED <<redis, faults>>
    <2> DEFINE a == Cardinality(Asking)
               n == Cardinality(Reader)
    <2>1. /\ a \in Nat /\ n \in Nat /\ a <= n /\ Cardinality(Asking') = a - 1 /\ Dearest \in Nat
          /\ a - 1 \in Nat /\ Budget \in Nat /\ shared \in Nat
        <3>1. Cardinality(Asking') = a - 1 /\ Cardinality(Asking') \in Nat
            BY AskingIsFinite, FS_Subset, FS_CardinalityType
        <3> QED BY <3>1, AskingIsFinite, TurnAssumption DEF SpendingInv
    <2>2. /\ (a - 1) * Dearest = a * Dearest - Dearest /\ a * Dearest <= n * Dearest
          /\ a * Dearest \in Nat /\ n * Dearest \in Nat
        <3>1. \A x, y, z \in Nat : x <= y => x * z <= y * z /\ x * z \in Nat /\ y * z \in Nat
            OBVIOUS
        <3>2. \A x, z \in Nat : (x - 1) * z = x * z - z
            OBVIOUS
        <3> QED BY <2>1, <3>1, <3>2
    <2> HIDE DEF a, n
    <2>3. faults = 0 => shared' + (a - 1) * Dearest < Budget + n * Dearest
        BY <1>1, <2>1, <2>2 DEF SpendingInv, a, n
    <2> QED BY <1>1, <2>1, <2>3 DEF SpendingInv, n
<1>2. CASE Out /\ \E part \in 0 .. cost : shared' = shared + part
    <2>1. shared' \in Nat
        BY <1>2 DEF SpendingInv
    <2>2. redis' \in BOOLEAN /\ faults' \in Nat /\ faults' # 0
        BY <1>2, OutIsCounted DEF SpendingInv
    <2> QED BY <2>1, <2>2 DEF SpendingInv
<1>3. CASE ~redis /\ UNCHANGED <<redis, faults, shared>>
    BY <1>3 DEF SpendingInv
<1> QED BY <1>1, <1>2, <1>3 DEF Adds

\* Every step of a turn keeps it.
LEMMA SpendingStep ==
    ASSUME SpendingInv, TurnNext
    PROVE  SpendingInv'
<1> USE TurnAssumption
<1>1. turn \in [Reader -> TurnState] /\ NoTurn \in TurnState /\ NoTurn.pc = "rest"
    BY DEF SpendingInv, TurnState, NoTurn
<1>2. ASSUME NEW t \in Reader, NEW pc \in {"rules", "intent", "execute", "read", "respond", "report"},
             Goes(t, pc)
      PROVE  /\ turn' \in [Reader -> TurnState]
             /\ Asking' = IF pc = "report" \/ pc = "intent" THEN Asking \cup {t} ELSE Asking \ {t}
    <2> DEFINE new == [turn[t] EXCEPT !.pc = pc]
    <2>1. new \in TurnState /\ new.pc = pc
        BY <1>1 DEF TurnState
    <2>2. turn' = [turn EXCEPT ![t] = new]
        BY <1>2 DEF Goes
    <2> HIDE DEF new
    <2> QED BY <1>1, <2>1, <2>2 DEF Asking
<1>3. ASSUME NEW t \in Reader, TurnEnds(t)
      PROVE  turn' \in [Reader -> TurnState] /\ Asking' = Asking \ {t}
    BY <1>1, <1>3 DEF TurnEnds, Asking
<1>4. ASSUME NEW t \in Reader, IntentAnswered(t) PROVE SpendingInv'
    <2>1. t \in Asking /\ Adds(turn[t].at, IntentCost) /\ (Goes(t, "execute") \/ Goes(t, "respond"))
        BY <1>4 DEF IntentAnswered, Routes, Asking
    <2>2. turn' \in [Reader -> TurnState] /\ Asking' = Asking \ {t} /\ IntentCost <= Dearest
        BY <1>2, <2>1 DEF Dearest
    <2> QED BY <2>1, <2>2, SpendsOnce
<1>5. ASSUME NEW t \in Reader, ReportAnswered(t) PROVE SpendingInv'
    <2>1. t \in Asking /\ Adds(turn[t].at, ReportCost) /\ TurnEnds(t)
        BY <1>5 DEF ReportAnswered, Asking
    <2>2. turn' \in [Reader -> TurnState] /\ Asking' = Asking \ {t} /\ ReportCost <= Dearest
        BY <1>3, <2>1 DEF Dearest
    <2> QED BY <2>1, <2>2, SpendsOnce
<1>6. ASSUME NEW i, ~OverBudget(i), redis PROVE shared < Budget
    BY <1>6 DEF OverBudget, Known, SpendingInv
<1>7. ASSUME NEW t \in Reader, NEW i \in Instance, TurnBegins(t, i) PROVE SpendingInv'
    <2> DEFINE pc == IF OverBudget(i) THEN "rules" ELSE "intent"
               new == [pc |-> pc, at |-> i]
    <2>1. new \in TurnState /\ new.pc = pc /\ pc \in {"rules", "intent"}
        BY DEF TurnState
    <2>2. turn' = [turn EXCEPT ![t] = new] /\ UNCHANGED <<redis, faults, shared>> /\ turn[t].pc = "rest"
        BY <1>7 DEF TurnBegins, Reads
    <2> HIDE DEF new
    <2>3. turn' \in [Reader -> TurnState] /\ Asking' = IF pc = "intent" THEN Asking \cup {t} ELSE Asking
        BY <1>1, <2>1, <2>2 DEF Asking
    <2> QED BY <1>6, <2>2, <2>3, SpendsNothing
<1>8. ASSUME NEW t \in Reader, Responds(t) PROVE SpendingInv'
    <2>1. UNCHANGED <<redis, faults, shared>>
        BY <1>8 DEF Responds, Reads
    <2>2. CASE TurnEnds(t)
        BY <1>3, <2>1, <2>2, SpendsNothing
    <2>3. CASE AsksForWording(t) /\ Goes(t, "report")
        BY <1>2, <1>6, <2>1, <2>3, SpendsNothing DEF AsksForWording
    <2> QED BY <1>8, <2>2, <2>3 DEF Responds
<1>9. ASSUME NEW t \in Reader, IntentByRule(t) \/ Executes(t) \/ Executed(t) \/ ReportFails(t)
      PROVE  SpendingInv'
    <2>1. UNCHANGED <<redis, faults, shared>>
        BY <1>9 DEF IntentByRule, Executes, Executed, ReportFails, budget
    <2>2. Goes(t, "execute") \/ Goes(t, "respond") \/ Goes(t, "read") \/ TurnEnds(t)
        BY <1>9 DEF IntentByRule, Routes, Executes, Executed, ReportFails
    <2>3. turn' \in [Reader -> TurnState] /\ Asking' = Asking \ {t}
        BY <1>2, <1>3, <2>2
    <2> QED BY <2>1, <2>3, SpendsNothing
<1>10. ASSUME NEW i \in Instance, Restarts(i) PROVE SpendingInv'
    <2>1. UNCHANGED <<redis, faults, shared>>
        BY <1>10 DEF Restarts, Forgets
    <2>2. turn' \in [Reader -> TurnState] /\ Asking' \subseteq Asking
        BY <1>1, <1>10 DEF Restarts, Asking
    <2> QED BY <2>1, <2>2, SpendsNothing
<1>11. CASE (RedisGoes \/ RedisReturns) /\ UNCHANGED turns
    <2>1. CASE RedisGoes
        BY <1>11, <2>1, OutIsCounted DEF RedisGoes, turns, SpendingInv
    <2>2. CASE RedisReturns
        <3>1. faults # 0
            BY <2>2 DEF RedisReturns, SpendingInv
        <3>2. redis' \in BOOLEAN
            BY <2>2 DEF RedisReturns
        <3> QED BY <1>11, <2>2, <3>1, <3>2 DEF RedisReturns, turns, SpendingInv
    <2> QED BY <1>11, <2>1, <2>2
<1>12. CASE UNCHANGED <<budget, turns>>
    BY <1>12 DEF budget, turns, SpendingInv, Asking
<1> QED
    BY <1>4, <1>5, <1>7, <1>8, <1>9, <1>10, <1>11, <1>12 DEF TurnNext, ToolSteps, CacheExpires

\* As long as Redis answers a session overspends by at most what each of its
\* concurrent turns asked for once, for any budget, prices and instances.
THEOREM SpendingBound == Spec => []SpendingIsBounded
<1>1. Init => SpendingInv
    <2> SUFFICES ASSUME TurnInit PROVE SpendingInv
        BY DEF Init
    <2>1. NoTurn \in TurnState
        BY DEF NoTurn, TurnState
    <2> QED BY <2>1, TurnAssumption DEF TurnInit, BudgetInit, SpendingInv
<1>2. SpendingInv /\ [Next]_vars => SpendingInv'
    <2> SUFFICES ASSUME SpendingInv, [Next]_vars, UNCHANGED <<budget, turns>> PROVE SpendingInv'
        BY SpendingStep, Apart
    <2> QED BY DEF budget, turns, SpendingInv, Asking
<1>3. SpendingInv => SpendingIsBounded
    <2> SUFFICES ASSUME SpendingInv, faults = 0
                 PROVE  shared < Budget + Cardinality(Reader) * Dearest
        BY DEF SpendingIsBounded, Dearest
    <2> DEFINE a == Cardinality(Asking) * Dearest
               n == Cardinality(Reader) * Dearest
    <2>1. a \in Nat /\ n \in Nat /\ Budget \in Nat /\ shared \in Nat
        BY AskingIsFinite, TurnAssumption DEF SpendingInv
    <2>2. shared < Budget \/ shared + a < Budget + n
        BY DEF SpendingInv
    <2> HIDE DEF a, n
    <2>3. shared < Budget + n
        BY <2>1, <2>2
    <2> QED BY <2>3 DEF n
<1> QED
    BY <1>1, <1>2, <1>3, PTL DEF Spec

-----------------------------------------------------------------------------
(***************************************************************************)
(* Daily brief                                                             *)
(***************************************************************************)
RunAt == {"rest", "query", "insert", "push", "notify", "mark"}

\* While every run took the key first, the one that runs has it.
OneRun ==
    /\ \A r \in Run : ~At(r, "rest") => key
    /\ \A r, s \in Run : ~At(r, "rest") /\ ~At(s, "rest") => r = s
    /\ \A r \in Run : At(r, "notify") => run[r].users = Owed
    /\ \A u \in User : notes[u] <= 1

\* A run that is about to notify has everybody who was not; one that marks has
\* nobody left.
BriefInv ==
    /\ BriefTypeOK
    /\ \A r \in Run : At(r, "notify") => Owed \subseteq run[r].users
    /\ \A r \in Run : At(r, "mark") => \A u \in User : notes[u] > 0
    /\ brief = "pushed" => \A u \in User : notes[u] > 0
    /\ ~keyless => OneRun

\* A run that moves on keeps its users, and no other run moves.
LEMMA RunTo ==
    ASSUME BriefTypeOK, NEW r \in Run, NEW pc \in RunAt, To(r, pc)
    PROVE  /\ run' \in [Run -> RunState]
           /\ run'[r].pc = pc /\ run'[r].users = run[r].users
           /\ \A s \in Run : s # r => run'[s] = run[s]
<1>1. run[r] \in RunState /\ run' = [run EXCEPT ![r] = [run[r] EXCEPT !.pc = pc]]
    BY DEF BriefTypeOK, To
<1>2. [run[r] EXCEPT !.pc = pc] \in RunState
    BY <1>1 DEF RunState, RunAt
<1> QED BY <1>1, <1>2 DEF BriefTypeOK, RunState

\* Every step of a run keeps it.
LEMMA BriefStep ==
    ASSUME BriefInv, NEW r \in Run,
           \/ RunBegins(r) \/ RunBeginsKeyless(r) \/ RunSkips(r)
           \/ Queries(r) \/ Inserts(r) \/ Looks(r) \/ Notifies(r) \/ Marks(r)
           \/ Fails(r) \/ Dies(r)
    PROVE  BriefInv'
<1>1. BriefTypeOK /\ \A u \in User : notes[u] \in Nat
    BY DEF BriefInv, BriefTypeOK
<1>2. CASE RunBegins(r) \/ RunBeginsKeyless(r)
    <2>1. /\ run' \in [Run -> RunState] /\ run'[r].pc = "query"
          /\ \A s \in Run : s # r => run'[s] = run[s]
        <3>1. PICK keyed \in BOOLEAN : Begun(r, keyed)
            BY <1>2 DEF RunBegins, RunBeginsKeyless
        <3>2. [pc |-> "query", keyed |-> keyed, users |-> {}] \in RunState
            BY DEF RunState
        <3> QED BY <1>1, <3>1, <3>2 DEF Begun, BriefTypeOK
    <2>2. BriefTypeOK'
        BY <1>1, <1>2, <2>1 DEF RunBegins, RunBeginsKeyless, BriefTypeOK
    <2>3. CASE RunBegins(r)
        BY <2>1, <2>2, <2>3 DEF RunBegins, BriefInv, OneRun, At, Owed
    <2>4. CASE RunBeginsKeyless(r)
        BY <2>1, <2>2, <2>4 DEF RunBeginsKeyless, BriefInv, At, Owed
    <2> QED BY <1>2, <2>3, <2>4
<1>3. CASE RunSkips(r)
    BY <1>1, <1>3 DEF RunSkips, BriefInv, BriefTypeOK, OneRun, At, Owed
<1>4. CASE Queries(r) \/ Inserts(r)
    <2>1. PICK pc \in {"insert", "push"} : To(r, pc) /\ ~At(r, "rest")
        BY <1>4 DEF Queries, Inserts, At
    <2>2. /\ run' \in [Run -> RunState] /\ run'[r].pc = pc
          /\ \A s \in Run : s # r => run'[s] = run[s]
        BY <1>1, <2>1, RunTo DEF RunAt
    <2>3. /\ UNCHANGED <<key, notes, keyless>>
          /\ brief' \in {brief, "generated"}
        BY <1>4 DEF Queries, Inserts
    <2> QED BY <1>1, <2>1, <2>2, <2>3 DEF BriefInv, BriefTypeOK, OneRun, At, Owed
<1>5. CASE Looks(r)
    <2>1. /\ run[r] \in RunState /\ Owed \in SUBSET User /\ At(r, "push")
          /\ run' = [run EXCEPT ![r] = [run[r] EXCEPT !.pc = "notify", !.users = Owed]]
          /\ UNCHANGED <<key, brief, notes, keyless>>
        BY <1>1, <1>5 DEF Looks, BriefTypeOK, Owed
    <2>2. [run[r] EXCEPT !.pc = "notify", !.users = Owed] \in RunState
        BY <2>1 DEF RunState
    <2>3. /\ run' \in [Run -> RunState] /\ run'[r].pc = "notify" /\ run'[r].users = Owed
          /\ \A s \in Run : s # r => run'[s] = run[s]
        BY <1>1, <2>1, <2>2 DEF BriefTypeOK, RunState
    <2>4. Owed' = Owed
        BY <2>1 DEF Owed
    <2> QED BY <1>1, <2>1, <2>3, <2>4 DEF BriefInv, BriefTypeOK, OneRun, At
<1>6. CASE Notifies(r)
    <2>1. /\ run' \in [Run -> RunState] /\ run'[r].pc = "mark"
          /\ \A s \in Run : s # r => run'[s] = run[s]
        BY <1>1, <1>6, RunTo DEF Notifies, RunAt
    <2>2. /\ \A u \in User : notes'[u] = notes[u] + (IF u \in run[r].users THEN 1 ELSE 0)
          /\ notes' \in [User -> Nat] /\ At(r, "notify") /\ UNCHANGED <<key, brief, keyless>>
        BY <1>1, <1>6 DEF Notifies
    <2>3. \A u \in User : notes'[u] > 0 /\ notes'[u] >= notes[u]
        BY <1>1, <2>2 DEF BriefInv, Owed
    <2>4. Owed' = {}
        BY <2>3 DEF Owed
    <2>5. ~keyless => \A u \in User : notes'[u] <= 1
        BY <1>1, <2>2 DEF BriefInv, OneRun, Owed
    <2>6. ~keyless => \A s \in Run : run'[s].pc # "notify"
        BY <2>1, <2>2 DEF BriefInv, OneRun, At
    <2> QED BY <1>1, <2>1, <2>2, <2>3, <2>4, <2>5, <2>6 DEF BriefInv, BriefTypeOK, OneRun, At
<1>7. CASE Marks(r)
    <2>1. /\ run' \in [Run -> RunState] /\ run'[r].pc = "rest"
          /\ \A s \in Run : s # r => run'[s] = run[s]
        BY <1>1, <1>7, RunTo DEF Marks, RunAt
    <2> QED BY <1>1, <1>7, <2>1 DEF Marks, BriefInv, BriefTypeOK, OneRun, At, Owed
<1>8. CASE Fails(r) \/ Dies(r)
    <2>1. /\ run' \in [Run -> RunState] /\ run'[r].pc = "rest"
          /\ \A s \in Run : s # r => run'[s] = run[s]
        BY <1>1, <1>8, RunTo DEF Fails, Dies, RunAt
    <2>2. /\ ~At(r, "rest") /\ key' \in {FALSE, key} /\ UNCHANGED <<brief, notes, keyless>>
        BY <1>8 DEF Fails, Dies
    <2> QED BY <1>1, <2>1, <2>2 DEF BriefInv, BriefTypeOK, OneRun, At, Owed
<1> QED
    BY <1>2, <1>3, <1>4, <1>5, <1>6, <1>7, <1>8

\* A brief marked as pushed has reached everybody, and nobody twice while every
\* run took the key first.
THEOREM BriefReaches == Spec => []BriefReachesEachOnce
<1>1. Init => BriefInv
    <2> SUFFICES ASSUME BriefInit PROVE BriefInv
        BY DEF Init
    <2>1. BriefTypeOK /\ \A r \in Run : At(r, "rest")
        BY DEF BriefInit, BriefTypeOK, RunState, At
    <2> QED BY <2>1 DEF BriefInit, BriefInv, OneRun, At
<1>2. BriefInv /\ [Next]_vars => BriefInv'
    <2>1. BriefInv /\ UNCHANGED briefs => BriefInv'
        BY DEF briefs, BriefInv, BriefTypeOK, OneRun, At, Owed
    <2> QED BY <2>1, BriefStep, Apart DEF BriefNext
<1>3. BriefInv => BriefReachesEachOnce
    BY DEF BriefInv, OneRun, BriefReachesEachOnce
<1> QED
    BY <1>1, <1>2, <1>3, PTL DEF Spec

-----------------------------------------------------------------------------
(***************************************************************************)
(* Nightly evaluation                                                      *)
(***************************************************************************)
Stored(e) == \E d \in DomainIndex : report[d] # NoReport /\ report[d].by = e

\* A run counts only reports it has stored, and only stores what is no failure.
EvalInv ==
    /\ EvalTypeOK
    /\ \A e \in Evaluation :
         /\ evaluation[e].wrote < evaluation[e].at
         /\ evaluation[e].wrote > 0 \/ evaluation[e].status = "SUCCESS" => Stored(e)
         /\ evaluation[e].pc = "insert" =>
              /\ evaluation[e].at \in DomainIndex
              /\ ~IsFailed(evaluation[e].metrics[evaluation[e].at])
    /\ \A d \in DomainIndex : report[d] # NoReport => ~report[d].metrics.error

\* The job evaluates two domains.
LEMMA TwoDomains == Len(Domains) = 2 /\ DomainIndex = {1, 2}
BY DEF Domains, DomainIndex

\* No more cases end than there are.
LEMMA EndedBound ==
    ASSUME NEW records, NEW ends
    PROVE  Ended(records, ends) \in 0 .. Cases
<1>1. IsFiniteSet(1 .. Cases) /\ Cardinality(1 .. Cases) = Cases
    BY FS_Interval, EvalAssumption
<1> DEFINE S == {c \in 1 .. Cases : records[c] \in ends}
<1>2. S \in SUBSET (1 .. Cases)
    OBVIOUS
<1>3. IsFiniteSet(S) /\ Cardinality(S) <= Cardinality(1 .. Cases)
    BY <1>1, <1>2, FS_Subset
<1>4. Cardinality(S) \in Nat
    BY <1>3, FS_CardinalityType
<1> QED BY <1>1, <1>3, <1>4, EvalAssumption DEF Ended

\* A failure is stored as metrics too.
LEMMA FailureIsMetrics == Failure \in Metrics
BY EvalAssumption DEF Failure, Metrics

\* So is what either evaluation measures.
LEMMA EvaluatedAreMetrics == EvalRag \subseteq Metrics /\ EvalNl2Sql \subseteq Metrics
<1>1. 0 \in 0 .. Cases /\ Cases \in 0 .. Cases
    BY EvalAssumption
<1>2. \A records \in [1 .. Cases -> EvalOne] : RoundOf(records) \in Metrics
    BY <1>1, FailureIsMetrics, EndedBound DEF RoundOf, Metrics
<1>3. EvalNl2Sql \subseteq Metrics
    BY <1>2, FailureIsMetrics DEF EvalNl2Sql
<1>4. \A records \in [1 .. Cases -> RunQa] :
        [error |-> FALSE, n |-> IF Ended(records, {"measured"}) = 0 THEN 0 ELSE Cases,
         rate |-> Ended(records, {"raised"}), passed |-> Ended(records, {"measured"})] \in Metrics
    BY <1>1, EndedBound DEF Metrics
<1>5. EvalRag \subseteq Metrics
    BY <1>4, FailureIsMetrics DEF EvalRag
<1> QED BY <1>3, <1>5

\* What a run that rests looks like.
LEMMA RestingIsState ==
    ASSUME NEW status \in {"none", "SUCCESS", "FAILED"}
    PROVE  /\ Resting(status) \in EvalState /\ Resting(status).pc = "rest"
           /\ Resting(status).at = 1 /\ Resting(status).wrote = 0 /\ Resting(status).status = status
BY FailureIsMetrics, TwoDomains DEF Resting, EvalState

\* A step of run e that leaves the reports alone.
LEMMA EvalKeeps ==
    ASSUME EvalInv, NEW e \in Evaluation, UNCHANGED report, NEW new \in EvalState,
           evaluation' = [evaluation EXCEPT ![e] = new],
           new.wrote < new.at, new.wrote > 0 \/ new.status = "SUCCESS" => Stored(e),
           new.pc = "insert" => new.at \in DomainIndex /\ ~IsFailed(new.metrics[new.at])
    PROVE  EvalInv'
<1>1. /\ evaluation' \in [Evaluation -> EvalState] /\ evaluation'[e] = new
      /\ \A f \in Evaluation : f # e => evaluation'[f] = evaluation[f]
    BY DEF EvalInv, EvalTypeOK
<1>2. \A f \in Evaluation : Stored(f)' <=> Stored(f)
    BY DEF Stored
<1> QED BY <1>1, <1>2 DEF EvalInv, EvalTypeOK

\* To the next domain, with a count that is right.
LEMMA PassesOn ==
    ASSUME EvalTypeOK, NEW e \in Evaluation, evaluation[e].at \in DomainIndex,
           NEW wrote \in 0 .. evaluation[e].at, Passes(e, wrote)
    PROVE  \E new \in EvalState :
             /\ evaluation' = [evaluation EXCEPT ![e] = new]
             /\ new.pc = "look" /\ new.at = evaluation[e].at + 1 /\ new.wrote = wrote
             /\ new.status = evaluation[e].status
<1>1. evaluation[e] \in EvalState
    BY DEF EvalTypeOK
<1> DEFINE new == [evaluation[e] EXCEPT !.pc = "look", !.at = evaluation[e].at + 1, !.wrote = wrote]
<1>2. evaluation' = [evaluation EXCEPT ![e] = new]
    BY DEF EvalTypeOK, Passes
<1>3. evaluation[e].at + 1 \in 1 .. Len(Domains) + 1 /\ wrote \in 0 .. Len(Domains)
    BY TwoDomains
<1>4. /\ new \in EvalState /\ new.pc = "look" /\ new.at = evaluation[e].at + 1 /\ new.wrote = wrote
      /\ new.status = evaluation[e].status
    BY <1>1, <1>3 DEF EvalState
<1> HIDE DEF new
<1> QED BY <1>2, <1>4

\* Every step of a run keeps it.
LEMMA EvalStep ==
    ASSUME EvalInv, NEW e \in Evaluation,
           Evaluates(e) \/ LooksUp(e) \/ Stores(e) \/ Finishes(e) \/ EvalFails(e) \/ EvalDies(e)
    PROVE  EvalInv'
<1>1. EvalTypeOK /\ evaluation[e] \in EvalState
    BY DEF EvalInv, EvalTypeOK
<1>2. evaluation[e].at \in Nat /\ evaluation[e].wrote \in Nat
    BY <1>1, TwoDomains DEF EvalState
<1>3. CASE Evaluates(e)
    <2>1. PICK rag \in EvalRag, sql \in EvalNl2Sql :
            evaluation' = [evaluation EXCEPT ![e] =
                [Resting("none") EXCEPT !.pc = "look", !.metrics = <<rag, sql>>]]
        BY <1>3 DEF Evaluates
    <2> DEFINE new == [Resting("none") EXCEPT !.pc = "look", !.metrics = <<rag, sql>>]
    <2>2. <<rag, sql>> \in [DomainIndex -> Metrics]
        <3>1. rag \in Metrics /\ sql \in Metrics
            BY EvaluatedAreMetrics
        <3> QED BY <3>1, TwoDomains
    <2>3. new \in EvalState /\ new.pc = "look" /\ new.at = 1 /\ new.wrote = 0 /\ new.status = "none"
        BY <2>2, RestingIsState DEF EvalState
    <2>4. evaluation' = [evaluation EXCEPT ![e] = new] /\ UNCHANGED report
        BY <1>3, <2>1 DEF Evaluates
    <2> HIDE DEF new
    <2>5. \E next \in EvalState : next = new
        BY <2>3
    <2>6. PICK next \in EvalState : next = new
        BY <2>5
    <2>7. /\ next.wrote < next.at /\ ~(next.wrote > 0 \/ next.status = "SUCCESS")
          /\ next.pc # "insert" /\ evaluation' = [evaluation EXCEPT ![e] = next]
        BY <2>3, <2>4, <2>6
    <2> QED BY <2>4, <2>7, EvalKeeps
<1>4. CASE LooksUp(e)
    <2>1. evaluation[e].at \in DomainIndex /\ UNCHANGED report
        BY <1>4 DEF LooksUp
    <2>2. CASE Passes(e, evaluation[e].wrote)
        <3>1. evaluation[e].wrote \in 0 .. evaluation[e].at
            BY <1>2 DEF EvalInv
        <3>2. PICK new \in EvalState :
                /\ evaluation' = [evaluation EXCEPT ![e] = new]
                /\ new.pc = "look" /\ new.at = evaluation[e].at + 1 /\ new.wrote = evaluation[e].wrote
                /\ new.status = evaluation[e].status
            BY <1>1, <2>1, <2>2, <3>1, PassesOn
        <3>3. new.wrote < new.at /\ (new.wrote > 0 \/ new.status = "SUCCESS" => Stored(e))
            BY <1>2, <3>2 DEF EvalInv
        <3> QED BY <2>1, <3>2, <3>3, EvalKeeps
    <2>3. CASE /\ ~IsFailed(evaluation[e].metrics[evaluation[e].at])
               /\ evaluation' = [evaluation EXCEPT ![e].pc = "insert"]
        <3> DEFINE new == [evaluation[e] EXCEPT !.pc = "insert"]
        <3>1. evaluation' = [evaluation EXCEPT ![e] = new]
            BY <1>1, <2>3 DEF EvalTypeOK
        <3>2. /\ new \in EvalState /\ new.pc = "insert" /\ new.at = evaluation[e].at
              /\ new.wrote = evaluation[e].wrote /\ new.status = evaluation[e].status
              /\ new.metrics = evaluation[e].metrics
            BY <1>1 DEF EvalState
        <3>3. new.wrote < new.at /\ (new.wrote > 0 \/ new.status = "SUCCESS" => Stored(e))
            BY <3>2 DEF EvalInv
        <3> HIDE DEF new
        <3>4. PICK next \in EvalState : next = new
            BY <3>2
        <3> QED BY <2>1, <2>3, <3>1, <3>2, <3>3, <3>4, EvalKeeps
    <2> QED BY <1>4, <2>2, <2>3 DEF LooksUp, Skips
<1>5. CASE Stores(e)
    <2> DEFINE at == evaluation[e].at
               new == [by |-> e, metrics |-> evaluation[e].metrics[at]]
    <2>1. /\ at \in DomainIndex /\ ~evaluation[e].metrics[at].error
          /\ report[at] = NoReport /\ report' = [report EXCEPT ![at] = new]
          /\ Passes(e, evaluation[e].wrote + 1)
        BY <1>5 DEF Stores, EvalInv, IsFailed
    <2>2. /\ new \in [by : Evaluation \cup {"none"}, metrics : Metrics]
          /\ new.by = e /\ ~new.metrics.error
        BY <1>1, <2>1 DEF EvalState
    <2>3. new # NoReport
        BY <2>2 DEF NoReport, Failure
    <2> HIDE DEF new
    <2>4. /\ report' \in [DomainIndex -> [by : Evaluation \cup {"none"}, metrics : Metrics]]
          /\ report'[at] = new /\ \A d \in DomainIndex : d # at => report'[d] = report[d]
        BY <2>1, <2>2 DEF EvalInv, EvalTypeOK
    <2>5. \A f \in Evaluation : Stored(f) => Stored(f)'
        BY <2>1, <2>4 DEF Stored
    <2>6. Stored(e)'
        BY <2>1, <2>2, <2>3, <2>4 DEF Stored
    <2>7. evaluation[e].wrote + 1 \in 0 .. at
        BY <1>2 DEF EvalInv
    <2>8. PICK next \in EvalState :
            /\ evaluation' = [evaluation EXCEPT ![e] = next]
            /\ next.pc = "look" /\ next.at = at + 1 /\ next.wrote = evaluation[e].wrote + 1
            /\ next.status = evaluation[e].status
        BY <1>1, <2>1, <2>7, PassesOn
    <2>9. /\ evaluation' \in [Evaluation -> EvalState] /\ evaluation'[e] = next
          /\ \A f \in Evaluation : f # e => evaluation'[f] = evaluation[f]
        BY <1>1, <2>8 DEF EvalTypeOK
    <2>10. next.wrote < next.at
        BY <1>2, <2>7, <2>8
    <2> QED BY <2>2, <2>4, <2>5, <2>6, <2>8, <2>9, <2>10 DEF EvalInv, EvalTypeOK
<1>6. CASE Finishes(e)
    <2>1. PICK status \in {"FAILED", "SUCCESS"} :
            /\ Done(e, status) /\ UNCHANGED report
            /\ status = "SUCCESS" => evaluation[e].wrote > 0
        BY <1>2, <1>6 DEF Finishes
    <2>2. status = "SUCCESS" => Stored(e)
        BY <2>1 DEF EvalInv
    <2>3. PICK next \in EvalState :
            /\ next = Resting(status) /\ next.pc = "rest" /\ next.at = 1 /\ next.wrote = 0
            /\ next.status = status
        BY RestingIsState
    <2>4. /\ evaluation' = [evaluation EXCEPT ![e] = next]
          /\ next.wrote < next.at /\ ~(next.wrote > 0) /\ next.pc # "insert"
        BY <2>1, <2>3 DEF Done
    <2> QED BY <2>1, <2>2, <2>3, <2>4, EvalKeeps
<1>7. CASE EvalFails(e) \/ EvalDies(e)
    <2>1. PICK status \in {"FAILED", "none"} : Done(e, status) /\ UNCHANGED report
        BY <1>7 DEF EvalFails, EvalDies
    <2>2. PICK next \in EvalState :
            /\ next = Resting(status) /\ next.pc = "rest" /\ next.at = 1 /\ next.wrote = 0
            /\ next.status = status
        BY RestingIsState
    <2>3. /\ evaluation' = [evaluation EXCEPT ![e] = next]
          /\ next.wrote < next.at /\ ~(next.wrote > 0) /\ next.pc # "insert"
        BY <2>1, <2>2 DEF Done
    <2> QED BY <2>1, <2>2, <2>3, EvalKeeps
<1> QED
    BY <1>3, <1>4, <1>5, <1>6, <1>7

\* A run that calls itself a success has stored a report, and no report comes
\* from a domain that could not be evaluated.
THEOREM SuccessStored == Spec => []SuccessMeansReport
<1>1. Init => EvalInv
    <2> SUFFICES ASSUME EvalInit PROVE EvalInv
        BY DEF Init
    <2>1. EvalTypeOK
        BY RestingIsState, FailureIsMetrics DEF EvalInit, EvalTypeOK, NoReport
    <2> QED BY <2>1, RestingIsState DEF EvalInit, EvalInv
<1>2. EvalInv /\ [Next]_vars => EvalInv'
    <2>1. EvalInv /\ UNCHANGED evals => EvalInv'
        BY DEF evals, EvalInv, EvalTypeOK, Stored
    <2> QED BY <2>1, EvalStep, Apart DEF EvalNext
<1>3. EvalInv => SuccessMeansReport
    BY DEF EvalInv, Stored, SuccessMeansReport
<1> QED
    BY <1>1, <1>2, <1>3, PTL DEF Spec

-----------------------------------------------------------------------------
(***************************************************************************)
(* Idempotency                                                             *)
(***************************************************************************)
Held(c) == [status |-> "RUNNING", by |-> c]
Holding == {"work", "record", "failed"}

\* Redis's record has not lapsed; a row of SQLite never does.
Sound(s, old) == s = "redis" => ~old

\* What is so of a call c in state k, with the record of its store, the calls that
\* are done, and whether Redis's record lapsed.
CallGood(c, k, row, done, old) ==
    /\ c \in done => k.pc \in {"record", "end"}
    /\ k.pc = "record" => c \in done
    /\ k.pc \in {"reread", "overwrite"} => k.store = "redis"
    /\ k.pc = "overwrite" => k.saw.status = "FAILED"
    /\ k.got \in Caller => k.got \in done
    /\ Sound(k.store, old) =>
         /\ k.pc \in Holding => row = Held(c)
         /\ c \in done => row.status \in {"RUNNING", "SUCCESS"} /\ row.by = c

\* The record is of the call that holds the key, and, from its function's
\* return on, of the call whose function returned.
IdemInv ==
    /\ record \in [Store -> Record] /\ call \in [Caller -> CallState]
    /\ returned \subseteq Caller /\ lapsed \in BOOLEAN
    /\ \A s \in Store : record[s].status = "SUCCESS" => record[s].by \in returned
    /\ \A c \in Caller : CallGood(c, call[c], record[call[c].store], returned, lapsed)

\* The four kinds of record, and which of them a call holds.
LEMMA RecordKinds ==
    ASSUME NEW r \in Record
    PROVE  /\ r.status \in {"NONE", "RUNNING", "FAILED", "SUCCESS"}
           /\ r.status # "NONE" => r.by \in Caller
           /\ r.status \in {"NONE", "FAILED"} => \A c \in Caller : r # Held(c)
BY DEF Record, Nothing, Held

\* A call goes on and leaves its record alone.
LEMMA CallGoes ==
    ASSUME IdemInv, UNCHANGED <<record, lapsed>>, NEW c \in Caller, NEW new \in CallState,
           call' = [call EXCEPT ![c] = new],
           returned' = returned \/ returned' = returned \cup {c},
           CallGood(c, new, record[new.store], returned', lapsed)
    PROVE  IdemInv'
<1>1. /\ call' \in [Caller -> CallState] /\ call'[c] = new
      /\ \A d \in Caller \ {c} : call'[d] = call[d]
    BY DEF IdemInv
<1>2. \A d \in Caller \ {c} : CallGood(d, call[d], record[call[d].store], returned, lapsed)'
    BY DEF IdemInv, CallGood, Sound, CallState
<1>3. returned \subseteq returned' /\ returned' \subseteq Caller
    BY DEF IdemInv
<1> QED BY <1>1, <1>2, <1>3 DEF IdemInv

\* A call goes on and writes its record over one that nobody else relies on.
LEMMA CallWrites ==
    ASSUME IdemInv, UNCHANGED returned, lapsed => lapsed', lapsed' \in BOOLEAN,
           NEW c \in Caller, NEW new \in CallState, NEW row \in Record,
           call' = [call EXCEPT ![c] = new], new.store = call[c].store,
           record' = [record EXCEPT ![new.store] = row],
           row.status = "SUCCESS" => row.by \in returned,
           Sound(new.store, lapsed') => \/ record[new.store] = Held(c)
                                \/ record[new.store].status \in {"NONE", "FAILED"},
           CallGood(c, new, row, returned, lapsed')
    PROVE  IdemInv'
<1> DEFINE s == new.store
<1>1. /\ call' \in [Caller -> CallState] /\ call'[c] = new
      /\ \A d \in Caller \ {c} : call'[d] = call[d]
      /\ s \in Store /\ record' \in [Store -> Record] /\ record'[s] = row
      /\ \A t \in Store \ {s} : record'[t] = record[t]
    BY DEF IdemInv, CallState
<1>2. ASSUME NEW d \in Caller \ {c} PROVE CallGood(d, call[d], record[call[d].store], returned, lapsed)'
    <2>1. CallGood(d, call[d], record[call[d].store], returned, lapsed) /\ call'[d] = call[d] /\ call[d].store \in Store
        BY <1>1 DEF IdemInv, CallState
    <2>2. Sound(call[d].store, lapsed') => Sound(call[d].store, lapsed)
        BY DEF Sound
    <2>3. CASE call[d].store # s
        BY <1>1, <2>1, <2>2, <2>3 DEF CallGood
    <2>4. CASE call[d].store = s
        <3>1. Sound(s, lapsed') => call[d].pc \notin Holding /\ d \notin returned
            <4> SUFFICES ASSUME Sound(s, lapsed') PROVE call[d].pc \notin Holding /\ d \notin returned
                OBVIOUS
            <4>1. Sound(s, lapsed) /\ record[s] \in Record
                BY <1>1, <2>2, <2>4 DEF IdemInv
            <4>2. CASE record[s] = Held(c)
                BY <2>1, <2>4, <4>1, <4>2 DEF CallGood, Held
            <4>3. CASE record[s].status \in {"NONE", "FAILED"}
                BY <2>1, <2>4, <4>1, <4>3, RecordKinds DEF CallGood
            <4> QED BY <4>2, <4>3
        <3> QED BY <2>1, <2>4, <3>1 DEF CallGood
    <2> QED BY <2>3, <2>4
<1>3. \A t \in Store : record'[t].status = "SUCCESS" => record'[t].by \in returned
    BY <1>1 DEF IdemInv
<1> QED BY <1>1, <1>2, <1>3 DEF IdemInv

\* Every step of a call keeps it.
LEMMA IdemStep ==
    ASSUME IdemInv, IdemNext
    PROVE  IdemInv'
<1>1. ASSUME NEW c \in Caller
      PROVE  /\ call[c] \in CallState /\ call[c].store \in Store /\ Row(c) \in Record
             /\ CallGood(c, call[c], Row(c), returned, lapsed) /\ call[c].saw \in Record
             /\ Row(c).status = "SUCCESS" => Row(c).by \in returned
             /\ Row(c).status = "SUCCESS" => Row(c).by \in Caller
    <2>1. call[c] \in CallState /\ call[c].store \in Store /\ call[c].saw \in Record
        BY DEF IdemInv, CallState
    <2>2. Row(c) \in Record
        BY <2>1 DEF IdemInv, Row
    <2> QED BY <2>1, <2>2, RecordKinds DEF IdemInv, Row
<1>2. ASSUME NEW c \in Caller, NEW pc \in {"look", "claim", "reread", "spin"},
             GoesTo(c, pc), call[c].pc \in {"look", "claim", "reread", "overwrite"},
             pc = "reread" => call[c].store = "redis", UNCHANGED <<record, returned, lapsed>>
      PROVE  IdemInv'
    <2> DEFINE new == [call[c] EXCEPT !.pc = pc]
    <2>1. /\ new \in CallState /\ new.pc = pc /\ new.store = call[c].store
          /\ new.saw = call[c].saw /\ new.got = call[c].got
        BY <1>1 DEF CallState
    <2>2. call' = [call EXCEPT ![c] = new]
        BY <1>2 DEF GoesTo
    <2> HIDE DEF new
    <2>3. CallGood(c, new, record[new.store], returned', lapsed)
        BY <1>1, <1>2, <2>1 DEF CallGood, Row, Holding, Sound
    <2> QED BY <1>2, <2>1, <2>2, <2>3, CallGoes
<1>3. ASSUME NEW c \in Caller, NEW got \in {"error", "unavailable"} \cup returned,
             EndsWith(c, got), call[c].pc \in {"new", "look", "spin"},
             UNCHANGED <<record, returned, lapsed>>
      PROVE  IdemInv'
    <2> DEFINE new == [call[c] EXCEPT !.pc = "end", !.got = got]
    <2>1. returned \subseteq Caller
        BY DEF IdemInv
    <2>2. /\ new \in CallState /\ new.pc = "end" /\ new.store = call[c].store /\ new.got = got
        <3>1. got \in {"nothing", "error", "unavailable"} \cup Caller
            BY <2>1
        <3>2. call[c] \in CallState
            BY <1>1
        <3> QED BY <3>1, <3>2 DEF CallState
    <2>3. call' = [call EXCEPT ![c] = new]
        BY <1>3 DEF EndsWith
    <2> HIDE DEF new
    <2>4. CallGood(c, new, record[new.store], returned', lapsed)
        BY <1>1, <1>3, <2>2, IdemAssumption DEF CallGood, Row, Holding, Sound
    <2> QED BY <1>3, <2>2, <2>3, <2>4, CallGoes
<1>4. ASSUME NEW c \in Caller, Resolves(c) PROVE IdemInv'
    <2>1. HostOf[c] \in Host /\ UNCHANGED <<record, returned, lapsed>> /\ call[c].pc = "new"
        BY <1>4, IdemAssumption DEF Resolves, Is
    <2>2. ASSUME NEW s \in Store, call' = [call EXCEPT ![c].pc = "look", ![c].store = s] PROVE IdemInv'
        <3> DEFINE new == [call[c] EXCEPT !.pc = "look", !.store = s]
        <3>1. /\ new \in CallState /\ new.pc = "look" /\ new.got = call[c].got
            <4>1. call[c] \in CallState /\ s \in Store
                BY <1>1
            <4> QED BY <4>1 DEF CallState
        <3>2. call' = [call EXCEPT ![c] = new]
            BY <2>2
        <3> HIDE DEF new
        <3>3. CallGood(c, new, record[new.store], returned', lapsed)
            BY <1>1, <2>1, <3>1 DEF CallGood, Holding
        <3> QED BY <2>1, <3>1, <3>2, <3>3, CallGoes
    <2>3. CASE GoesTo(c, "look")
        <3> DEFINE new == [call[c] EXCEPT !.pc = "look"]
        <3>1. /\ new \in CallState /\ new.pc = "look" /\ new.got = call[c].got
            BY <1>1 DEF CallState
        <3>2. call' = [call EXCEPT ![c] = new]
            BY <2>3 DEF GoesTo
        <3> HIDE DEF new
        <3>3. CallGood(c, new, record[new.store], returned', lapsed)
            BY <1>1, <2>1, <3>1 DEF CallGood, Holding
        <3> QED BY <2>1, <3>1, <3>2, <3>3, CallGoes
    <2>4. CASE EndsWith(c, "unavailable")
        BY <1>3, <2>1, <2>4
    <2>5. CASE call' = [call EXCEPT ![c].pc = "look", ![c].store = HostOf[c]]
        BY <2>1, <2>2, <2>5 DEF Store
    <2> QED BY <1>4, <2>3, <2>4, <2>5 DEF Resolves
<1>5. ASSUME NEW c \in Caller, LooksUpResult(c) \/ Spins(c) PROVE IdemInv'
    <2>1. /\ UNCHANGED <<record, returned, lapsed>> /\ call[c].pc \in {"look", "spin"}
          /\ \/ Hit(c) /\ EndsWith(c, Row(c).by)
             \/ EndsWith(c, "error")
             \/ GoesTo(c, "claim") /\ call[c].pc = "look"
        BY <1>5 DEF LooksUpResult, Spins, Is
    <2>2. CASE Hit(c) /\ EndsWith(c, Row(c).by)
        BY <1>1, <1>3, <2>1, <2>2 DEF Hit
    <2>3. CASE EndsWith(c, "error")
        BY <1>3, <2>1, <2>3
    <2>4. CASE GoesTo(c, "claim") /\ call[c].pc = "look"
        BY <1>2, <2>1, <2>4
    <2> QED BY <2>1, <2>2, <2>3, <2>4
\* The record is taken for the call.
<1>6. ASSUME NEW c \in Caller, NEW pc \in {"work", "reread", "spin"},
             Writes(c, "RUNNING"), GoesTo(c, pc), call[c].pc \in {"claim", "overwrite"},
             pc = "reread" => call[c].store = "redis",
             UNCHANGED returned, lapsed => lapsed', lapsed' \in BOOLEAN,
             Sound(call[c].store, lapsed') => Row(c).status \in {"NONE", "FAILED"}
      PROVE  IdemInv'
    <2> DEFINE new == [call[c] EXCEPT !.pc = pc]
    <2>1. /\ new \in CallState /\ new.pc = pc /\ new.store = call[c].store /\ new.got = call[c].got
        BY <1>1 DEF CallState
    <2>2. call' = [call EXCEPT ![c] = new]
        BY <1>6 DEF GoesTo
    <2>3. /\ Held(c) \in Record /\ Held(c).status = "RUNNING" /\ Held(c).by = c
          /\ record' = [record EXCEPT ![call[c].store] = Held(c)]
        BY <1>6 DEF Held, Record, Writes
    <2> HIDE DEF new
    <2>4. CallGood(c, new, Held(c), returned, lapsed')
        <3>1. c \notin returned'
            BY <1>1, <1>6 DEF CallGood
        <3>2. Held(c)' = Held(c)
            BY DEF Held
        <3> QED BY <1>1, <1>6, <2>1, <3>1, <3>2 DEF CallGood
    <2> QED BY <1>6, <2>1, <2>2, <2>3, <2>4, CallWrites DEF Row
<1>7. ASSUME NEW c \in Caller, Claims(c) PROVE IdemInv'
    <2> DEFINE free == Answered(c) /\ \/ Row(c) = Nothing
                                      \/ call[c].store # "redis" /\ Row(c).status = "FAILED"
    <2>1. UNCHANGED <<returned, lapsed>> /\ call[c].pc = "claim" /\ lapsed \in BOOLEAN
        BY <1>7 DEF Claims, Is, IdemInv
    <2>2. CASE free
        <3>1. /\ Writes(c, "RUNNING")
              /\ GoesTo(c, "work") \/ (GoesTo(c, "reread") /\ call[c].store = "redis")
            BY <1>7, <2>2 DEF Claims, Unheard
        <3>2. Row(c).status \in {"NONE", "FAILED"}
            BY <2>2 DEF Nothing
        <3> QED BY <1>6, <2>1, <3>1, <3>2
    <2>3. CASE ~free
        <3>1. /\ UNCHANGED record
              /\ GoesTo(c, IF call[c].store = "redis" THEN "reread" ELSE "spin")
            BY <1>7, <2>3 DEF Claims
        <3> QED BY <1>2, <2>1, <3>1
    <2> QED BY <2>2, <2>3
<1>8. ASSUME NEW c \in Caller, Rereads(c) PROVE IdemInv'
    <2>1. UNCHANGED <<record, returned, lapsed>> /\ call[c].pc = "reread"
        BY <1>8 DEF Rereads, Is
    <2>2. CASE GoesTo(c, "spin")
        BY <1>2, <2>1, <2>2
    <2>3. CASE MayRetry(c) /\ call' = [call EXCEPT ![c].pc = "overwrite", ![c].saw = Row(c)]
        <3> DEFINE new == [call[c] EXCEPT !.pc = "overwrite", !.saw = Row(c)]
        <3>1. /\ new \in CallState /\ new.pc = "overwrite" /\ new.store = call[c].store
              /\ new.saw = Row(c) /\ new.got = call[c].got
            BY <1>1 DEF CallState
        <3>2. call' = [call EXCEPT ![c] = new]
            BY <2>3
        <3> HIDE DEF new
        <3>3. CallGood(c, new, record[new.store], returned', lapsed)
            BY <1>1, <2>1, <2>3, <3>1 DEF CallGood, Row, Holding, Sound, MayRetry
        <3> QED BY <2>1, <3>1, <3>2, <3>3, CallGoes
    <2> QED BY <1>8, <2>2, <2>3 DEF Rereads
<1>9. ASSUME NEW c \in Caller, Overwrites(c) PROVE IdemInv'
    <2>1. UNCHANGED returned /\ call[c].pc = "overwrite" /\ lapsed \in BOOLEAN
        BY <1>9 DEF Overwrites, Is, IdemInv
    <2>2. /\ call[c].store = "redis" /\ call[c].saw.status = "FAILED"
        BY <1>1, <2>1 DEF CallGood
    <2>3. CASE Answered(c)
        <3>1. /\ Writes(c, "RUNNING") /\ (GoesTo(c, "work") \/ GoesTo(c, "spin"))
              /\ lapsed' = (lapsed \/ Row(c) # call[c].saw)
            BY <1>9, <2>3 DEF Overwrites
        <3>2. lapsed' \in BOOLEAN /\ (lapsed => lapsed')
            BY <3>1
        <3>3. Sound(call[c].store, lapsed') => Row(c).status \in {"NONE", "FAILED"}
            <4> SUFFICES ASSUME ~lapsed' PROVE Row(c).status = "FAILED"
                BY <2>2 DEF Sound, CallState
            <4> QED BY <2>2, <3>1
        <3> QED BY <1>6, <2>1, <3>1, <3>2, <3>3
    <2>4. CASE ~Answered(c)
        BY <1>2, <1>9, <2>1, <2>4 DEF Overwrites
    <2> QED BY <2>3, <2>4
<1>10. ASSUME NEW c \in Caller, Works(c) PROVE IdemInv'
    <2>1. /\ UNCHANGED <<record, lapsed>> /\ call[c].pc = "work"
          /\ \/ GoesTo(c, "record") /\ returned' = returned \cup {c}
             \/ GoesTo(c, "failed") /\ UNCHANGED returned
        BY <1>10 DEF Works, Is
    <2>2. PICK pc \in {"record", "failed"} :
            /\ GoesTo(c, pc)
            /\ IF pc = "record" THEN returned' = returned \cup {c} ELSE UNCHANGED returned
        BY <2>1
    <2> DEFINE new == [call[c] EXCEPT !.pc = pc]
    <2>3. /\ new \in CallState /\ new.pc = pc /\ new.store = call[c].store /\ new.got = call[c].got
        BY <1>1 DEF CallState
    <2>4. call' = [call EXCEPT ![c] = new]
        BY <2>2 DEF GoesTo
    <2> HIDE DEF new
    <2>5. CallGood(c, new, record[new.store], returned', lapsed)
        <3>1. /\ c \notin returned /\ (new.got \in Caller => new.got \in returned)
              /\ Sound(new.store, lapsed) => Row(c) = Held(c)
            BY <1>1, <2>1, <2>3 DEF CallGood, Holding
        <3>2. Sound(new.store, lapsed') <=> Sound(new.store, lapsed)
            BY <2>1 DEF Sound
        <3>3. record[new.store] = Row(c) /\ Held(c).status = "RUNNING" /\ Held(c).by = c
            BY <2>1, <2>3 DEF Row, Held
        <3>4. c \in returned' <=> pc = "record"
            BY <2>2, <3>1
        <3> QED BY <2>2, <2>3, <3>1, <3>2, <3>3, <3>4 DEF CallGood
    <2> QED BY <2>1, <2>2, <2>3, <2>4, <2>5, CallGoes
<1>11. ASSUME NEW c \in Caller, Completes(c) \/ MarksFailed(c) PROVE IdemInv'
    <2>1. PICK status \in {"SUCCESS", "FAILED"}, got \in {"error"} \cup Caller :
            /\ call[c].pc = (IF status = "SUCCESS" THEN "record" ELSE "failed")
            /\ got = (IF status = "SUCCESS" THEN c ELSE "error")
            /\ Records(c, status) /\ EndsWith(c, got)
        BY <1>11 DEF Completes, MarksFailed, Is
    <2> DEFINE new == [call[c] EXCEPT !.pc = "end", !.got = got]
    <2>2. /\ new \in CallState /\ new.pc = "end" /\ new.store = call[c].store /\ new.got = got
        <3>1. got \in {"nothing", "error", "unavailable"} \cup Caller
            OBVIOUS
        <3>2. call[c] \in CallState
            BY <1>1
        <3> QED BY <3>1, <3>2 DEF CallState
    <2>3. call' = [call EXCEPT ![c] = new]
        BY <2>1 DEF EndsWith
    <2>4. /\ UNCHANGED <<returned, lapsed>> /\ lapsed \in BOOLEAN
          /\ (Writes(c, status) \/ UNCHANGED record)
        BY <2>1 DEF Records, IdemInv
    <2> HIDE DEF new
    <2>5. /\ c \in returned <=> status = "SUCCESS"
          /\ new.got \in Caller => new.got \in returned
          /\ Sound(new.store, lapsed) => Row(c) = Held(c)
        BY <1>1, <2>1, <2>2, IdemAssumption DEF CallGood, Holding
    <2>6. Sound(new.store, lapsed') <=> Sound(new.store, lapsed)
        BY <2>4 DEF Sound
    <2>7. CASE UNCHANGED record
        <3>1. CallGood(c, new, record[new.store], returned', lapsed)
            BY <2>2, <2>4, <2>5, <2>6, <2>7 DEF CallGood, Row, Holding, Held
        <3> QED BY <2>2, <2>3, <2>4, <2>7, <3>1, CallGoes
    <2>8. CASE Writes(c, status)
        <3> DEFINE row == [status |-> status, by |-> c]
        <3>1. row \in Record /\ row.status = status /\ row.by = c
              /\ record' = [record EXCEPT ![new.store] = row]
            BY <2>2, <2>8 DEF Record, Writes
        <3> HIDE DEF row
        <3>2. CallGood(c, new, row, returned, lapsed')
            BY <2>2, <2>4, <2>5, <3>1 DEF CallGood, Holding
        <3>3. row.status = "SUCCESS" => row.by \in returned
            BY <2>5, <3>1
        <3> QED BY <2>2, <2>3, <2>4, <2>5, <2>6, <3>1, <3>2, <3>3, CallWrites DEF Row
    <2> QED BY <2>4, <2>7, <2>8
<1>12. CASE Expires
    <2>1. /\ record' = [record EXCEPT !["redis"] = Nothing] /\ UNCHANGED <<call, returned>>
          /\ lapsed' = (lapsed \/ record["redis"].status # "FAILED") /\ record["redis"] \in Record
          /\ "redis" \in Store /\ Nothing \in Record /\ Nothing.status = "NONE" /\ lapsed \in BOOLEAN
        BY <1>12 DEF Expires, Store, Record, Nothing, IdemInv
    <2>2. /\ record' \in [Store -> Record] /\ lapsed' \in BOOLEAN
          /\ record'["redis"] = Nothing /\ \A s \in Store \ {"redis"} : record'[s] = record[s]
        BY <2>1 DEF IdemInv
    <2>3. ASSUME NEW c \in Caller PROVE CallGood(c, call[c], record[call[c].store], returned, lapsed)'
        <3>1. CallGood(c, call[c], Row(c), returned, lapsed) /\ call[c].store \in Store
            BY <1>1
        <3>2. CASE call[c].store = "redis"
            <4>1. ~lapsed' => call[c].pc \notin Holding /\ c \notin returned
                <5>1. ~lapsed' => Sound("redis", lapsed) /\ Row(c).status = "FAILED"
                    BY <2>1, <3>2 DEF Sound, Row
                <5> QED BY <3>1, <3>2, <5>1 DEF CallGood, Held
            <4> QED BY <2>1, <3>1, <3>2, <4>1 DEF CallGood, Sound
        <3>3. CASE call[c].store # "redis"
            BY <2>1, <2>2, <3>1, <3>3 DEF CallGood, Sound, Row
        <3> QED BY <3>2, <3>3
    <2> QED BY <2>1, <2>2, <2>3 DEF IdemInv
<1>13. ASSUME NEW h \in Host, HostDies(h) PROVE IdemInv'
    <2>1. /\ UNCHANGED <<record, returned, lapsed>>
          /\ call' = [c \in Caller |-> IF HostOf[c] = h /\ call[c].pc # "new"
                                        THEN [call[c] EXCEPT !.pc = "end"] ELSE call[c]]
        BY <1>13 DEF HostDies
    <2>2. ASSUME NEW c \in Caller
          PROVE  call'[c] \in CallState /\ CallGood(c, call[c], record[call[c].store], returned, lapsed)'
        <3>1. CASE call'[c] = call[c]
            <4>1. record'[call'[c].store] = Row(c) /\ call'[c] \in CallState
                BY <1>1, <2>1, <3>1 DEF Row
            <4>2. CallGood(c, call[c], Row(c), returned, lapsed)
                BY <1>1
            <4>3. returned' = returned /\ lapsed' = lapsed
                BY <2>1
            <4>4. CallGood(c, call'[c], record'[call'[c].store], returned', lapsed')
                BY <3>1, <4>1, <4>2, <4>3
            <4> QED BY <4>1, <4>4 DEF CallGood, Sound, Held
        <3>2. CASE call'[c] = [call[c] EXCEPT !.pc = "end"]
            <4>1. /\ call'[c] \in CallState /\ call'[c].pc = "end" /\ call'[c].store = call[c].store
                  /\ call'[c].got = call[c].got
                BY <1>1, <3>2 DEF CallState
            <4>2. CallGood(c, call[c], Row(c), returned, lapsed)
                BY <1>1
            <4>3. /\ c \in returned /\ call[c].got \in Caller => call[c].got \in returned
                  /\ record'[call'[c].store] = Row(c)
                BY <2>1, <4>1, <4>2 DEF CallGood, Row
            <4> QED BY <2>1, <4>1, <4>2, <4>3 DEF CallGood, Sound, Holding
        <3> QED BY <2>1, <3>1, <3>2
    <2>3. call' \in [Caller -> CallState]
        BY <2>1, <2>2
    <2> QED BY <2>1, <2>2, <2>3 DEF IdemInv
<1>14. CASE UNCHANGED <<record, call, returned, lapsed>>
    BY <1>14 DEF IdemInv, CallGood, Sound
<1> QED
    BY <1>4, <1>5, <1>7, <1>8, <1>9, <1>10, <1>11, <1>12, <1>13, <1>14
       DEF IdemNext, CoolingEnds, RedisChanges

\* Of the calls of a key that share a store the function of at most one returns,
\* and only what a function returned is an answer, for any callers, processes,
\* crashes, outages and lost answers, until a record in use lapses.
THEOREM KeyDoneOnce == Spec => []DoneOnce
<1>1. Init => IdemInv
    <2> SUFFICES ASSUME IdemInit PROVE IdemInv
        BY DEF Init
    <2> DEFINE new == [pc |-> "new", store |-> "redis", saw |-> Nothing, got |-> "nothing"]
    <2>1. new \in CallState /\ new.pc = "new" /\ new.got = "nothing" /\ Nothing.status = "NONE"
          /\ Nothing \in Record
        BY DEF CallState, Store, Record, Nothing
    <2>2. call = [c \in Caller |-> new]
        BY DEF IdemInit
    <2> HIDE DEF new
    <2> QED BY <2>1, <2>2, IdemAssumption DEF IdemInit, IdemInv, CallGood, Holding
<1>2. IdemInv /\ [Next]_vars => IdemInv'
    <2> SUFFICES ASSUME IdemInv, [Next]_vars, UNCHANGED idem PROVE IdemInv'
        BY IdemStep, Apart
    <2> QED BY DEF idem, IdemInv, CallGood, Sound
<1>3. IdemInv => DoneOnce
    <2> SUFFICES ASSUME IdemInv, NEW s \in Store, Sound(s, lapsed)
                 PROVE  /\ Cardinality({c \in returned : call[c].store = s}) <= 1
                        /\ \A c \in Caller : call[c].store = s /\ call[c].got \in Caller =>
                              call[c].got \in returned
        BY DEF DoneOnce, Sound
    <2> DEFINE done == {c \in returned : call[c].store = s}
    <2>1. \A c, d \in done : c = d
        BY DEF IdemInv, CallGood
    <2>2. ASSUME done = {} PROVE Cardinality(done) <= 1
        <3> HIDE DEF done
        <3>1. Cardinality(done) = 0
            BY <2>2, FS_EmptySet
        <3> QED BY <3>1
    <2>3. ASSUME NEW c \in done PROVE Cardinality(done) = 1
        <3>1. done = {c}
            BY <2>1
        <3> HIDE DEF done
        <3> QED BY <3>1, FS_Singleton
    <2> HIDE DEF done
    <2>4. Cardinality(done) <= 1
        BY <2>2, <2>3
    <2> QED BY <2>4 DEF done, IdemInv, CallGood
<1> QED
    BY <1>1, <1>2, <1>3, PTL DEF Spec

-----------------------------------------------------------------------------
(***************************************************************************)
(* Migration                                                               *)
(***************************************************************************)
MoveState == [pc : {"rest", "approvals", "feedback", "audit", "put", "delete", "write", "verify"},
              at : 0 .. Newest, verdict : {"none", "ok", "fail"}]

\* Rows and lines are in the target once, and only what was open is open.
ArrivedInv ==
    /\ DOMAIN approvals = Approvals
    /\ \A a \in Approvals : approvals[a] = "pending" => StatusOf[a] = "pending"
    /\ rows \in [FeedbackRow -> Nat] /\ \A r \in WithUser : rows[r] <= 1
    /\ lines \in [Range(AuditFile) -> Nat] /\ \A l \in Range(AuditFile) : lines[l] <= 1

\* A run puts the newest checkpoint first: what those above it hold is there
\* when it comes to the next.
NewestInv ==
    /\ move \in MoveState /\ warnings \in Nat /\ blobs \in [Versions -> Nat]
    /\ warnings = 0 =>
         /\ \A v \in Versions : blobs[v] # 0 => \A c \in SourceCheckpoint : v \in Blobs[c] => c <= blobs[v]
         /\ move.pc = "put" =>
              \A c \in SourceCheckpoint : c > move.at => \A v \in Blobs[c] : blobs[v] # 0

\* A verdict stands until the next run begins.
VerdictInv ==
    /\ move \in MoveState
    /\ move.verdict = "ok" => move.pc = "rest" /\ RowsFound /\ CheckpointsFound

MigrationInv == ArrivedInv /\ NewestInv /\ VerdictInv

\* How the actions change the run.
LEMMA MoveGoes ==
    ASSUME move \in MoveState
    PROVE  /\ \A pc \in {"feedback", "audit", "put", "delete", "write", "verify"} :
                move' = [move EXCEPT !.pc = pc] =>
                   move' \in MoveState /\ move'.pc = pc /\ move'.at = move.at /\ move'.verdict = move.verdict
           /\ \A pc \in {"rest", "approvals"}, v \in {"none", "ok", "fail"} :
                move' = [pc |-> pc, at |-> 0, verdict |-> v] =>
                   move' \in MoveState /\ move'.pc = pc /\ move'.verdict = v
<1>1. 0 \in 0 .. Newest
    BY MigrationAssumption
<1> QED BY <1>1 DEF MoveState

\* Every step keeps what is said of rows and lines.
LEMMA ArrivedStep ==
    ASSUME MigrationInv, MigrationNext
    PROVE  ArrivedInv'
<1>1. CASE UNCHANGED <<approvals, rows, lines>>
    BY <1>1 DEF MigrationInv, ArrivedInv
<1>2. CASE \E a \in Approvals : PlatformDecides(a)
    BY <1>2 DEF PlatformDecides, MigrationInv, ArrivedInv
<1>3. CASE MigratesApprovals
    BY <1>3 DEF MigratesApprovals, Upserted, MigrationInv, ArrivedInv
<1>4. CASE MigratesFeedback
    <2>1. \A r \in FeedbackRow : rows[r] \in Nat
        BY DEF MigrationInv, ArrivedInv
    <2>2. /\ rows' = [r \in FeedbackRow |-> IF HasRow(r) THEN rows[r] ELSE rows[r] + 1]
          /\ UNCHANGED <<approvals, lines>>
        BY <1>4 DEF MigratesFeedback
    <2>3. rows' \in [FeedbackRow -> Nat]
        BY <2>1, <2>2
    <2>4. \A r \in WithUser : rows'[r] <= 1
        BY <2>1, <2>2, MigrationAssumption DEF HasRow, MigrationInv, ArrivedInv
    <2> QED BY <2>2, <2>3, <2>4 DEF MigrationInv, ArrivedInv
<1>5. CASE MigratesAudit
    <2>1. \A l \in Range(AuditFile) : lines[l] \in Nat /\ lines[l] <= 1
        BY DEF MigrationInv, ArrivedInv
    <2>2. /\ lines' = [l \in Range(AuditFile) |->
                          IF l \in Loaded /\ ~HasLine(l) THEN lines[l] + 1 ELSE lines[l]]
          /\ UNCHANGED <<approvals, rows>>
        BY <1>5 DEF MigratesAudit
    <2>3. lines' \in [Range(AuditFile) -> Nat] /\ \A l \in Range(AuditFile) : lines'[l] <= 1
        BY <2>1, <2>2 DEF HasLine
    <2> QED BY <2>2, <2>3 DEF MigrationInv, ArrivedInv
<1> QED
    BY <1>1, <1>2, <1>3, <1>4, <1>5 DEF MigrationNext, MoveBegins, PutsCheckpoint, PutsDone,
        DeletesWrites, InsertsWrite, Verifies, MoveDies, PlatformResumes

\* Every step keeps what is said of the versions of the blob.
LEMMA NewestStep ==
    ASSUME MigrationInv, MigrationNext
    PROVE  NewestInv'
<1> USE MigrationAssumption
<1>1. /\ move \in MoveState /\ move.at \in 0 .. Newest /\ warnings \in Nat
      /\ blobs \in [Versions -> Nat] /\ \A v \in Versions : blobs[v] \in Nat
    BY DEF MigrationInv, NewestInv, MoveState
<1>2. CASE UNCHANGED <<blobs, warnings>> /\ move' \in MoveState
           /\ (move'.pc = "put" => move.pc = "put" /\ move'.at = move.at)
    BY <1>2 DEF MigrationInv, NewestInv
<1>3. CASE MigratesAudit
    <2>1. move' \in MoveState /\ move'.at = Newest /\ UNCHANGED <<blobs, warnings>>
        <3>1. Newest \in 0 .. Newest
            OBVIOUS
        <3>2. move' = [move EXCEPT !.pc = "put", !.at = Newest] /\ UNCHANGED <<blobs, warnings>>
            BY <1>3 DEF MigratesAudit
        <3> QED BY <1>1, <3>1, <3>2 DEF MoveState
    <2>2. \A c \in SourceCheckpoint : ~(c > Newest)
        BY DEF SourceCheckpoint
    <2> QED BY <2>1, <2>2 DEF MigrationInv, NewestInv
<1>4. CASE PutsCheckpoint
    <2> DEFINE c == move.at
    <2>1. /\ c \in SourceCheckpoint /\ c \in Nat \ {0} /\ move.pc = "put"
          /\ move' \in MoveState /\ move'.at = c - 1 /\ move'.pc = "put"
        BY <1>1, <1>4 DEF PutsCheckpoint, MoveState, SourceCheckpoint
    <2>2. CASE warnings' = warnings + 1 /\ UNCHANGED blobs
        <3>1. warnings' \in Nat /\ warnings' # 0
            BY <1>1, <2>2
        <3> QED BY <2>1, <2>2, <3>1, <1>1 DEF NewestInv
    <2>3. CASE /\ UNCHANGED warnings
               /\ blobs' = [v \in Versions |-> IF v \in Blobs[c] /\ blobs[v] = 0 THEN c ELSE blobs[v]]
        <3>1. blobs' \in [Versions -> Nat]
            BY <1>1, <2>1, <2>3
        <3>2. ASSUME warnings = 0, NEW v \in Versions, blobs'[v] # 0, NEW d \in SourceCheckpoint, v \in Blobs[d]
              PROVE  d <= blobs'[v]
            <4>1. CASE blobs[v] # 0
                BY <2>3, <3>2, <4>1 DEF MigrationInv, NewestInv
            <4>2. CASE blobs[v] = 0
                <5>1. blobs'[v] = c /\ ~(d > c)
                    BY <2>1, <2>3, <3>2, <4>2 DEF MigrationInv, NewestInv
                <5> QED BY <2>1, <5>1 DEF SourceCheckpoint
            <4> QED BY <4>1, <4>2
        <3>3. ASSUME warnings = 0, NEW d \in SourceCheckpoint, d > c - 1, NEW v \in Blobs[d]
              PROVE  blobs'[v] # 0
            <4>1. v \in Versions
                BY DEF Versions
            <4>2. d = c \/ d > c
                BY <2>1, <3>3 DEF SourceCheckpoint
            <4>3. blobs[v] # 0 => blobs'[v] = blobs[v]
                BY <2>3, <4>1
            <4>4. CASE d = c
                BY <2>1, <2>3, <4>1, <4>4
            <4>5. CASE d > c
                BY <2>1, <3>3, <4>3, <4>5 DEF MigrationInv, NewestInv
            <4> QED BY <4>2, <4>4, <4>5
        <3> QED BY <1>1, <2>1, <2>3, <3>1, <3>2, <3>3 DEF NewestInv
    <2> QED BY <1>4, <2>2, <2>3 DEF PutsCheckpoint, Order
<1>5. CASE MoveBegins \/ MigratesApprovals \/ MigratesFeedback \/ PutsDone \/ DeletesWrites
           \/ InsertsWrite \/ Verifies \/ MoveDies
    <2>1. UNCHANGED <<blobs, warnings>>
        BY <1>5 DEF MoveBegins, MigratesApprovals, MigratesFeedback, PutsDone, DeletesWrites,
                    InsertsWrite, Verifies, MoveDies
    <2>2. move' \in MoveState /\ (move'.pc = "put" => move.pc = "put" /\ move'.at = move.at)
        <3>1. CASE MoveBegins \/ MoveDies \/ Verifies
            <4>1. PICK pc \in {"rest", "approvals"}, v \in {"none", "ok", "fail"} :
                    move' = [pc |-> pc, at |-> 0, verdict |-> v]
                BY <3>1 DEF MoveBegins, MoveDies, Verifies
            <4> QED BY <1>1, <4>1, MoveGoes
        <3>2. CASE MigratesApprovals \/ MigratesFeedback \/ PutsDone \/ DeletesWrites \/ InsertsWrite
            <4>1. UNCHANGED move \/ \E pc \in {"feedback", "audit", "delete", "write", "verify"} :
                    move' = [move EXCEPT !.pc = pc]
                BY <3>2 DEF MigratesApprovals, MigratesFeedback, PutsDone, DeletesWrites, InsertsWrite
            <4> QED BY <1>1, <4>1, MoveGoes
        <3> QED BY <1>5, <3>1, <3>2
    <2> QED BY <1>2, <2>1, <2>2
<1>6. CASE PlatformResumes \/ \E a \in Approvals : PlatformDecides(a)
    BY <1>1, <1>2, <1>6 DEF PlatformResumes, PlatformDecides
<1> QED
    BY <1>3, <1>4, <1>5, <1>6 DEF MigrationNext

\* A verdict ok is given only when all has arrived.
LEMMA VerdictStep ==
    ASSUME MigrationInv, MigrationNext
    PROVE  VerdictInv'
<1> USE MigrationAssumption
<1>1. move \in MoveState /\ (move.verdict = "ok" => move.pc = "rest" /\ RowsFound /\ CheckpointsFound)
    BY DEF MigrationInv, VerdictInv
<1>2. move' \in MoveState
    BY NewestStep DEF NewestInv
<1>3. CASE PlatformResumes \/ \E a \in Approvals : PlatformDecides(a)
    <2>1. UNCHANGED move /\ (RowsFound => RowsFound') /\ (CheckpointsFound => CheckpointsFound')
        <3>1. CASE PlatformResumes
            BY <3>1 DEF PlatformResumes, RowsFound, CheckpointsFound
        <3>2. CASE \E a \in Approvals : PlatformDecides(a)
            BY <3>2 DEF PlatformDecides, RowsFound, CheckpointsFound, MigrationInv, ArrivedInv
        <3> QED BY <1>3, <3>1, <3>2
    <2> QED BY <1>1, <1>2, <2>1 DEF VerdictInv
<1>4. CASE Verifies
    <2>1. /\ UNCHANGED <<approvals, rows, lines, puts, writes>>
          /\ move'.pc = "rest" /\ (move'.verdict = "ok" => RowsFound /\ CheckpointsFound)
        BY <1>4 DEF Verifies
    <2> QED BY <1>2, <2>1 DEF VerdictInv, RowsFound, CheckpointsFound
<1>5. CASE move'.verdict # "ok"
    BY <1>2, <1>5 DEF VerdictInv
<1>6. CASE MoveBegins \/ MoveDies
    BY <1>5, <1>6 DEF MoveBegins, MoveDies
<1>7. CASE MigratesApprovals \/ MigratesFeedback \/ MigratesAudit \/ PutsCheckpoint \/ PutsDone
           \/ DeletesWrites \/ InsertsWrite
    <2>1. move.pc # "rest" /\ move'.verdict = move.verdict
        BY <1>1, <1>7 DEF MigratesApprovals, MigratesFeedback, MigratesAudit, PutsCheckpoint, PutsDone,
                    DeletesWrites, InsertsWrite, MoveState
    <2> QED BY <1>1, <1>5, <2>1
<1> QED BY <1>3, <1>4, <1>6, <1>7 DEF MigrationNext

\* However often the move is run and wherever its runs died: nothing that can be
\* told apart arrives twice, no decision is undone to open, a verdict "ok" is
\* true, and channel versions have the value of the newest checkpoint.
THEOREM Arrives == Spec => []ArrivesOnceAndNewest
<1>1. Init => MigrationInv
    <2> SUFFICES ASSUME MigrationInit PROVE MigrationInv
        BY DEF Init
    <2>1. move \in MoveState /\ move.pc = "rest" /\ move.verdict = "none"
        BY MigrationAssumption DEF MigrationInit, MoveState
    <2>2. ArrivedInv
        BY MigrationAssumption DEF MigrationInit, ArrivedInv
    <2>3. NewestInv
        BY <2>1 DEF MigrationInit, NewestInv
    <2> QED BY <2>1, <2>2, <2>3 DEF MigrationInv, VerdictInv
<1>2. MigrationInv /\ [Next]_vars => MigrationInv'
    <2> SUFFICES ASSUME MigrationInv, [Next]_vars, UNCHANGED migration PROVE MigrationInv'
        BY ArrivedStep, NewestStep, VerdictStep, Apart DEF MigrationInv
    <2> QED BY DEF migration, MigrationInv, ArrivedInv, NewestInv, VerdictInv, RowsFound, CheckpointsFound
<1>3. MigrationInv => ArrivesOnceAndNewest
    <2> SUFFICES ASSUME MigrationInv PROVE ArrivesOnceAndNewest
        OBVIOUS
    <2>1. Loaded \subseteq Range(AuditFile)
        BY DEF Loaded, Range
    <2>2. \A r \in FeedbackRow : rows[r] > 0 => rows[r] >= 1
        BY DEF MigrationInv, ArrivedInv
    <2>3. \A l \in Loaded : lines[l] > 0 => lines[l] = 1
        BY <2>1 DEF MigrationInv, ArrivedInv
    <2>4. SourceWrites \subseteq writes => \A c \in SourceCheckpoint : {c} \X WritesOf[c] \subseteq writes
        BY DEF SourceWrites
    <2>5. warnings = 0 => \A v \in Versions : blobs[v] # 0 =>
            \A c \in SourceCheckpoint : v \in Blobs[c] => c <= blobs[v]
        BY DEF MigrationInv, NewestInv
    <2>6. move.verdict = "ok" => RowsFound /\ CheckpointsFound
        BY DEF MigrationInv, VerdictInv
    <2> QED BY <2>2, <2>3, <2>4, <2>5, <2>6
            DEF MigrationInv, ArrivedInv, ArrivesOnceAndNewest, RowsFound, CheckpointsFound
<1> QED
    BY <1>1, <1>2, <1>3, PTL DEF Spec

-----------------------------------------------------------------------------
(***************************************************************************)
(* Tokens                                                                  *)
(***************************************************************************)
Live(p) == <<"refresh", p>> \notin revoked

\* A login has at most one live pair or one refresh that is about to issue one,
\* never both.
TokensInv ==
    /\ TokensTypeOK
    /\ \A r \in Request : request[r].pc # "rest" => request[r].pair \in Given
    /\ OneLiveRefresh
    /\ \A r \in Request : request[r].pc = "issue" =>
         \A p \in Given : pair[p] = pair[request[r].pair] => ~Live(p)
    /\ \A r, s \in Request :
         /\ request[r].pc = "issue" /\ request[s].pc = "issue"
         /\ pair[request[r].pair] = pair[request[s].pair]
         => r = s

\* A new pair has the next number.
LEMMA GivenNext ==
    ASSUME TokensTypeOK, NextPair \in Pair, NEW l \in Login, Give(l)
    PROVE  /\ NextPair \notin Given /\ Given' = Given \cup {NextPair}
           /\ Given' \in {1 .. n : n \in 0 .. MaxPair} /\ pair' \in [Given' -> Login]
           /\ pair'[NextPair] = l /\ \A p \in Given : pair'[p] = pair[p]
<1>1. PICK n \in 0 .. MaxPair : Given = 1 .. n
    BY DEF TokensTypeOK
<1>2. NextPair = n + 1
    <2>1. n \in Nat /\ Cardinality(1 .. n) = n
        BY FS_Interval, TokensAssumption
    <2> QED BY <1>1, <2>1 DEF NextPair
<1>3. /\ Given' = Given \cup {NextPair} /\ pair' \in [Given' -> Login]
      /\ pair'[NextPair] = l /\ \A p \in Given : p # NextPair => pair'[p] = pair[p]
    BY DEF Give, TokensTypeOK, Given
<1>4. Given' = 1 .. n + 1 /\ n + 1 \in 0 .. MaxPair
    BY <1>1, <1>2, <1>3, TokensAssumption DEF Pair
<1>5. NextPair \notin Given
    BY <1>1, <1>2, TokensAssumption
<1> QED BY <1>3, <1>4, <1>5

\* A request ends, and perhaps a token is revoked.
LEMMA RequestOver ==
    ASSUME TokensInv, NEW r \in Request, RequestEnds(r), UNCHANGED pair,
           revoked \subseteq revoked', revoked' \subseteq {"access", "refresh"} \X Given
    PROVE  TokensInv'
<1>1. /\ request' \in [Request -> RequestState] /\ request'[r] = AtRest
      /\ \A s \in Request : s # r => request'[s] = request[s]
    <2>1. AtRest \in RequestState
        BY TokensAssumption DEF AtRest, RequestState
    <2> QED BY <2>1 DEF TokensInv, TokensTypeOK, RequestEnds
<1>2. Given' = Given /\ pair' = pair
    BY DEF Given
<1>3. TokensTypeOK'
    BY <1>1, <1>2 DEF TokensInv, TokensTypeOK
<1>4. \A p \in Given : ~Live(p) => ~Live(p)'
    BY DEF Live
<1>5. OneLiveRefresh'
    BY <1>2 DEF TokensInv, OneLiveRefresh
<1> QED BY <1>1, <1>2, <1>3, <1>4, <1>5 DEF TokensInv, AtRest

\* Every step of a request keeps it.
LEMMA TokensStep ==
    ASSUME TokensInv, TokensNext
    PROVE  TokensInv'
<1> USE DEF TokensInv
<1>1. ASSUME NEW l \in Login, LogIn(l) PROVE TokensInv'
    <2>1. /\ NextPair \notin Given /\ Given' = Given \cup {NextPair}
          /\ Given' \in {1 .. n : n \in 0 .. MaxPair} /\ pair' \in [Given' -> Login]
          /\ pair'[NextPair] = l /\ (\A p \in Given : pair'[p] = pair[p] /\ pair[p] # l)
          /\ UNCHANGED <<revoked, request>>
        BY <1>1, GivenNext DEF LogIn
    <2>2. TokensTypeOK'
        BY <2>1 DEF TokensTypeOK
    <2>3. OneLiveRefresh'
        BY <2>1 DEF OneLiveRefresh
    <2> QED BY <2>1, <2>2, <2>3 DEF Live
<1>2. ASSUME NEW r \in Request, NEW p \in Given, RefreshBegins(r, p) \/ LogOutBegins(r, p)
      PROVE  TokensInv'
    <2>1. /\ UNCHANGED <<pair, revoked>> /\ Given' = Given
          /\ request'[r].pair = p /\ request'[r].pc \in {"revoke", "logout"}
          /\ \A s \in Request : s # r => request'[s] = request[s]
        BY <1>2 DEF RefreshBegins, LogOutBegins, Step, TokensTypeOK, Given
    <2>2. p \in 0 .. MaxPair
        BY TokensAssumption DEF TokensTypeOK
    <2>3. TokensTypeOK'
        <3>1. /\ [pc |-> "revoke", pair |-> p] \in RequestState
              /\ [pc |-> "logout", pair |-> p] \in RequestState
            BY <2>2 DEF RequestState
        <3>2. request' \in [Request -> RequestState]
            BY <1>2, <3>1 DEF RefreshBegins, LogOutBegins, Step, TokensTypeOK
        <3> QED BY <2>1, <3>2 DEF TokensTypeOK
    <2>4. OneLiveRefresh'
        BY <2>1 DEF OneLiveRefresh
    <2> QED BY <2>1, <2>3, <2>4 DEF Live
<1>3. ASSUME NEW r \in Request, RefreshRevokes(r) PROVE TokensInv'
    <2> DEFINE p == request[r].pair
    <2>1. /\ UNCHANGED pair /\ Given' = Given /\ p \in Given
          /\ Live(p) /\ revoked' = revoked \cup {<<"refresh", p>>}
          /\ request'[r].pair = p /\ request'[r].pc = "issue"
          /\ \A s \in Request : s # r => request'[s] = request[s]
        BY <1>3 DEF RefreshRevokes, Revokes, Step, TokensTypeOK, Given, Live
    <2>2. p \in 0 .. MaxPair
        BY <2>1, TokensAssumption DEF TokensTypeOK
    <2>3. TokensTypeOK'
        BY <1>3, <2>1, <2>2 DEF RefreshRevokes, Step, TokensTypeOK, RequestState
    <2>4. OneLiveRefresh'
        BY <2>1 DEF OneLiveRefresh
    <2>5. \A q \in Given : Live(q)' <=> Live(q) /\ q # p
        BY <2>1 DEF Live
    <2>6. \A s \in Request : s # r /\ request[s].pc = "issue" => pair[request[s].pair] # pair[p]
        BY <2>1
    <2> HIDE DEF p
    <2>7. \A s \in Request : request'[s].pc = "issue" =>
             \A q \in Given' : pair'[q] = pair'[request'[s].pair] => ~Live(q)'
        BY <2>1, <2>5 DEF OneLiveRefresh, Live
    <2> QED BY <2>1, <2>3, <2>4, <2>6, <2>7
<1>4. ASSUME NEW r \in Request, RefreshIssues(r) PROVE TokensInv'
    <2>1. PICK l \in Login : l = pair[request[r].pair] /\ Give(l) /\ request[r].pc = "issue"
        BY <1>4 DEF RefreshIssues, TokensTypeOK
    <2>2. /\ NextPair \notin Given /\ Given' = Given \cup {NextPair}
          /\ Given' \in {1 .. n : n \in 0 .. MaxPair} /\ pair' \in [Given' -> Login]
          /\ pair'[NextPair] = l /\ (\A p \in Given : pair'[p] = pair[p])
          /\ UNCHANGED revoked
        BY <1>4, <2>1, GivenNext DEF RefreshIssues
    <2>3. /\ request' \in [Request -> RequestState] /\ request'[r].pc = "rest"
          /\ \A s \in Request : s # r => request'[s] = request[s]
        <3>1. AtRest \in RequestState /\ AtRest.pc = "rest"
            BY TokensAssumption DEF AtRest, RequestState
        <3> QED BY <3>1, <1>4 DEF TokensTypeOK, RefreshIssues, RequestEnds
    <2>4. TokensTypeOK'
        BY <2>2, <2>3 DEF TokensTypeOK
    <2>5. \A p \in Given : pair[p] = l => ~Live(p)
        BY <2>1
    <2>6. OneLiveRefresh'
        BY <2>2, <2>5 DEF OneLiveRefresh, Live
    <2>7. \A s \in Request : request'[s].pc = "issue" =>
             /\ request'[s] = request[s] /\ request[s].pair \in Given
             /\ pair[request[s].pair] # l
        BY <2>1, <2>3
    <2>8. \A s \in Request : request'[s].pc = "issue" =>
             \A q \in Given' : pair'[q] = pair'[request'[s].pair] => ~Live(q)'
        BY <2>2, <2>7 DEF Live
    <2> QED BY <2>2, <2>3, <2>4, <2>6, <2>7, <2>8
<1>5. ASSUME NEW r \in Request, LogOutRevokes(r) \/ RequestFails(r) PROVE TokensInv'
    <2>1. /\ RequestEnds(r) /\ UNCHANGED pair
          /\ \/ UNCHANGED revoked
             \/ request[r].pair \in Given /\ revoked' = revoked \cup {<<"access", request[r].pair>>}
        BY <1>5 DEF LogOutRevokes, RequestFails, Revokes
    <2>2. revoked \subseteq revoked' /\ revoked' \subseteq {"access", "refresh"} \X Given
        BY <2>1 DEF TokensTypeOK
    <2> QED BY <2>1, <2>2, RequestOver
<1> QED
    BY <1>1, <1>2, <1>3, <1>4, <1>5 DEF TokensNext

\* Of every login at most one refresh token is good at a time, however refreshes
\* and logouts overlap and fail.
THEOREM RefreshRotates == Spec => []OneLiveRefresh
<1>1. Init => TokensInv
    <2> SUFFICES ASSUME TokensInit PROVE TokensInv
        BY DEF Init
    <2>1. Given = {} /\ Given = 1 .. 0 /\ pair \in [Given -> Login]
        BY DEF TokensInit, Given
    <2>2. AtRest \in RequestState /\ AtRest.pc = "rest"
        BY TokensAssumption DEF AtRest, RequestState
    <2>3. 0 \in 0 .. MaxPair
        BY TokensAssumption
    <2> QED BY <2>1, <2>2, <2>3 DEF TokensInit, TokensInv, TokensTypeOK, OneLiveRefresh
<1>2. TokensInv /\ [Next]_vars => TokensInv'
    <2> SUFFICES ASSUME TokensInv, [Next]_vars, UNCHANGED tokens PROVE TokensInv'
        BY TokensStep, Apart
    <2> QED BY DEF tokens, TokensInv, TokensTypeOK, OneLiveRefresh, Live, Given
<1>3. TokensInv => OneLiveRefresh
    BY DEF TokensInv
<1> QED
    BY <1>1, <1>2, <1>3, PTL DEF Spec

-----------------------------------------------------------------------------
(***************************************************************************)
(* ApiKeys                                                                 *)
(***************************************************************************)
BucketState == [tokens : 0 .. Capacity, stamp : 0 .. MaxTime + 1]

ClientState == [pc : {"rest", "ask", "in", "eval", "wait"}, key : Key \cup {"none"},
                attempt : Nat, wait : Int, at : Nat]

\* What a bucket gave and still has is no more than it was given until the
\* time it is at, and for the ticks it was set back by.
BucketInv ==
    /\ now \in Time /\ granted \in [Key -> Nat] /\ rewound \in [Key -> Nat]
    /\ bucket \in [Key -> BucketState]
    /\ client \in [Client -> ClientState]
    /\ \A c \in Client : client[c].at <= now /\ (client[c].pc # "rest" => client[c].key \in Key)
    /\ \A k \in Key :
         IF bucket[k] = Unset THEN granted[k] = 0
         ELSE /\ bucket[k].stamp <= now
              /\ granted[k] * Unit + bucket[k].tokens
                    <= Capacity + Refill * (bucket[k].stamp + rewound[k])

\* Filling a bucket gives it no more than what time refilled, the ticks it is
\* set back by included.
LEMMA FilledBound ==
    ASSUME BucketInv, NEW k \in Key, NEW at \in Nat, at <= now
    PROVE  /\ Filled(k, at) \in 0 .. Capacity
           /\ granted[k] * Unit + Filled(k, at) <= Capacity + Refill * (at + (rewound[k] + Back(k, at)))
           /\ Back(k, at) \in Nat
<1> USE KeysAssumption
<1> DEFINE gone == IF bucket[k] = Unset \/ at < bucket[k].stamp THEN 0 ELSE at - bucket[k].stamp
           r == rewound[k]
           st == bucket[k].stamp
           tok == bucket[k].tokens
           gr == granted[k] * Unit
<1>1. /\ gone \in Nat /\ granted[k] \in Nat /\ tok \in 0 .. Capacity /\ r \in Nat /\ st \in Nat
    BY DEF BucketInv, BucketState, Time
<1>2. gone * Refill \in Nat /\ gr \in Nat
    BY <1>1
<1>3. Filled(k, at) = Least(Capacity, tok + gone * Refill)
    BY DEF Filled
<1>4. Back(k, at) \in Nat
    BY <1>1 DEF Back
<1>5. CASE bucket[k] = Unset
    <2>1. gr = 0
        BY <1>5 DEF BucketInv
    <2>2. Refill * (at + (r + Back(k, at))) \in Nat
        BY <1>1, <1>4
    <2> HIDE DEF gone, r, st, tok, gr
    <2>3. Filled(k, at) \in 0 .. Capacity
        BY <1>1, <1>2, <1>3 DEF Least
    <2> QED BY <1>4, <2>1, <2>2, <2>3 DEF gr, r
<1>6. CASE bucket[k] # Unset
    <2>1. gr + tok <= Capacity + Refill * (st + r)
        BY <1>6 DEF BucketInv
    <2>2. gone + (st + r) = at + (r + Back(k, at))
        <3>1. CASE at < st
            BY <1>1, <1>6, <3>1 DEF Back
        <3>2. CASE ~(at < st)
            BY <1>1, <1>6, <3>2 DEF Back
        <3> QED BY <3>1, <3>2
    <2>3. gone * Refill + Refill * (st + r) = Refill * (at + (r + Back(k, at)))
        <3>1. \A a, b, c \in Int : a * c + c * b = c * (a + b)
            OBVIOUS
        <3>2. st + r \in Int /\ Refill \in Int /\ gone \in Int
            BY <1>1
        <3> HIDE DEF gone, st, r
        <3>3. gone * Refill + Refill * (st + r) = Refill * (gone + (st + r))
            BY <3>1, <3>2
        <3> QED BY <2>2, <3>3
    <2>4. Refill * (st + r) \in Nat
        BY <1>1
    <2> HIDE DEF gone, r, st, tok, gr
    <2>5. /\ Filled(k, at) \in 0 .. Capacity
          /\ Filled(k, at) <= tok + gone * Refill
        BY <1>1, <1>2, <1>3 DEF Least
    <2>6. gr + Filled(k, at) <= Capacity + Refill * (at + (r + Back(k, at)))
        BY <1>1, <1>2, <2>1, <2>3, <2>4, <2>5
    <2> QED BY <1>4, <2>5, <2>6 DEF gr, r
<1> QED BY <1>5, <1>6

\* What the steps of a client leave in place of its state.
ClientTo(c, new) ==
    /\ new \in ClientState /\ new.at <= now /\ (new.pc # "rest" => new.key \in Key)
    /\ client' = [client EXCEPT ![c] = new]

\* The steps of a client.
ClientPasses(c, pc) == client[c].pc # "rest" /\ client' = [client EXCEPT ![c].pc = pc]
ClientReads(c) == client[c].pc # "rest" /\ client' = [client EXCEPT ![c].pc = "eval", ![c].at = now]
ClientBegins(c, k) == client' = [client EXCEPT ![c] = [pc |-> "ask", key |-> k, attempt |-> 0, wait |-> 0, at |-> 0]]
ClientMoves(c) ==
    \/ ClientDone(c) \/ ClientReads(c)
    \/ client[c].pc # "rest" /\ \E wait \in Int : RetryOrRaise(c, wait)
    \/ \E pc \in {"ask", "in"} : ClientPasses(c, pc)
    \/ \E k \in Key : ClientBegins(c, k)

\* A client that moves on holds a key, and a time that has been.
LEMMA ClientStep ==
    ASSUME BucketInv, NEW c \in Client, ClientMoves(c)
    PROVE  \E new : ClientTo(c, new)
<1>1. now \in Nat
    BY KeysAssumption DEF BucketInv, Time
<1>2. /\ client \in [Client -> ClientState] /\ client[c] \in ClientState /\ client[c].at <= now
      /\ client[c].pc # "rest" => client[c].key \in Key
    BY DEF BucketInv
<1>3. ASSUME ClientDone(c) PROVE ClientTo(c, NoRequest)
    BY <1>1, <1>3 DEF ClientDone, NoRequest, ClientState, ClientTo
<1>4. ASSUME NEW wait \in Int, RetryOrRaise(c, wait), ~ClientDone(c), client[c].pc # "rest"
      PROVE  \E new : ClientTo(c, new)
    <2> DEFINE old == client[c]
               new == [pc |-> "wait", key |-> old.key, wait |-> wait, attempt |-> old.attempt + 1, at |-> 0]
    <2>1. old \in ClientState /\ old.attempt \in Nat /\ old.key \in Key \cup {"none"}
        BY <1>2 DEF ClientState
    <2>2. client' = [client EXCEPT ![c] = new]
        BY <1>4 DEF RetryOrRaise
    <2> HIDE DEF old
    <2>3. new \in ClientState /\ new.at = 0 /\ new.key = old.key
        BY <1>4, <2>1 DEF ClientState
    <2> HIDE DEF new
    <2>4. ClientTo(c, new)
        BY <1>1, <1>2, <1>4, <2>2, <2>3 DEF ClientTo, old
    <2> QED BY <2>4
<1>5. ASSUME NEW k \in Key, ClientBegins(c, k)
      PROVE  \E new : ClientTo(c, new)
    <2> DEFINE new == [pc |-> "ask", key |-> k, attempt |-> 0, wait |-> 0, at |-> 0]
    <2>1. new \in ClientState /\ new.at = 0 /\ new.key = k
        BY DEF ClientState
    <2>2. client' = [client EXCEPT ![c] = new]
        BY <1>5 DEF ClientBegins
    <2> HIDE DEF new
    <2>3. ClientTo(c, new)
        BY <1>1, <2>1, <2>2 DEF ClientTo
    <2> QED BY <2>3
<1>6. ASSUME NEW pc \in {"ask", "in"}, ClientPasses(c, pc)
      PROVE  \E new : ClientTo(c, new)
    <2> DEFINE new == [client[c] EXCEPT !.pc = pc]
    <2>1. new \in ClientState /\ new.at = client[c].at /\ new.key = client[c].key
        BY <1>2 DEF ClientState
    <2>2. client' = [client EXCEPT ![c] = new] /\ client[c].pc # "rest"
        BY <1>2, <1>6 DEF ClientPasses
    <2> HIDE DEF new
    <2>3. ClientTo(c, new)
        BY <1>2, <2>1, <2>2 DEF ClientTo
    <2> QED BY <2>3
<1>7. ASSUME ClientReads(c)
      PROVE  \E new : ClientTo(c, new)
    <2> DEFINE new == [client[c] EXCEPT !.pc = "eval", !.at = now]
    <2>1. new \in ClientState /\ new.at = now /\ new.key = client[c].key
        BY <1>1, <1>2 DEF ClientState
    <2>2. client' = [client EXCEPT ![c] = new] /\ client[c].pc # "rest"
        BY <1>2, <1>7 DEF ClientReads
    <2> HIDE DEF new
    <2>3. ClientTo(c, new)
        BY <1>1, <1>2, <2>1, <2>2 DEF ClientTo
    <2> QED BY <2>3
<1> QED BY <1>3, <1>4, <1>5, <1>6, <1>7 DEF ClientMoves

\* The script takes at most what the bucket holds.
LEMMA TakesBucket ==
    ASSUME BucketInv, NEW c \in Client, TakesToken(c)
    PROVE  /\ granted' \in [Key -> Nat] /\ rewound' \in [Key -> Nat] /\ bucket' \in [Key -> BucketState]
           /\ \A k \in Key :
                IF bucket'[k] = Unset THEN granted'[k] = 0
                ELSE /\ bucket'[k].stamp <= now'
                     /\ granted'[k] * Unit + bucket'[k].tokens
                           <= Capacity + Refill * (bucket'[k].stamp + rewound'[k])
<1> USE KeysAssumption
<1> DEFINE k == client[c].key
           at == client[c].at
<1>1. at \in Nat /\ at <= now /\ now \in Time /\ now' = now /\ now \in 0 .. MaxTime
    BY DEF BucketInv, ClientState, TakesToken, Time
<1>2. k \in Key
    BY DEF BucketInv, TakesToken
<1>3. ASSUME k \in Key
      PROVE  /\ granted' \in [Key -> Nat] /\ rewound' \in [Key -> Nat] /\ bucket' \in [Key -> BucketState]
             /\ \A j \in Key :
                IF bucket'[j] = Unset THEN granted'[j] = 0
                ELSE /\ bucket'[j].stamp <= now'
                     /\ granted'[j] * Unit + bucket'[j].tokens
                           <= Capacity + Refill * (bucket'[j].stamp + rewound'[j])
    <2> DEFINE w == rewound[k] + Back(k, at)
               full == Filled(k, at)
    <2>1. /\ full \in 0 .. Capacity
          /\ granted[k] * Unit + full <= Capacity + Refill * (at + w)
          /\ granted[k] \in Nat /\ Back(k, at) \in Nat /\ rewound[k] \in Nat
        BY <1>1, <1>3, FilledBound DEF BucketInv
    <2>2. \E give \in {0, 1} :
            /\ give * Unit <= full
            /\ bucket' = [bucket EXCEPT ![k] = [tokens |-> full - give * Unit, stamp |-> at]]
            /\ granted' = [granted EXCEPT ![k] = @ + give]
        <3>1. CASE /\ full >= Unit
                   /\ bucket' = [bucket EXCEPT ![k] = [tokens |-> full - Unit, stamp |-> at]]
                   /\ granted' = [granted EXCEPT ![k] = @ + 1]
            <4>1. 1 * Unit <= full /\ full - 1 * Unit = full - Unit
                BY <2>1, <3>1
            <4> HIDE DEF full
            <4> QED BY <3>1, <4>1
        <3>2. CASE /\ bucket' = [bucket EXCEPT ![k] = Denied(k, at)] /\ UNCHANGED granted
            <4>1. 0 * Unit <= full /\ full - 0 * Unit = full
                BY <2>1
            <4>2. granted' = [granted EXCEPT ![k] = @ + 0]
                BY <2>1, <3>2 DEF BucketInv
            <4>3. bucket' = [bucket EXCEPT ![k] = [tokens |-> full, stamp |-> at]]
                BY <3>2 DEF Denied
            <4> HIDE DEF full
            <4> QED BY <4>1, <4>2, <4>3
        <3> QED BY <1>3, <3>1, <3>2 DEF TakesToken
    <2>3. PICK give \in {0, 1} :
            /\ give * Unit <= full
            /\ bucket' = [bucket EXCEPT ![k] = [tokens |-> full - give * Unit, stamp |-> at]]
            /\ granted' = [granted EXCEPT ![k] = @ + give]
        BY <2>2
    <2>4. rewound' = [rewound EXCEPT ![k] = w]
        BY DEF TakesToken
    <2> HIDE DEF full, w
    <2>5. /\ full - give * Unit \in 0 .. Capacity
          /\ (granted[k] + give) * Unit = granted[k] * Unit + give * Unit
          /\ give * Unit \in Nat /\ granted[k] * Unit \in Nat
        BY <2>1, <2>3
    <2> DEFINE new == [tokens |-> full - give * Unit, stamp |-> at]
    <2>6. new \in BucketState /\ new # Unset /\ new.stamp = at /\ new.tokens = full - give * Unit
        BY <1>1, <2>5 DEF BucketState, Unset
    <2>7. w \in Nat
        BY <2>1 DEF w
    <2>8. (granted[k] + give) * Unit + new.tokens <= Capacity + Refill * (at + w)
        <3>1. Refill * (at + w) \in Nat
            BY <1>1, <2>7
        <3> QED BY <2>1, <2>5, <2>6, <3>1
    <2>9. bucket' = [bucket EXCEPT ![k] = new]
        BY <2>3
    <2> HIDE DEF new, k, at
    <2>10. /\ bucket' \in [Key -> BucketState] /\ granted' \in [Key -> Nat] /\ rewound' \in [Key -> Nat]
           /\ bucket'[k] = new /\ granted'[k] = granted[k] + give /\ rewound'[k] = w
           /\ \A j \in Key \ {k} :
                bucket'[j] = bucket[j] /\ granted'[j] = granted[j] /\ rewound'[j] = rewound[j]
        BY <1>3, <2>3, <2>4, <2>6, <2>7, <2>9 DEF BucketInv
    <2>11. /\ bucket'[k] # Unset /\ bucket'[k].stamp <= now'
           /\ granted'[k] * Unit + bucket'[k].tokens <= Capacity + Refill * (bucket'[k].stamp + rewound'[k])
        <3>1. bucket'[k] # Unset /\ bucket'[k].stamp = at /\ rewound'[k] = w
            BY <2>6, <2>10
        <3>2. granted'[k] * Unit + bucket'[k].tokens = (granted[k] + give) * Unit + new.tokens
            BY <2>10, ZenonT(20)
        <3>3. Refill * (bucket'[k].stamp + rewound'[k]) = Refill * (at + w)
            BY <3>1
        <3> QED BY ONLY <1>1, <2>8, <3>1, <3>2, <3>3
    <2>12. \A j \in Key \ {k} :
             IF bucket'[j] = Unset THEN granted'[j] = 0
             ELSE /\ bucket'[j].stamp <= now'
                  /\ granted'[j] * Unit + bucket'[j].tokens
                        <= Capacity + Refill * (bucket'[j].stamp + rewound'[j])
        BY <1>1, <2>10 DEF BucketInv
    <2> QED BY <2>10, <2>11, <2>12
<1> QED BY <1>2, <1>3

\* Every step keeps it.
LEMMA BucketStep ==
    ASSUME BucketInv, KeysNext
    PROVE  BucketInv'
<1> USE KeysAssumption
<1>1. ASSUME NEW c \in Client, NEW new, ClientTo(c, new), now' = now
      PROVE  /\ client' \in [Client -> ClientState]
             /\ \A d \in Client : client'[d].at <= now' /\ (client'[d].pc # "rest" => client'[d].key \in Key)
    <2>1. /\ new \in ClientState /\ new.at <= now /\ client' = [client EXCEPT ![c] = new]
          /\ new.pc # "rest" => new.key \in Key
        BY <1>1 DEF ClientTo
    <2> QED BY <1>1, <2>1 DEF BucketInv
<1>2. ASSUME NEW c \in Client, TakesToken(c) PROVE BucketInv'
    <2>1. client[c].pc # "rest" /\ client[c].key \in Key /\ now' = now /\ now \in Time
        BY <1>2 DEF TakesToken, BucketInv
    <2>2. RetryAfter(client[c].key, client[c].at) \in Int
        <3>1. Filled(client[c].key, client[c].at) \in Int
            BY <2>1, FilledBound DEF BucketInv, ClientState, Time
        <3>2. \A a \in Int : CeilDiv(a, Refill) \in Int
            BY DEF CeilDiv
        <3> QED BY <3>1, <3>2 DEF RetryAfter
    <2>3. ClientDone(c) \/ \E wait \in Int : RetryOrRaise(c, wait)
        <3>1. ClientDone(c) \/ RetryOrRaise(c, 1) \/ RetryOrRaise(c, RetryAfter(client[c].key, client[c].at))
            BY <1>2 DEF TakesToken
        <3> QED BY <2>2, <3>1
    <2>4. PICK new : ClientTo(c, new)
        BY <2>1, <2>3, ClientStep DEF ClientMoves
    <2>5. /\ client' \in [Client -> ClientState]
          /\ \A d \in Client : client'[d].at <= now' /\ (client'[d].pc # "rest" => client'[d].key \in Key)
        BY <1>1, <2>1, <2>4
    <2> QED BY <1>2, <2>1, <2>5, TakesBucket DEF BucketInv
<1>3. ASSUME NEW c \in Client,
             Gate(c) \/ Attempt(c) \/ ClientWakes(c) \/ \E k \in Key : ClientAsks(c, k)
      PROVE  BucketInv'
    <2>1. /\ UNCHANGED <<now, bucket, granted, rewound>>
          /\ (Gate(c) \/ Attempt(c) \/ ClientWakes(c) => client[c].pc # "rest")
        BY <1>3 DEF Gate, Attempt, ClientWakes, ClientAsks
    <2>2. PICK new : ClientTo(c, new)
        <3>1. CASE Gate(c)
            <4>1. ClientDone(c) \/ RetryOrRaise(c, 1) \/ ClientPasses(c, "in")
                BY <3>1 DEF Gate, ClientPasses
            <4>2. ClientMoves(c)
                BY <2>1, <3>1, <4>1 DEF ClientMoves
            <4> QED BY <4>2, ClientStep
        <3>2. CASE Attempt(c)
            <4>1. ClientDone(c) \/ RetryOrRaise(c, 1) \/ ClientReads(c)
                BY <3>2 DEF Attempt, ClientReads
            <4>2. ClientMoves(c)
                BY <2>1, <3>2, <4>1 DEF ClientMoves
            <4> QED BY <4>2, ClientStep
        <3>3. CASE ClientWakes(c)
            <4>1. ClientPasses(c, "ask")
                BY <3>3 DEF ClientWakes, ClientPasses
            <4> QED BY <4>1, ClientStep DEF ClientMoves
        <3>4. CASE \E k \in Key : ClientAsks(c, k)
            <4>1. \E k \in Key : ClientBegins(c, k)
                BY <3>4 DEF ClientAsks, ClientBegins
            <4> QED BY <4>1, ClientStep DEF ClientMoves
        <3> QED BY <1>3, <3>1, <3>2, <3>3, <3>4
    <2> QED BY <1>1, <2>1, <2>2 DEF BucketInv
<1>4. CASE Tick
    <2>1. /\ now \in Time /\ now' \in Time /\ now <= now' /\ UNCHANGED <<bucket, granted, rewound>>
        BY <1>4 DEF Tick, BucketInv, Time
    <2>2. \A k \in Key : bucket[k].stamp <= now => bucket[k].stamp <= now'
        BY <2>1 DEF BucketInv, BucketState, Time
    <2>3. /\ client' \in [Client -> ClientState]
          /\ \A c \in Client : /\ client'[c].at = client[c].at /\ client'[c].pc = client[c].pc
                               /\ client'[c].key = client[c].key
        BY <1>4 DEF Tick, BucketInv, ClientState
    <2>4. \A c \in Client : client'[c].at <= now' /\ (client'[c].pc # "rest" => client'[c].key \in Key)
        BY <2>1, <2>3 DEF BucketInv, ClientState, Time
    <2> QED BY <2>1, <2>2, <2>3, <2>4 DEF BucketInv
<1>5. CASE UNCHANGED <<now, bucket, granted, rewound, client>>
    BY <1>5 DEF BucketInv
<1> QED
    BY <1>2, <1>3, <1>4, <1>5 DEF KeysNext, CreateKey, RevokeKey,
        CallFromCache, CallQueries, CallReads, CallStores, CallResolves, CallBegins

\* No bucket lets through more than its capacity and the refill of the time
\* gone by, and of the ticks late scripts set it back by, for every size of a
\* token, every rate and any number of clients.
THEOREM BucketLimits == Spec => []BucketBound
<1>1. Init => BucketInv
    <2> SUFFICES ASSUME KeysInit PROVE BucketInv
        BY DEF Init
    <2>1. Unset \in BucketState /\ NoRequest \in ClientState /\ NoRequest.at = 0 /\ NoRequest.pc = "rest"
        BY KeysAssumption DEF Unset, BucketState, NoRequest, ClientState
    <2> QED BY <2>1, KeysAssumption DEF KeysInit, BucketInv, Time
<1>2. BucketInv /\ [Next]_vars => BucketInv'
    <2> SUFFICES ASSUME BucketInv, [Next]_vars, UNCHANGED keys PROVE BucketInv'
        BY BucketStep, Apart
    <2> QED BY DEF keys, BucketInv
<1>3. BucketInv => BucketBound
    <2> SUFFICES ASSUME BucketInv, NEW k \in Key
                 PROVE  granted[k] * Unit <= Capacity + Refill * (now + rewound[k])
        BY DEF BucketBound
    <2> USE KeysAssumption
    <2>1. now \in Nat /\ granted[k] \in Nat /\ rewound[k] \in Nat /\ bucket[k] \in BucketState
        BY DEF BucketInv, Time
    <2>2. granted[k] * Unit \in Nat /\ Refill * (now + rewound[k]) \in Nat
        BY <2>1
    <2>3. CASE bucket[k] = Unset
        <3>1. granted[k] * Unit = 0
            BY <2>3 DEF BucketInv
        <3> QED BY <2>2, <3>1
    <2>4. CASE bucket[k] # Unset
        <3> DEFINE s == bucket[k].stamp + rewound[k]
                   t == now + rewound[k]
        <3>1. s \in Nat /\ t \in Nat /\ s <= t /\ bucket[k].tokens \in Nat
              /\ granted[k] * Unit + bucket[k].tokens <= Capacity + Refill * s
            BY <2>1, <2>4 DEF BucketInv, BucketState
        <3> HIDE DEF s, t
        <3>2. Refill * s <= Refill * t /\ Refill * s \in Nat /\ Refill * t \in Nat
            <4>1. t - s \in Nat /\ Refill * (t - s) \in Nat /\ Refill * t = Refill * s + Refill * (t - s)
                BY <3>1
            <4> QED BY <3>1, <4>1
        <3>3. granted[k] * Unit <= Capacity + Refill * t
            BY <2>2, <3>1, <3>2
        <3> QED BY <3>3 DEF t
    <2> QED BY <2>3, <2>4
<1> QED
    BY <1>1, <1>2, <1>3, PTL DEF Spec

ToolCallState == [pc : {"rest", "ask", "query", "store", "known"}, turn : {"audit", "permit"},
              key : Key \cup {"none"}, began : Time, user : BOOLEAN]

\* What the MCP server knows of a key, or is about to note, was read before the
\* key was revoked.
CacheInv ==
    /\ now \in Time
    /\ apikey \in [Key -> [status : {"unknown", "enabled", "revoked"}, since : Time]]
    /\ keyCache \in [Key -> [user : BOOLEAN, stamp : Time] \cup {Unknown}]
    /\ toolCall \in [Call -> ToolCallState]
    /\ \A k \in Key :
         /\ apikey[k].since <= now
         /\ keyCache[k] # Unknown => keyCache[k].stamp <= now
         /\ keyCache[k].user => Enabled(k) \/ keyCache[k].stamp <= apikey[k].since
    /\ \A c \in Call : LET k == toolCall[c].key IN
         /\ toolCall[c].pc # "rest" => k \in Key
         /\ toolCall[c].pc \in {"query", "store"} => toolCall[c].began <= now
         /\ toolCall[c].pc = "store" /\ toolCall[c].user => Enabled(k) \/ toolCall[c].began <= apikey[k].since

\* A call takes a step that leaves the cache alone.
LEMMA CallStep ==
    ASSUME CacheInv, UNCHANGED <<now, apikey, keyCache>>, NEW c \in Call, NEW new \in ToolCallState,
           toolCall' = [toolCall EXCEPT ![c] = new],
           new.pc # "rest" => new.key \in Key,
           new.pc \in {"query", "store"} => new.began <= now,
           new.pc = "store" /\ new.user => Enabled(new.key) \/ new.began <= apikey[new.key].since
    PROVE  CacheInv'
<1>1. /\ toolCall' \in [Call -> ToolCallState]
      /\ \A d \in Call : toolCall'[d] = IF d = c THEN new ELSE toolCall[d]
    BY DEF CacheInv
<1> QED BY <1>1 DEF CacheInv, Enabled

\* Every step keeps it.
LEMMA CacheStep ==
    ASSUME CacheInv, KeysNext
    PROVE  CacheInv'
<1> USE KeysAssumption
<1>1. ASSUME NEW k \in Key, CreateKey(k) \/ RevokeKey(k) PROVE CacheInv'
    <2>1. /\ UNCHANGED <<now, keyCache, toolCall>> /\ now \in Time
          /\ apikey' \in [Key -> [status : {"unknown", "enabled", "revoked"}, since : Time]]
          /\ \A j \in Key \ {k} : apikey'[j] = apikey[j]
          /\ apikey'[k].since <= now
          /\ apikey'[k].status = "enabled" \/ apikey'[k].since = now
        <3>1. CASE CreateKey(k)
            BY <3>1 DEF CreateKey, CacheInv, Time
        <3>2. CASE RevokeKey(k)
            <4>1. [status |-> "revoked", since |-> now] \in
                        [status : {"unknown", "enabled", "revoked"}, since : Time]
                BY DEF CacheInv
            <4> QED BY <3>2, <4>1 DEF RevokeKey, CacheInv, Time
        <3> QED BY <1>1, <3>1, <3>2
    <2>2. Unknown.user = FALSE
        BY DEF Unknown
    <2>3. \A j \in Key : keyCache[j].user => keyCache[j].stamp <= now
        BY <2>2 DEF CacheInv
    <2>4. \A c \in Call : toolCall[c].pc = "store" => toolCall[c].key \in Key /\ toolCall[c].began <= now
        BY DEF CacheInv
    <2>5. \A j \in Key : keyCache'[j].user => Enabled(j)' \/ keyCache'[j].stamp <= apikey'[j].since
        BY <2>1, <2>3 DEF CacheInv, Enabled
    <2>6. \A c \in Call : toolCall[c].pc = "store" /\ toolCall[c].user =>
             \/ Enabled(toolCall[c].key)'
             \/ toolCall[c].began <= apikey'[toolCall[c].key].since
        BY <2>1, <2>4 DEF CacheInv, Enabled
    <2> QED BY <2>1, <2>5, <2>6 DEF CacheInv
<1>2. CASE UNCHANGED <<now, apikey, keyCache, toolCall>>
    BY <1>2 DEF CacheInv, Enabled
<1>3. ASSUME NEW c \in Call,
             (\E k \in Key : CallBegins(c, k)) \/ CallFromCache(c) \/ CallReads(c) \/ CallResolves(c)
      PROVE  CacheInv'
    <2>1. /\ toolCall[c] \in ToolCallState /\ UNCHANGED <<now, apikey, keyCache>>
          /\ toolCall[c].pc # "rest" => toolCall[c].key \in Key
        BY <1>3 DEF CacheInv, CallBegins, CallFromCache, CallReads, CallResolves
    <2>2. NoCall \in ToolCallState /\ NoCall.pc = "rest"
        BY DEF NoCall, ToolCallState, Time
    <2>3. ASSUME NEW k \in Key, CallBegins(c, k) PROVE CacheInv'
        <3> DEFINE n == [NoCall EXCEPT !.pc = "ask", !.key = k]
        <3>1. n \in ToolCallState /\ n.pc = "ask" /\ n.key = k
            BY <2>2 DEF ToolCallState
        <3>2. toolCall' = [toolCall EXCEPT ![c] = n]
            BY <2>3 DEF CallBegins
        <3> HIDE DEF n
        <3> QED BY <2>1, <3>1, <3>2, CallStep
    <2>4. CASE CallFromCache(c)
        <3> DEFINE n == [toolCall[c] EXCEPT !.pc = "known", !.user = keyCache[toolCall[c].key].user]
        <3>1. keyCache[toolCall[c].key].user \in BOOLEAN
            <4>1. keyCache[toolCall[c].key] \in [user : BOOLEAN, stamp : Time] \cup {Unknown}
                BY <2>1, <2>4 DEF CallFromCache, CacheInv
            <4>2. Unknown.user \in BOOLEAN
                BY DEF Unknown
            <4> QED BY <4>1, <4>2
        <3>2. n \in ToolCallState /\ n.pc = "known" /\ n.key = toolCall[c].key
            BY <2>1, <3>1 DEF ToolCallState
        <3>3. toolCall' = [toolCall EXCEPT ![c] = n]
            BY <2>4 DEF CallFromCache
        <3> HIDE DEF n
        <3> QED BY <2>1, <2>4, <3>2, <3>3, CallStep DEF CallFromCache
    <2>5. CASE CallReads(c)
        <3>1. PICK answers \in BOOLEAN :
                toolCall' = [toolCall EXCEPT ![c].pc = "store", ![c].user = answers /\ Enabled(toolCall[c].key)]
            BY <2>5 DEF CallReads
        <3> DEFINE n == [toolCall[c] EXCEPT !.pc = "store", !.user = answers /\ Enabled(toolCall[c].key)]
        <3>2. (answers /\ Enabled(toolCall[c].key)) \in BOOLEAN
            OBVIOUS
        <3>3. /\ n \in ToolCallState /\ n.pc = "store" /\ n.key = toolCall[c].key
              /\ n.began = toolCall[c].began /\ (n.user => Enabled(toolCall[c].key))
            BY <2>1, <3>2 DEF ToolCallState
        <3>4. toolCall' = [toolCall EXCEPT ![c] = n]
            BY <3>1
        <3>5. toolCall[c].pc = "query" /\ toolCall[c].began <= now
            BY <2>5 DEF CallReads, CacheInv
        <3> HIDE DEF n
        <3> QED BY <2>1, <3>3, <3>4, <3>5, CallStep
    <2>6. CASE CallResolves(c)
        <3> DEFINE n == [toolCall[c] EXCEPT !.pc = "ask", !.turn = "permit", !.user = FALSE]
        <3>1. n \in ToolCallState /\ n.pc = "ask" /\ n.key = toolCall[c].key
            BY <2>1 DEF ToolCallState
        <3>2. \/ toolCall' = [toolCall EXCEPT ![c] = n]
              \/ toolCall' = [toolCall EXCEPT ![c] = NoCall]
            BY <2>6 DEF CallResolves
        <3>3. toolCall[c].key \in Key
            BY <2>1, <2>6 DEF CallResolves
        <3> HIDE DEF n
        <3>4. CASE toolCall' = [toolCall EXCEPT ![c] = n]
            BY <2>1, <3>1, <3>3, <3>4, CallStep
        <3>5. CASE toolCall' = [toolCall EXCEPT ![c] = NoCall]
            BY <2>1, <2>2, <3>5, CallStep
        <3> QED BY <3>2, <3>4, <3>5
    <2> QED BY <1>3, <2>3, <2>4, <2>5, <2>6
<1>4. ASSUME NEW c \in Call, CallQueries(c) PROVE CacheInv'
    <2>1. /\ UNCHANGED <<now, apikey>> /\ now \in Time /\ toolCall[c] \in ToolCallState
          /\ toolCall[c].key \in Key
        BY <1>4 DEF CallQueries, CacheInv
    <2>2. /\ keyCache' \in [Key -> [user : BOOLEAN, stamp : Time] \cup {Unknown}]
          /\ \A k \in Key : keyCache'[k] \in {keyCache[k], Unknown}
        BY <1>4 DEF CallQueries, CacheInv, Trimmed
    <2> DEFINE n == [toolCall[c] EXCEPT !.pc = "query", !.began = now]
    <2>3. n \in ToolCallState /\ n.pc = "query" /\ n.key = toolCall[c].key /\ n.began = now
        BY <2>1 DEF ToolCallState
    <2>4. toolCall' = [toolCall EXCEPT ![c] = n]
        BY <1>4 DEF CallQueries
    <2> HIDE DEF n
    <2>5. /\ toolCall' \in [Call -> ToolCallState] /\ toolCall'[c] = n
          /\ \A d \in Call \ {c} : toolCall'[d] = toolCall[d]
        BY <2>3, <2>4 DEF CacheInv
    <2>6. Unknown.user = FALSE /\ now <= now
        BY <2>1 DEF Unknown, Time
    <2> QED BY <2>1, <2>2, <2>3, <2>5, <2>6 DEF CacheInv, Enabled
<1>5. ASSUME NEW c \in Call, CallStores(c) PROVE CacheInv'
    <2> DEFINE k == toolCall[c].key
               e == [user |-> toolCall[c].user, stamp |-> toolCall[c].began]
               n == [toolCall[c] EXCEPT !.pc = "known", !.began = 0]
    <2>1. /\ UNCHANGED <<now, apikey>> /\ toolCall[c] \in ToolCallState /\ k \in Key
          /\ toolCall[c].began <= now
          /\ toolCall[c].user => Enabled(k) \/ toolCall[c].began <= apikey[k].since
        BY <1>5 DEF CallStores, CacheInv
    <2>2. /\ e \in [user : BOOLEAN, stamp : Time] /\ e.user = toolCall[c].user
          /\ e.stamp = toolCall[c].began
        BY <2>1 DEF ToolCallState
    <2>3. n \in ToolCallState /\ n.pc = "known" /\ n.key = k
        <3>1. 0 \in Time
            BY DEF Time
        <3> QED BY <2>1, <3>1 DEF ToolCallState
    <2>4. keyCache' = [keyCache EXCEPT ![k] = e] /\ toolCall' = [toolCall EXCEPT ![c] = n]
        BY <1>5 DEF CallStores, Stamp
    <2> HIDE DEF k, e, n
    <2>5. /\ keyCache' \in [Key -> [user : BOOLEAN, stamp : Time] \cup {Unknown}]
          /\ keyCache'[k] = e /\ \A j \in Key \ {k} : keyCache'[j] = keyCache[j]
          /\ toolCall' \in [Call -> ToolCallState] /\ toolCall'[c] = n
          /\ \A d \in Call \ {c} : toolCall'[d] = toolCall[d]
        BY <2>1, <2>2, <2>3, <2>4 DEF CacheInv
    <2>6. \A j \in Key :
             /\ keyCache'[j] # Unknown => keyCache'[j].stamp <= now
             /\ keyCache'[j].user => Enabled(j) \/ keyCache'[j].stamp <= apikey[j].since
        BY <2>1, <2>2, <2>5 DEF CacheInv
    <2> QED BY <2>1, <2>3, <2>5, <2>6 DEF CacheInv, Enabled
<1>6. CASE Tick
    <2>1. /\ now \in Time /\ now' \in Time /\ now' = now + 1
          /\ UNCHANGED <<apikey, keyCache, toolCall>>
        BY <1>6 DEF Tick, CacheInv, Time
    <2>2. \A t \in Time : t <= now => t <= now'
        BY <2>1 DEF Time
    <2>3. /\ \A k \in Key : apikey[k].since \in Time
          /\ \A k \in Key : keyCache[k] # Unknown => keyCache[k].stamp \in Time
          /\ \A c \in Call : toolCall[c].began \in Time
        BY DEF CacheInv, ToolCallState
    <2> QED BY <2>1, <2>2, <2>3 DEF CacheInv, Enabled
<1> QED
    BY <1>1, <1>2, <1>3, <1>4, <1>5, <1>6 DEF KeysNext, Gate, Attempt, TakesToken, ClientWakes, ClientAsks

\* Whatever reads, stores and revocations interleave, a key lives in the cache
\* of the MCP server for less than CacheLife after it was revoked.
THEOREM KeysDie == Spec => []KeyDiesInTime
<1>1. Init => CacheInv
    <2> SUFFICES ASSUME KeysInit PROVE CacheInv
        BY DEF Init
    <2>1. NoCall \in ToolCallState /\ NoCall.pc = "rest" /\ 0 \in Time /\ Unknown.user = FALSE
        BY KeysAssumption DEF NoCall, ToolCallState, Time, Unknown
    <2> QED BY <2>1 DEF KeysInit, CacheInv
<1>2. CacheInv /\ [Next]_vars => CacheInv'
    <2> SUFFICES ASSUME CacheInv, [Next]_vars, UNCHANGED keys PROVE CacheInv'
        BY CacheStep, Apart
    <2> QED BY DEF keys, CacheInv, Enabled
<1>3. CacheInv => KeyDiesInTime
    <2> SUFFICES ASSUME CacheInv, NEW k \in Key, Fresh(k), keyCache[k].user, ~Enabled(k)
                 PROVE  now - apikey[k].since < CacheLife
        BY DEF KeyDiesInTime
    <2>1. /\ keyCache[k].stamp <= apikey[k].since /\ now - keyCache[k].stamp < CacheLife
          /\ keyCache[k].stamp \in Nat /\ apikey[k].since \in Nat /\ now \in Nat
        BY DEF CacheInv, Fresh, Time
    <2> QED BY <2>1, KeysAssumption
<1> QED
    BY <1>1, <1>2, <1>3, PTL DEF Spec

-----------------------------------------------------------------------------
(***************************************************************************)
(* Reports in the background                                               *)
(***************************************************************************)
\* A report whose enqueueing was answered is generated by the queue or by the
\* instance: the one that still may is told from where its request is.
OneMaker(r) ==
    /\ asking[r].pc \in {"rest", "enqueue", "sync"} => job[r] = "absent" /\ runs[r] = 0
    /\ job[r] \in {"queued", "started"} => runs[r] = 0
    /\ runs[r] <= 1

ReportsInv ==
    /\ ReportsTypeOK
    /\ \A r \in Report \ unheard : OneMaker(r)

AskPhase == {"rest", "enqueue", "depth", "sync", "poll", "over"}

\* A step of request r, its job and its worker.
LEMMA OneReport ==
    ASSUME ReportsInv, NEW r \in Report, ReportsTypeOK',
           unheard' \in {unheard, unheard \cup {r}},
           \A s \in Report : s # r =>
               asking'[s] = asking[s] /\ job'[s] = job[s] /\ runs'[s] = runs[s],
           r \notin unheard' => OneMaker(r)'
    PROVE  ReportsInv'
<1>1. \A s \in Report \ unheard' : OneMaker(s)'
    BY DEF ReportsInv, OneMaker
<1> QED BY <1>1 DEF ReportsInv

\* A request that moves on keeps what it told, and no other moves.
LEMMA AskingStep ==
    ASSUME ReportsTypeOK, NEW r \in Report, NEW pc \in AskPhase, AskingTo(r, pc)
    PROVE  /\ asking' \in [Report -> [pc : AskPhase, told : Told]]
           /\ asking'[r].pc = pc /\ asking'[r].told = asking[r].told
           /\ \A s \in Report : s # r => asking'[s] = asking[s]
<1>1. asking[r] \in [pc : AskPhase, told : Told] /\ asking' = [asking EXCEPT ![r] = [asking[r] EXCEPT !.pc = pc]]
    BY DEF ReportsTypeOK, AskPhase, AskingTo
<1>2. [asking[r] EXCEPT !.pc = pc] \in [pc : AskPhase, told : Told]
    BY <1>1
<1> QED BY <1>1, <1>2 DEF ReportsTypeOK, AskPhase

\* The same of one that tells the caller something.
LEMMA TellingStep ==
    ASSUME ReportsTypeOK, NEW r \in Report, NEW pc \in AskPhase, NEW told \in Told,
           asking' = [asking EXCEPT ![r] = [pc |-> pc, told |-> told]]
    PROVE  /\ asking' \in [Report -> [pc : AskPhase, told : Told]]
           /\ asking'[r].pc = pc /\ asking'[r].told = told
           /\ \A s \in Report : s # r => asking'[s] = asking[s]
BY DEF ReportsTypeOK, AskPhase

\* Every step of a report keeps it.
LEMMA ReportStep ==
    ASSUME ReportsInv, NEW r \in Report,
           \/ AsksReport(r) \/ EnqueueAnswered(r) \/ EnqueueUnheard(r) \/ EnqueueFails(r)
           \/ ReadsDepth(r) \/ MakesHere(r) \/ Polls(r)
           \/ WorkerTakes(r) \/ WorkerMakes(r) \/ WorkerFails(r) \/ ResultExpires(r)
    PROVE  ReportsInv'
<1>1. ReportsTypeOK /\ runs[r] \in Nat
    BY DEF ReportsInv, ReportsTypeOK
<1>2. CASE AsksReport(r)
    <2>1. PICK pc \in {"sync", "enqueue"} : AskingTo(r, pc)
        BY <1>2 DEF AsksReport
    <2>2. /\ asking' \in [Report -> [pc : AskPhase, told : Told]]
          /\ asking'[r].pc = pc /\ asking'[r].told = asking[r].told
          /\ \A s \in Report : s # r => asking'[s] = asking[s]
        BY <1>1, <2>1, AskingStep DEF AskPhase
    <2>3. /\ asking[r].pc = "rest" /\ UNCHANGED <<job, runs, reported, unheard, queueUp, queueFaults>>
        BY <1>2 DEF AsksReport, AskingAt
    <2>4. ReportsTypeOK'
        BY <1>1, <2>2, <2>3 DEF ReportsTypeOK, AskPhase
    <2> QED BY <1>1, <2>2, <2>3, <2>4, OneReport DEF ReportsInv, OneMaker
<1>3. CASE EnqueueAnswered(r) \/ EnqueueUnheard(r)
    <2>1. PICK pc \in {"depth", "sync"} : AskingTo(r, pc) /\ (pc = "sync" => r \in unheard')
        BY <1>3 DEF EnqueueAnswered, EnqueueUnheard
    <2>2. /\ asking' \in [Report -> [pc : AskPhase, told : Told]]
          /\ asking'[r].pc = pc /\ asking'[r].told = asking[r].told
          /\ \A s \in Report : s # r => asking'[s] = asking[s]
        BY <1>1, <2>1, AskingStep DEF AskPhase
    <2>3. /\ asking[r].pc = "enqueue" /\ UNCHANGED <<runs, reported, queueUp>>
          /\ job' = [job EXCEPT ![r] = "queued"] /\ unheard' \in {unheard, unheard \cup {r}}
          /\ queueFaults' \in {queueFaults, queueFaults + 1} /\ queueFaults' \in 0 .. MaxQueueFaults
        BY <1>1, <1>3, QueueAssumption
           DEF EnqueueAnswered, EnqueueUnheard, AskingAt, Faults, MayFault, ReportsTypeOK
    <2>4. ReportsTypeOK'
        BY <1>1, <2>2, <2>3 DEF ReportsTypeOK, AskPhase, JobStatus
    <2>5. job'[r] = "queued" /\ \A s \in Report : s # r => job'[s] = job[s]
        BY <1>1, <2>3 DEF ReportsTypeOK
    <2>6. r \notin unheard' => OneMaker(r)'
        BY <1>1, <2>1, <2>2, <2>3, <2>5 DEF ReportsInv, OneMaker
    <2> QED BY <1>1, <2>2, <2>3, <2>4, <2>5, <2>6, OneReport DEF ReportsInv
<1>4. CASE EnqueueFails(r)
    <2>1. /\ asking' \in [Report -> [pc : AskPhase, told : Told]]
          /\ asking'[r].pc = "sync" /\ asking'[r].told = asking[r].told
          /\ \A s \in Report : s # r => asking'[s] = asking[s]
        BY <1>1, <1>4, AskingStep DEF AskPhase, EnqueueFails
    <2>2. /\ asking[r].pc = "enqueue" /\ UNCHANGED <<job, runs, reported, unheard, queueUp, queueFaults>>
        BY <1>4 DEF EnqueueFails, AskingAt
    <2>3. ReportsTypeOK'
        BY <1>1, <2>1, <2>2 DEF ReportsTypeOK, AskPhase
    <2> QED BY <1>1, <2>1, <2>2, <2>3, OneReport DEF ReportsInv, OneMaker
<1>5. CASE ReadsDepth(r)
    <2>1. /\ asking' \in [Report -> [pc : AskPhase, told : Told]]
          /\ asking'[r].pc = "poll" /\ asking'[r].told = "queued"
          /\ \A s \in Report : s # r => asking'[s] = asking[s]
        BY <1>1, <1>5, TellingStep DEF AskPhase, Told, ReadsDepth, AfterDepth
    <2>2. /\ asking[r].pc = "depth" /\ UNCHANGED <<job, runs, reported, unheard, queueUp, queueFaults>>
        BY <1>5 DEF ReadsDepth, AskingAt
    <2>3. ReportsTypeOK'
        BY <1>1, <2>1, <2>2 DEF ReportsTypeOK, AskPhase
    <2> QED BY <1>1, <2>1, <2>2, <2>3, OneReport DEF ReportsInv, OneMaker
<1>6. CASE MakesHere(r)
    <2>1. PICK told \in {"ok", "failed"} :
            /\ TellsEnd(r, told) /\ runs' = [runs EXCEPT ![r] = @ + 1]
            /\ reported' \in {reported, reported \cup {r}}
        BY <1>6 DEF MakesHere, JobReports, JobRefused
    <2>2. /\ asking' \in [Report -> [pc : AskPhase, told : Told]]
          /\ asking'[r].pc = "over" /\ asking'[r].told = told
          /\ \A s \in Report : s # r => asking'[s] = asking[s]
        BY <1>1, <2>1, TellingStep DEF AskPhase, Told, TellsEnd
    <2>3. /\ asking[r].pc = "sync" /\ UNCHANGED <<job, unheard, queueUp, queueFaults>>
          /\ runs' \in [Report -> Nat] /\ runs'[r] = runs[r] + 1
          /\ \A s \in Report : s # r => runs'[s] = runs[s]
        BY <1>1, <1>6, <2>1 DEF MakesHere, AskingAt, ReportsTypeOK
    <2>4. ReportsTypeOK'
        BY <1>1, <2>1, <2>2, <2>3 DEF ReportsTypeOK, AskPhase
    <2> QED BY <1>1, <2>2, <2>3, <2>4, OneReport DEF ReportsInv, OneMaker
<1>7. CASE Polls(r)
    <2>1. PICK pc \in {"poll", "over"}, told \in Told :
            /\ asking' \in [Report -> [pc : AskPhase, told : Told]]
            /\ asking'[r].pc = pc /\ asking'[r].told = told
            /\ \A s \in Report : s # r => asking'[s] = asking[s]
        <3>1. CASE AskingTo(r, "poll")
            <4>1. asking[r].told \in Told
                BY <1>1 DEF ReportsTypeOK
            <4> QED BY <1>1, <3>1, <4>1, AskingStep DEF AskPhase
        <3>2. CASE \E told \in {"ok", "failed", "not_found"} : TellsEnd(r, told)
            <4>1. PICK told \in {"ok", "failed", "not_found"} : TellsEnd(r, told)
                BY <3>2
            <4> QED BY <1>1, <4>1, TellingStep DEF AskPhase, Told, TellsEnd
        <3> QED BY <1>7, <3>1, <3>2 DEF Polls
    <2>2. /\ asking[r].pc = "poll" /\ UNCHANGED <<job, runs, reported, unheard, queueUp, queueFaults>>
        BY <1>7 DEF Polls, AskingAt
    <2>3. ReportsTypeOK'
        BY <1>1, <2>1, <2>2 DEF ReportsTypeOK, AskPhase
    <2> QED BY <1>1, <2>1, <2>2, <2>3, OneReport DEF ReportsInv, OneMaker
<1>8. CASE WorkerTakes(r) \/ WorkerMakes(r) \/ WorkerFails(r) \/ ResultExpires(r)
    <2>1. PICK status \in JobStatus, n \in {0, 1} :
            /\ job' = [job EXCEPT ![r] = status]
            /\ reported' \in {reported, reported \cup {r}}
            /\ runs' \in [Report -> Nat] /\ runs'[r] = runs[r] + n
            /\ \A s \in Report : s # r => runs'[s] = runs[s]
            /\ \/ job[r] = "queued" /\ status = "started" /\ n = 0
               \/ job[r] = "started" /\ status = "finished" /\ n = 1
               \/ job[r] = "started" /\ status = "failed"
               \/ status = "absent" /\ n = 0
        <3>1. CASE WorkerTakes(r) \/ ResultExpires(r)
            <4>1. PICK status \in {"started", "absent"} :
                    /\ job' = [job EXCEPT ![r] = status] /\ UNCHANGED <<runs, reported>>
                    /\ status = "started" => job[r] = "queued"
                BY <3>1 DEF WorkerTakes, ResultExpires
            <4>2. runs' \in [Report -> Nat] /\ runs'[r] = runs[r] + 0
                BY <1>1, <4>1 DEF ReportsTypeOK
            <4> QED BY <4>1, <4>2 DEF JobStatus
        <3>2. CASE WorkerMakes(r) \/ WorkerFails(r)
            <4>1. PICK n \in {0, 1}, status \in {"finished", "failed"} :
                    /\ runs' = [runs EXCEPT ![r] = @ + n] /\ job' = [job EXCEPT ![r] = status]
                    /\ reported' \in {reported, reported \cup {r}}
                    /\ status = "finished" => n = 1
                <5>1. CASE UNCHANGED <<runs, reported>> /\ WorkerFails(r)
                    <6>1. runs' = [runs EXCEPT ![r] = @ + 0]
                        BY <1>1, <5>1 DEF ReportsTypeOK
                    <6> QED BY <5>1, <6>1 DEF WorkerFails
                <5>2. CASE JobReports(r) \/ JobRefused(r)
                    BY <3>2, <5>2 DEF WorkerMakes, WorkerFails, JobReports, JobRefused
                <5> QED BY <3>2, <5>1, <5>2 DEF WorkerMakes, WorkerFails
            <4>2. /\ runs' \in [Report -> Nat] /\ runs'[r] = runs[r] + n
                  /\ \A s \in Report : s # r => runs'[s] = runs[s]
                BY <1>1, <4>1 DEF ReportsTypeOK
            <4> QED BY <3>2, <4>1, <4>2 DEF JobStatus, WorkerMakes, WorkerFails
        <3> QED BY <1>8, <3>1, <3>2
    <2>2. UNCHANGED <<asking, unheard, queueUp, queueFaults>>
        BY <1>8 DEF WorkerTakes, WorkerMakes, WorkerFails, ResultExpires
    <2>3. job'[r] = status /\ \A s \in Report : s # r => job'[s] = job[s]
        BY <1>1, <2>1 DEF ReportsTypeOK
    <2>4. ReportsTypeOK'
        BY <1>1, <2>1, <2>2 DEF ReportsTypeOK
    <2>5. r \notin unheard' => OneMaker(r)'
        BY <1>1, <2>1, <2>2, <2>3 DEF ReportsInv, OneMaker
    <2> QED BY <2>1, <2>2, <2>3, <2>4, <2>5, OneReport
<1> QED
    BY <1>2, <1>3, <1>4, <1>5, <1>6, <1>7, <1>8

\* A report is generated at most once, and not by the instance while its job
\* is in the queue, unless the answer to its enqueueing was lost.
THEOREM ReportsMadeOnce == Spec => []ReportMadeOnce
<1>1. Init => ReportsInv
    BY QueueAssumption DEF Init, ReportsInit, ReportsInv, ReportsTypeOK, OneMaker, JobStatus, Told
<1>2. ReportsInv /\ [Next]_vars => ReportsInv'
    <2>1. ReportsInv /\ UNCHANGED reports => ReportsInv'
        BY DEF reports, ReportsInv, ReportsTypeOK, OneMaker
    <2>2. ReportsInv /\ QueueChanges => ReportsInv'
        BY QueueAssumption DEF QueueChanges, Faults, MayFault, ReportsInv, ReportsTypeOK, OneMaker
    <2> QED BY <2>1, <2>2, ReportStep, Apart DEF ReportsNext
<1>3. ReportsInv => ReportMadeOnce
    BY DEF ReportsInv, ReportsTypeOK, OneMaker, ReportMadeOnce, AskingAt
<1> QED
    BY <1>1, <1>2, <1>3, PTL DEF Spec

-----------------------------------------------------------------------------
(***************************************************************************)
(* Routing                                                                 *)
(***************************************************************************)
OneContent(f) == f.version = f.content

RouterState == [pc : {"down", "load", "embed", "save", "write", "up"}, file : File \cup {NoFile},
                embedder : Embedding, of : 0 .. MaxEdits, by : Embedding]

\* With careful edits the version tells the content of the samples, of every
\* copy of them, and of the vector file; a server past its embedding has the
\* vectors of its own samples.  Hashes come from a server without the model.
ServerOK(x, anyCareless, anyMock) ==
    /\ x \in RouterState
    /\ x.pc # "down" => x.file \in File /\ (~anyCareless => OneContent(x.file))
    /\ x.pc \in {"save", "write", "up"} =>
         /\ ~anyCareless => x.of = x.file.content
         /\ ~anyMock => x.by = "real"

VectorsOK(v, anyCareless, anyMock) ==
    /\ v \in Vectors \cup {NoVectors}
    /\ ~anyCareless => OneContent(v)
    /\ ~anyMock /\ v # NoVectors => v.by = "real"

RoutingInv ==
    /\ samples \in File /\ samples.version <= samples.content /\ (~careless => OneContent(samples))
    /\ careless \in BOOLEAN /\ degraded \in BOOLEAN
    /\ server \in [Server -> RouterState]
    /\ VectorsOK(vectors, careless, degraded) /\ \A s \in Server : ServerOK(server[s], careless, degraded)

\* One server takes a step, to a state that keeps the invariant.
LEMMA ServerStep ==
    ASSUME RoutingInv, UNCHANGED <<samples, careless>>, NEW s \in Server, NEW new,
           server' = [server EXCEPT ![s] = new], degraded' \in BOOLEAN, degraded => degraded',
           VectorsOK(vectors', careless', degraded'), ServerOK(new, careless', degraded')
    PROVE  RoutingInv'
<1>1. new \in RouterState
    BY DEF ServerOK
<1>2. server' \in [Server -> RouterState] /\ \A t \in Server : server'[t] = IF t = s THEN new ELSE server[t]
    BY <1>1 DEF RoutingInv
<1>3. \A t \in Server : ServerOK(server'[t], careless', degraded')
    <2> TAKE t \in Server
    <2>1. CASE t = s
        BY <1>2, <2>1
    <2>2. CASE t # s
        <3>1. ServerOK(server[t], careless, degraded) /\ server'[t] = server[t]
            BY <1>2, <2>2 DEF RoutingInv
        <3> QED BY <3>1 DEF ServerOK
    <2> QED BY <2>1, <2>2
<1> QED BY <1>2, <1>3 DEF RoutingInv

\* Every step of a server or an editor keeps it.
LEMMA RoutingStep ==
    ASSUME RoutingInv, RoutingNext
    PROVE  RoutingInv'
<1> USE RoutingAssumption
<1>1. CASE EditsSamples
    <2>1. PICK raise \in {0, 1} :
            /\ samples' = [version |-> samples.version + raise, content |-> samples.content + 1]
            /\ careless' = (careless \/ raise = 0)
        BY <1>1 DEF EditsSamples
    <2>2. samples.version \in 0 .. MaxEdits /\ samples.content \in 0 .. MaxEdits - 1
        BY <1>1 DEF EditsSamples, RoutingInv, File
    <2>3. samples' \in File /\ samples'.version <= samples'.content
        BY <2>1, <2>2 DEF File, RoutingInv
    <2>4. ~careless' => ~careless /\ OneContent(samples')
        BY <2>1, <2>2 DEF OneContent, RoutingInv
    <2>5. careless' \in BOOLEAN /\ UNCHANGED <<vectors, server, degraded>>
        BY <1>1, <2>1 DEF EditsSamples, RoutingInv
    <2>6. VectorsOK(vectors', careless', degraded') /\ \A s \in Server : ServerOK(server'[s], careless', degraded')
        BY <2>4, <2>5 DEF RoutingInv, VectorsOK, ServerOK
    <2> QED BY <2>3, <2>4, <2>5, <2>6 DEF RoutingInv
<1>2. ASSUME NEW s \in Server,
             \/ LoadsSamples(s) \/ LoadsVectors(s) \/ Embeds(s) \/ OpensVectors(s)
             \/ WritesVectors(s) \/ ServerStops(s)
      PROVE  RoutingInv'
    <2>1. /\ server[s] \in RouterState /\ ServerOK(server[s], careless, degraded) /\ VectorsOK(vectors, careless, degraded)
          /\ UNCHANGED <<samples, careless>> /\ server \in [Server -> RouterState]
          /\ degraded \in BOOLEAN /\ careless \in BOOLEAN
        BY <1>2 DEF RoutingInv, LoadsSamples, LoadsVectors, Embeds, OpensVectors,
                    WritesVectors, ServerStops
    <2>2. UNCHANGED <<vectors, degraded>> => VectorsOK(vectors', careless', degraded')
        BY <2>1 DEF VectorsOK
    <2>3. ServerOK(Down, careless', degraded')
        BY DEF Down, RouterState, ServerOK, Embedding
    <2>4. CASE LoadsSamples(s)
        <3>1. PICK model \in Embedding :
                server' = [server EXCEPT ![s].pc = "load", ![s].file = samples, ![s].embedder = model]
            BY <2>4 DEF LoadsSamples
        <3> DEFINE new == [server[s] EXCEPT !.pc = "load", !.file = samples, !.embedder = model]
        <3>2. server' = [server EXCEPT ![s] = new]
            BY <2>1, <3>1
        <3>3. new \in RouterState /\ new.pc = "load" /\ new.file = samples
            BY <2>1 DEF RouterState, RoutingInv
        <3>4. ServerOK(new, careless', degraded')
            BY <2>1, <2>4, <3>3 DEF ServerOK, LoadsSamples, RoutingInv
        <3> HIDE DEF new
        <3> QED BY <2>1, <2>2, <2>4, <3>2, <3>4, ServerStep DEF LoadsSamples
    <2>5. CASE LoadsVectors(s)
        <3>1. CASE GoodFor(server[s].file)
            <4> DEFINE new == [server[s] EXCEPT !.pc = "up", !.of = vectors.content, !.by = vectors.by]
            <4>1. server' = [server EXCEPT ![s] = new]
                BY <2>1, <2>5, <3>1 DEF LoadsVectors
            <4>2. vectors \in Vectors /\ vectors.version = server[s].file.version
                BY <2>1, <3>1 DEF GoodFor, VectorsOK
            <4>3. /\ new \in RouterState /\ new.pc = "up" /\ new.file = server[s].file
                  /\ new.of = vectors.content /\ new.by = vectors.by
                BY <2>1, <4>2 DEF RouterState, Vectors
            <4>4. ServerOK(new, careless', degraded')
                BY <2>1, <2>5, <3>1, <4>2, <4>3
                   DEF ServerOK, VectorsOK, LoadsVectors, GoodFor, RouterAt, OneContent
            <4> HIDE DEF new
            <4> QED BY <2>1, <2>2, <2>5, <4>1, <4>4, ServerStep DEF LoadsVectors
        <3>2. CASE ~GoodFor(server[s].file)
            <4> DEFINE new == [server[s] EXCEPT !.pc = "embed"]
            <4>1. server' = [server EXCEPT ![s] = new]
                BY <2>1, <2>5, <3>2 DEF LoadsVectors, RouterTo
            <4>2. new \in RouterState /\ new.pc = "embed" /\ new.file = server[s].file
                BY <2>1 DEF RouterState
            <4>3. ServerOK(new, careless', degraded')
                BY <2>1, <2>5, <4>2 DEF ServerOK, LoadsVectors, RouterAt
            <4> HIDE DEF new
            <4> QED BY <2>1, <2>2, <2>5, <4>1, <4>3, ServerStep DEF LoadsVectors
        <3> QED BY <3>1, <3>2
    <2>6. CASE Embeds(s)
        <3>1. degraded' \in BOOLEAN /\ (degraded => degraded') /\ vectors' = vectors
            <4>1. CASE UNCHANGED degraded
                BY <2>1, <2>6, <4>1 DEF Embeds
            <4>2. CASE degraded' = (degraded \/ server[s].embedder = "mock")
                BY <2>6, <4>2 DEF Embeds
            <4> QED BY <2>6, <4>1, <4>2 DEF Embeds
        <3>2. VectorsOK(vectors', careless', degraded')
            BY <2>1, <3>1 DEF VectorsOK
        <3>3. CASE server' = [server EXCEPT ![s] = Down]
            BY <2>1, <2>3, <3>1, <3>2, <3>3, ServerStep
        <3>4. CASE /\ server' = [server EXCEPT ![s].pc = "save", ![s].of = server[s].file.content,
                                               ![s].by = server[s].embedder]
                   /\ degraded' = (degraded \/ server[s].embedder = "mock")
            <4> DEFINE new == [server[s] EXCEPT !.pc = "save", !.of = server[s].file.content,
                                                !.by = server[s].embedder]
            <4>1. server' = [server EXCEPT ![s] = new]
                BY <2>1, <3>4
            <4>2. server[s].file \in File /\ server[s].embedder \in Embedding
                BY <2>1, <2>6 DEF Embeds, RouterAt, ServerOK, RouterState
            <4>3. /\ new \in RouterState /\ new.pc = "save" /\ new.file = server[s].file
                  /\ new.of = server[s].file.content /\ new.by = server[s].embedder
                BY <2>1, <4>2 DEF RouterState, File
            <4>4. ServerOK(new, careless', degraded')
                <5>1. ~degraded' => server[s].embedder = "real"
                    BY <3>4, <4>2 DEF Embedding
                <5>2. UNCHANGED careless /\ (~careless => OneContent(server[s].file))
                    BY <2>1, <2>6 DEF ServerOK, Embeds, RouterAt
                <5> QED BY <4>2, <4>3, <5>1, <5>2 DEF ServerOK
            <4> HIDE DEF new
            <4> QED BY <2>1, <3>1, <3>2, <4>1, <4>4, ServerStep
        <3> QED BY <2>6, <3>3, <3>4 DEF Embeds
    <2>7. CASE OpensVectors(s) \/ WritesVectors(s)
        <3>1. PICK pc \in {"write", "up"} : server' = [server EXCEPT ![s].pc = pc]
            BY <2>7 DEF OpensVectors, WritesVectors, RouterTo
        <3> DEFINE new == [server[s] EXCEPT !.pc = pc]
        <3>2. server' = [server EXCEPT ![s] = new]
            BY <2>1, <3>1
        <3>3. /\ new \in RouterState /\ new.pc = pc /\ new.file = server[s].file /\ new.of = server[s].of
              /\ new.by = server[s].by /\ new.embedder = server[s].embedder
            BY <2>1 DEF RouterState
        <3>4. server[s].pc \in {"save", "write"} /\ degraded' = degraded
            BY <2>7 DEF OpensVectors, WritesVectors, RouterAt
        <3>5. server[s].file \in File /\ server[s].of \in 0 .. MaxEdits /\ server[s].by \in Embedding
            BY <2>1, <3>4 DEF ServerOK, RouterState
        <3>6. ServerOK(new, careless', degraded')
            BY <2>1, <3>3, <3>4 DEF ServerOK
        <3>7. VectorsOK(vectors', careless', degraded')
            <4> DEFINE v == [version |-> server[s].file.version, content |-> server[s].of,
                             by |-> server[s].by]
            <4>1. v \in Vectors /\ v.version = server[s].file.version /\ v.content = server[s].of
                  /\ v.by = server[s].by
                BY <3>5 DEF Vectors, File
            <4>2. CASE vectors' = v
                BY <2>1, <3>4, <4>1, <4>2 DEF VectorsOK, ServerOK, OneContent
            <4>3. CASE vectors' = NoVectors
                BY <4>3 DEF VectorsOK, OneContent, NoVectors
            <4> QED BY <2>2, <2>7, <3>4, <4>2, <4>3 DEF OpensVectors, WritesVectors
        <3> HIDE DEF new
        <3> QED BY <2>1, <3>2, <3>4, <3>6, <3>7, ServerStep
    <2>8. CASE ServerStops(s)
        BY <2>1, <2>2, <2>3, <2>8, ServerStep DEF ServerStops
    <2> QED BY <1>2, <2>4, <2>5, <2>6, <2>7, <2>8
<1>3. CASE RoutesQuestion \/ QuestionEnds
    BY <1>3 DEF RoutesQuestion, QuestionEnds, RoutingInv, VectorsOK, ServerOK
<1> QED BY <1>1, <1>2, <1>3 DEF RoutingNext, ServersNext

\* However starts, careful edits, and failed or overlapping writes of the two
\* files interleave, a server that is up has the vectors of its own samples,
\* and the model's when it has the model and none without it made any.
THEOREM VectorsMatch == Spec => []VectorsAreOfSamples
<1>1. Init => RoutingInv
    <2> SUFFICES ASSUME RoutingInit PROVE RoutingInv
        BY DEF Init
    <2>1. Down \in RouterState /\ ServerOK(Down, careless, degraded) /\ VectorsOK(NoVectors, careless, degraded)
        BY RoutingAssumption DEF Down, RouterState, ServerOK, VectorsOK, NoVectors, OneContent, Embedding
    <2>2. samples \in File /\ samples.version <= samples.content /\ OneContent(samples)
        BY RoutingAssumption DEF RoutingInit, File, OneContent
    <2>3. server \in [Server -> RouterState] /\ \A s \in Server : server[s] = Down
        BY <2>1 DEF RoutingInit
    <2> QED BY <2>1, <2>2, <2>3 DEF RoutingInit, RoutingInv
<1>2. RoutingInv /\ [Next]_vars => RoutingInv'
    <2> SUFFICES ASSUME RoutingInv, [Next]_vars, UNCHANGED routing PROVE RoutingInv'
        BY RoutingStep, Apart
    <2> QED BY DEF routing, RoutingInv, VectorsOK, ServerOK
<1>3. RoutingInv => VectorsAreOfSamples
    BY DEF RoutingInv, ServerOK, VectorsAreOfSamples, RouterAt
<1> QED
    BY <1>1, <1>2, <1>3, PTL DEF Spec

-----------------------------------------------------------------------------
(***************************************************************************)
(* DataQuery, Nl2SqlGraph                                                  *)
(***************************************************************************)
\* What a run of the graph knows of its SQL, node by node.
GraphInv(g) ==
    /\ g \in DataState
    /\ g.node \in {"generate", "validate", "execute", "repair", "format"} => g.repairs = g.version
    /\ g.node \in {"execute", "format"} => g.validated = g.version /\ g.kind = "passes"
    /\ g.node = "format" => g.table = g.version
    /\ g.node = "end" /\ g.table # NoSql => g.table = g.version /\ g.kind = "passes"

\* Every node keeps it.
LEMMA GraphKeeps ==
    ASSUME NEW g, GraphInv(g), NEW h \in Graph(g)
    PROVE  GraphInv(h)
<1> USE RepairAssumption
<1>1. /\ g \in DataState /\ g.version \in 0 .. MaxRepair /\ NoSql \notin 0 .. MaxRepair
      /\ g.version \in 0 .. NoSql /\ NoSql \in 0 .. NoSql
      /\ g.validated \in 0 .. NoSql /\ g.failed \in 0 .. NoSql /\ g.table \in 0 .. NoSql
      /\ g.repairs \in 0 .. NoSql /\ g.kind \in Kind
    BY DEF GraphInv, DataState, NoSql
<1>2. /\ "validate" # "execute"
      /\ \A k \in Kind : [g EXCEPT !.node = "validate", !.kind = k] \in DataState
      /\ [g EXCEPT !.node = "raised"] \in DataState
    BY <1>1 DEF DataState
<1>3. CASE g.node = "generate"
    <2>1. CASE h = [g EXCEPT !.node = "raised"]
        <3>1. h \in DataState /\ h.node = "raised"
            BY <1>1, <1>2, <2>1 DEF DataState
        <3> QED BY <3>1 DEF GraphInv
    <2>2. ASSUME NEW k \in Kind, h = [g EXCEPT !.node = "validate", !.kind = k] PROVE GraphInv(h)
        <3>1. h \in DataState /\ h.node = "validate" /\ h.repairs = g.repairs /\ h.version = g.version
            BY <1>1, <1>2, <2>2 DEF DataState
        <3>2. g.repairs = g.version
            BY <1>3 DEF GraphInv
        <3> QED BY <3>1, <3>2 DEF GraphInv
    <2> QED BY <1>3, <2>1, <2>2 DEF Graph, GenerateNode, Written
<1>4. CASE g.node = "validate"
    <2>1. h = [g EXCEPT !.validated = IF g.kind = "passes" THEN g.version ELSE NoSql,
                        !.node = RouteAfterValidate(g)]
        BY <1>4 DEF Graph, ValidateNode
    <2>2. /\ RouteAfterValidate(g) \in {"execute", "repair", "degrade", "reject"}
          /\ RouteAfterValidate(g) = "execute" => g.kind = "passes"
        BY <1>1 DEF RouteAfterValidate, Repairable, Kind
    <2>3. h \in DataState
        BY <1>1, <2>1, <2>2 DEF DataState
    <2>4. /\ h.node = RouteAfterValidate(g) /\ h.version = g.version /\ h.kind = g.kind
          /\ h.repairs = g.repairs /\ (g.kind = "passes" => h.validated = g.version)
        BY <1>1, <2>1 DEF DataState
    <2> QED BY <1>4, <2>2, <2>3, <2>4 DEF GraphInv
<1>5. CASE g.node = "execute"
    <2>1. PICK r \in Sandbox(g) : h = [r EXCEPT !.node = RouteAfterExecute(r)]
        BY <1>5 DEF Graph, ExecuteNode
    <2>2. /\ r \in DataState /\ r.version = g.version /\ r.kind = g.kind /\ r.repairs = g.repairs
          /\ r.validated = g.validated /\ r.node = g.node
          /\ \/ r.failed = NoSql /\ r.table = g.validated
             \/ r.failed = g.validated /\ r.table = NoSql
        <3>1. CASE r = [g EXCEPT !.failed = NoSql, !.table = g.validated]
            BY <1>1, <3>1 DEF DataState
        <3>2. CASE r = [g EXCEPT !.failed = g.validated, !.table = NoSql]
            BY <1>1, <3>2 DEF DataState
        <3> QED BY <3>1, <3>2 DEF Sandbox
    <2>3. /\ g.validated = g.version /\ g.kind = "passes" /\ g.repairs = g.version
        BY <1>5 DEF GraphInv
    <2>4. /\ h \in DataState /\ h.node = RouteAfterExecute(r) /\ h.version = g.version
          /\ h.kind = g.kind /\ h.repairs = g.repairs /\ h.validated = g.validated /\ h.table = r.table
        <3>1. RouteAfterExecute(r) \in {"repair", "format"}
            BY DEF RouteAfterExecute
        <3> QED BY <2>1, <2>2, <3>1 DEF DataState
    <2>5. \/ RouteAfterExecute(r) = "repair"
          \/ RouteAfterExecute(r) = "format" /\ r.table = g.validated
        <3>1. CASE r.failed = NoSql /\ r.table = g.validated
            BY <3>1 DEF RouteAfterExecute
        <3>2. CASE r.failed = g.validated
            <4>1. r.failed # NoSql
                BY <1>1, <2>3, <3>2
            <4> QED BY <4>1 DEF RouteAfterExecute
        <3> QED BY <2>2, <3>1, <3>2
    <2> QED BY <2>3, <2>4, <2>5 DEF GraphInv
<1>6. CASE g.node = "repair"
    <2>1. CASE h = [g EXCEPT !.repairs = NoSql, !.node = "degrade"]
        <3>1. h \in DataState /\ h.node = "degrade"
            BY <1>1, <2>1 DEF DataState
        <3> QED BY <3>1 DEF GraphInv
    <2>2. CASE h = [g EXCEPT !.node = "raised"]
        <3>1. h \in DataState /\ h.node = "raised"
            BY <1>1, <2>2 DEF DataState
        <3> QED BY <3>1 DEF GraphInv
    <2>3. CASE ~(g.repairs + 1 > MaxRepair) /\ h \in Repaired(g)
        <3>1. PICK k \in Kind :
                h = [[g EXCEPT !.node = "validate", !.kind = k] EXCEPT !.repairs = @ + 1, !.version = @ + 1]
            BY <2>3 DEF Repaired, Written
        <3>2. g.repairs = g.version /\ g.version + 1 \in 0 .. MaxRepair /\ g.repairs + 1 \in 0 .. NoSql
            BY <1>1, <1>6, <2>3 DEF GraphInv, NoSql
        <3>3. h \in DataState /\ h.node = "validate" /\ h.repairs = h.version
            BY <1>1, <3>1, <3>2 DEF DataState
        <3> QED BY <3>3 DEF GraphInv
    <2> QED BY <1>6, <2>1, <2>2, <2>3 DEF Graph, RepairNode
<1>7. CASE g.node = "format"
    <2>1. h = [g EXCEPT !.node = "end"]
        BY <1>7 DEF Graph, FormatNode
    <2>2. h \in DataState /\ h.node = "end" /\ h.table = g.table /\ h.version = g.version /\ h.kind = g.kind
        BY <1>1, <2>1 DEF DataState
    <2> QED BY <1>7, <2>2 DEF GraphInv
<1>8. CASE g.node \in {"reject", "degrade"}
    <2>1. h \in {[g EXCEPT !.node = "end", !.table = NoSql],
                 [g EXCEPT !.node = "end", !.table = NoSql, !.repairs = NoSql]}
        BY <1>8 DEF Graph, RejectNode, DegradeNode
    <2>2. h \in DataState /\ h.node = "end" /\ h.table = NoSql
        BY <1>1, <2>1 DEF DataState
    <2> QED BY <2>2 DEF GraphInv
<1>9. g.node \in {"generate", "validate", "execute", "repair", "format", "reject", "degrade"}
    BY DEF Graph
<1> QED BY <1>3, <1>4, <1>5, <1>6, <1>7, <1>8, <1>9

\* Only a question whose graph ended with a table is recorded.
QueryInv ==
    /\ query \in [Query -> QueryState]
    /\ \A q \in Query :
         /\ GraphInv(query[q].graph)
         /\ query[q].pc = "record" => query[q].graph.node = "end" /\ query[q].graph.table # NoSql

\* One question goes on.
LEMMA QueryGoes ==
    ASSUME QueryInv, NEW q \in Query, NEW new \in QueryState,
           query' = [query EXCEPT ![q] = new], GraphInv(new.graph),
           new.pc = "record" => new.graph.node = "end" /\ new.graph.table # NoSql
    PROVE  QueryInv'
<1>1. /\ query' \in [Query -> QueryState]
      /\ \A p \in Query : query'[p] = IF p = q THEN new ELSE query[p]
    BY DEF QueryInv
<1>2. \A g : GraphInv(g) <=> GraphInv(g)'
    BY DEF GraphInv, DataState
<1> QED BY <1>1 DEF QueryInv

\* Every step of a query keeps it.
LEMMA QueryStep ==
    ASSUME QueryInv, DataNext
    PROVE  QueryInv'
<1> USE RepairAssumption, SessionAssumption
<1>1. CASE UNCHANGED query
    BY <1>1 DEF QueryInv
<1>2. ASSUME NEW q \in Query, Resolve(q) \/ QueryWorks(q) PROVE QueryInv'
    <2> DEFINE s == query[q]
    <2>1. s \in QueryState /\ GraphInv(s.graph)
        BY DEF QueryInv
    <2>2. Idle \in QueryState /\ GraphInv(Idle.graph) /\ Idle.pc = "idle"
        <3>1. Start \in DataState /\ Start.node = "generate" /\ Start.repairs = Start.version
            BY DEF Start, DataState, NoSql, Kind
        <3> QED BY <3>1 DEF Idle, QueryState, GraphInv
    <2>3. ASSUME NEW pc \in {"fetch", "resolve", "append", "insight"}, NEW t \in 0 .. MaxTurn, Finds(q, pc, t)
          PROVE  QueryInv'
        <3> DEFINE new == [Idle EXCEPT !.pc = pc, !.prev = t]
        <3>1. new \in QueryState /\ new.pc = pc /\ new.graph = Idle.graph
            BY <2>2 DEF QueryState, Waiting
        <3>2. query' = [query EXCEPT ![q] = new]
            BY <2>3 DEF Finds
        <3> HIDE DEF new
        <3> QED BY <2>2, <3>1, <3>2, QueryGoes
    <2>4. CASE query' = [query EXCEPT ![q] = Idle]
        BY <2>2, <2>4, QueryGoes
    <2>5. CASE Resolve(q)
        <3>1. PICK t \in 0 .. MaxTurn : Finds(q, "resolve", t) \/ Finds(q, "fetch", t)
            BY <2>5 DEF Resolve
        <3> QED BY <2>3, <3>1
    <2>6. CASE Resolved(q)
        <3> DEFINE new == [s EXCEPT !.pc = "graph", !.prev = 0]
        <3>1. new \in QueryState /\ new.pc = "graph" /\ new.graph = s.graph
            <4>1. 0 \in 0 .. MaxTurn
                OBVIOUS
            <4> QED BY <2>1, <4>1 DEF QueryState
        <3>2. query' = [query EXCEPT ![q] = new]
            BY <2>6 DEF Resolved
        <3> HIDE DEF new
        <3> QED BY <2>1, <3>1, <3>2, QueryGoes
    <2>7. CASE GraphStep(q)
        <3>1. PICK g \in Graph(s.graph) : query' = [query EXCEPT ![q].graph = g]
            BY <2>7 DEF GraphStep
        <3>2. GraphInv(g) /\ g \in DataState
            BY <2>1, GraphKeeps DEF GraphInv
        <3> DEFINE new == [s EXCEPT !.graph = g]
        <3>3. new \in QueryState /\ new.pc = "graph" /\ new.graph = g
            BY <2>1, <2>7, <3>2 DEF QueryState, GraphStep
        <3>4. query' = [query EXCEPT ![q] = new]
            BY <3>1
        <3> HIDE DEF new
        <3> QED BY <3>2, <3>3, <3>4, QueryGoes
    <2>8. CASE GraphEnds(q)
        <3>1. CASE s.graph.table # NoSql
            <4>1. query' = [query EXCEPT ![q].pc = "record"]
                BY <2>8, <3>1 DEF GraphEnds, Goto
            <4> DEFINE new == [s EXCEPT !.pc = "record"]
            <4>2. new \in QueryState /\ new.pc = "record" /\ new.graph = s.graph
                BY <2>1 DEF QueryState
            <4>3. query' = [query EXCEPT ![q] = new]
                BY <4>1
            <4>4. s.graph.node = "end"
                BY <2>8 DEF GraphEnds
            <4> HIDE DEF new
            <4> QED BY <2>1, <3>1, <4>2, <4>3, <4>4, QueryGoes
        <3> QED BY <2>4, <2>8, <3>1 DEF GraphEnds, QueryEnds
    <2>9. CASE RecordTurn(q)
        <3>1. \A t \in Turn : t \in 0 .. MaxTurn
            BY DEF Turn
        <3>2. PICK t \in 0 .. MaxTurn : Finds(q, "append", t) \/ Finds(q, "insight", t)
            <4>1. 0 \in 0 .. MaxTurn
                OBVIOUS
            <4> QED BY <2>9, <3>1, <4>1 DEF RecordTurn
        <3> QED BY <2>3, <3>2
    <2>10. CASE Fetched(q)
        <3>1. PICK t \in 0 .. MaxTurn : Finds(q, "resolve", t)
            BY <2>1, <2>10 DEF Fetched, QueryState
        <3> QED BY <2>3, <3>1
    <2>11. CASE Appended(q)
        <3>1. 0 \in 0 .. MaxTurn /\ Finds(q, "insight", 0)
            BY <2>11 DEF Appended
        <3> QED BY <2>3, <3>1
    <2> QED BY <1>2, <2>4, <2>5, <2>6, <2>7, <2>8, <2>9, <2>10, <2>11 DEF QueryWorks, Raise, Insight, QueryEnds
<1>3. CASE DataTick
    <2>1. \A q \in Query : query[q] \in QueryState /\ query[q].call \in 0 .. CallLife
        BY DEF QueryInv, QueryState
    <2>2. ASSUME NEW q \in Query
          PROVE  /\ query'[q] \in QueryState /\ query'[q].pc = query[q].pc
                 /\ query'[q].graph = query[q].graph
        <3> DEFINE c == query[q].call + 1
        <3>1. CASE query[q].pc \in Waiting
            <4>1. c \in 0 .. CallLife
                BY <1>3, <2>1, <3>1 DEF DataTick
            <4>2. query'[q] = [query[q] EXCEPT !.call = c]
                BY <1>3, <3>1 DEF DataTick
            <4> HIDE DEF c
            <4> QED BY <2>1, <4>1, <4>2 DEF QueryState
        <3>2. CASE query[q].pc \notin Waiting
            BY <1>3, <2>1, <3>2 DEF DataTick
        <3> QED BY <3>1, <3>2
    <2>3. query' \in [Query -> QueryState]
        BY <1>3, <2>2 DEF DataTick
    <2> QED BY <2>2, <2>3 DEF QueryInv
<1> QED BY <1>1, <1>2, <1>3 DEF DataNext

\* It holds at the start.
LEMMA QueryStart == Init => QueryInv
<1> SUFFICES ASSUME DataInit PROVE QueryInv
    BY DEF Init
<1>1. Idle \in QueryState /\ GraphInv(Idle.graph) /\ Idle.pc = "idle"
    <2>1. Start \in DataState /\ Start.node = "generate" /\ Start.repairs = Start.version
        BY RepairAssumption DEF Start, DataState, NoSql, Kind
    <2> QED BY <2>1, SessionAssumption DEF Idle, QueryState, GraphInv
<1> QED BY <1>1 DEF DataInit, QueryInv

\* It is kept by every step of the platform.
LEMMA QueryKept == QueryInv /\ [Next]_vars => QueryInv'
<1> SUFFICES ASSUME QueryInv, [Next]_vars, UNCHANGED data PROVE QueryInv'
    BY QueryStep, Apart
<1> QED BY DEF data, QueryInv

\* No SQL runs and no table is recorded unless that very text passed the gates,
\* whatever the bound of the repairs.
THEOREM SqlIsGated == Spec => []OnlyGatedSqlRuns
<1>1. QueryInv => OnlyGatedSqlRuns
    BY DEF QueryInv, GraphInv, OnlyGatedSqlRuns
<1> QED
    BY <1>1, QueryStart, QueryKept, PTL DEF Spec

-----------------------------------------------------------------------------
(***************************************************************************)
(* SessionCtx                                                              *)
(***************************************************************************)
\* The turns Redis was given since the key last expired.
Kept == {t \in inRedis : t > expired}

\* The list is the end of what is kept, in order, and is full when it is not all.
ListInv ==
    /\ sess \in Seq(Turn) /\ Len(sess) <= MaxTurns
    /\ age \in Seq(Nat) /\ Len(age) <= MaxTurn
    /\ inRedis \subseteq 1 .. Len(age) /\ expired \in 0 .. Len(age)
    /\ \A m, n \in 1 .. Len(sess) : m < n => sess[m] < sess[n]
    /\ \A n \in 1 .. Len(sess) : sess[n] \in Kept
    /\ \A t \in Kept : \/ \E n \in 1 .. Len(sess) : sess[n] = t
                       \/ /\ Len(sess) = MaxTurns
                          /\ \A n \in 1 .. Len(sess) : t < sess[n]

\* What was the last turn n ticks ago.
WasLast(t, n) == \A u \in Kept : u > t => age[u] <= n

\* What will have been the last turn n ticks before the next state.
StaysLast(t, n) == \A u \in Kept' : u > t => age'[u] <= n

\* A copy is no staler than its age and the call that read its list.
CopyInv ==
    /\ l1 \in [Backend -> Copy] /\ age \in Seq(0 .. Stale + 1)
    /\ \A i \in Backend : l1[i] # NoCopy => WasLast(l1[i].turn, Stale - l1[i].life)

\* A call that waits has seen the turn that was the last one when it began.
CallInv == \A q \in Query : query[q].pc \in Waiting =>
    WasLast(query[q].prev, query[q].call) /\ (query[q].pc = "append" => query[q].prev # 0)

SessionInv == ListInv /\ CopyInv /\ CallInv

\* The last turn of the list is the last that is kept.
LEMMA LastIsNewest ==
    ASSUME ListInv
    PROVE  /\ \A t \in Kept : t <= LastTurn(sess)
           /\ LastTurn(sess) \in 0 .. Len(age) /\ (LastTurn(sess) # 0 => LastTurn(sess) \in Turn)
<1> USE SessionAssumption
<1>1. CASE sess = <<>>
    <2>1. Kept = {}
        BY <1>1 DEF ListInv
    <2> QED BY <1>1, <2>1 DEF LastTurn, ListInv
<1>2. CASE sess # <<>>
    <2> DEFINE n == Len(sess)
    <2>1. n \in 1 .. Len(sess) /\ n \in Nat /\ sess[n] \in Turn /\ LastTurn(sess) = sess[n]
        BY <1>2 DEF ListInv, LastTurn
    <2>2. ASSUME NEW t \in Kept PROVE t <= sess[n]
        <3>1. t \in Nat /\ sess[n] \in Nat
            BY <2>1 DEF Kept, ListInv, Turn
        <3>2. ASSUME NEW m \in 1 .. Len(sess) PROVE sess[m] <= sess[n]
            <4>1. m = n \/ m < n
                BY <2>1
            <4>2. sess[m] \in Nat
                BY DEF ListInv, Turn
            <4> QED BY <2>1, <3>1, <4>1, <4>2 DEF ListInv
        <3>3. (\E m \in 1 .. Len(sess) : sess[m] = t) \/ t < sess[n]
            BY <2>1 DEF ListInv
        <3>4. CASE \E m \in 1 .. Len(sess) : sess[m] = t
            BY <3>2, <3>4
        <3> QED BY <3>1, <3>3, <3>4
    <2>3. sess[n] \in 1 .. Len(age)
        BY <2>1 DEF ListInv, Kept
    <2> QED BY <2>1, <2>2, <2>3 DEF ListInv
<1> QED BY <1>1, <1>2

\* The list after a turn is appended to it.
LEMMA AppendedList ==
    ASSUME ListInv, NEW t \in Turn, t = Len(age) + 1
    PROVE  LET list == AppendTurn(sess, t) IN
           /\ list \in Seq(Turn) /\ Len(list) <= MaxTurns
           /\ \A m, n \in 1 .. Len(list) : m < n => list[m] < list[n]
           /\ \A n \in 1 .. Len(list) : list[n] \in Kept \cup {t}
           /\ \A u \in Kept \cup {t} : \/ \E n \in 1 .. Len(list) : list[n] = u
                                      \/ /\ Len(list) = MaxTurns
                                         /\ \A n \in 1 .. Len(list) : u < list[n]
<1> USE SessionAssumption
<1> DEFINE list == AppendTurn(sess, t)
           all == Append(sess, t)
           k == Len(sess)
<1>1. /\ k \in Nat /\ all \in Seq(Turn) /\ Len(all) = k + 1 /\ all[k + 1] = t
      /\ \A n \in 1 .. k : all[n] = sess[n]
    BY DEF ListInv
<1>2. /\ t \in Nat /\ \A u \in Kept : u \in Nat /\ u < t
      /\ \A n \in 1 .. k : sess[n] \in Kept
    BY DEF ListInv, Kept
<1>3. \A m, n \in 1 .. k + 1 : m < n => all[m] < all[n]
    <2> SUFFICES ASSUME NEW m \in 1 .. k + 1, NEW n \in 1 .. k + 1, m < n PROVE all[m] < all[n]
        OBVIOUS
    <2>1. m \in 1 .. k /\ all[m] = sess[m]
        BY <1>1
    <2>2. CASE n = k + 1
        BY <1>1, <1>2, <2>1, <2>2
    <2>3. CASE n \in 1 .. k
        BY <1>1, <2>1, <2>3 DEF ListInv
    <2> QED BY <1>1, <2>2, <2>3
<1>4. \A n \in 1 .. k + 1 : all[n] \in Kept \cup {t}
    BY <1>1, <1>2
<1> HIDE DEF all
<1>5. CASE k + 1 <= MaxTurns
    <2>1. list = all
        BY <1>1, <1>5 DEF AppendTurn, all
    <2>2. \A u \in Kept \cup {t} : \E n \in 1 .. k + 1 : all[n] = u
        <3>1. \A u \in Kept : \E n \in 1 .. k : sess[n] = u
            BY <1>1, <1>5 DEF ListInv
        <3> QED BY <1>1, <3>1
    <2> HIDE DEF list, k
    <2> QED BY <1>1, <1>3, <1>4, <1>5, <2>1, <2>2 DEF list
<1>6. CASE ~(k + 1 <= MaxTurns)
    <2>1. k = MaxTurns /\ k \in Nat \ {0}
        BY <1>1, <1>6 DEF ListInv
    <2>2. list = SubSeq(all, 2, k + 1)
        <3>1. Len(all) > MaxTurns /\ Len(all) - MaxTurns + 1 = 2
            BY <1>1, <2>1
        <3> QED BY <1>1, <3>1 DEF AppendTurn, all
    <2>3. list \in Seq(Turn) /\ Len(list) = k /\ \A n \in 1 .. k : list[n] = all[n + 1]
        <3>1. 2 \in Nat /\ k + 1 \in Nat /\ 2 <= (k + 1) + 1 /\ (k + 1) - 2 + 1 = k
            BY <2>1
        <3> HIDE DEF k, list
        <3>2. SubSeq(all, 2, k + 1) = [i \in 1 .. k |-> all[i + 1]]
            <4>1. \A i \in 1 .. k : i + 2 - 1 = i + 1
                BY <3>1
            <4> QED BY <3>1, <4>1, <1>1, SMT
        <3> QED BY <1>1, <2>1, <2>2, <3>2
    <2>4. \A m, n \in 1 .. k : m < n => list[m] < list[n]
        BY <1>3, <2>1, <2>3
    <2>5. \A n \in 1 .. k : list[n] \in Kept \cup {t}
        BY <1>4, <2>1, <2>3
    <2>6. ASSUME NEW u \in Kept \cup {t}
          PROVE  (\E n \in 1 .. k : list[n] = u) \/ (\A n \in 1 .. k : u < list[n])
        <3>1. CASE u = t
            BY <1>1, <2>1, <2>3, <3>1
        <3>2. ASSUME NEW n \in 1 .. k, sess[n] = u, n # 1 PROVE \E m \in 1 .. k : list[m] = u
            <4>1. n - 1 \in 1 .. k /\ list[n - 1] = all[(n - 1) + 1] /\ (n - 1) + 1 = n
                BY <2>1, <2>3, <3>2
            <4> QED BY <1>1, <3>2, <4>1
        <3>3. CASE u = sess[1]
            <4>1. \A n \in 1 .. k : all[1] < list[n]
                <5> SUFFICES ASSUME NEW n \in 1 .. k PROVE all[1] < list[n]
                    OBVIOUS
                <5>1. 1 \in 1 .. k + 1 /\ n + 1 \in 1 .. k + 1 /\ 1 < n + 1
                    BY <2>1
                <5> QED BY <1>3, <2>3, <5>1
            <4> QED BY <1>1, <2>1, <3>3, <4>1
        <3>4. CASE \A n \in 1 .. k : u < sess[n] /\ u \in Kept
            <4>1. ASSUME NEW n \in 1 .. k PROVE u < list[n]
                <5>1. n + 1 \in 1 .. k + 1 /\ list[n] = all[n + 1]
                    BY <2>1, <2>3
                <5>2. CASE n = k
                    BY <1>1, <1>2, <3>4, <5>1, <5>2
                <5>3. CASE n # k
                    <6>1. n + 1 \in 1 .. k
                        BY <2>1, <5>3
                    <6> QED BY <1>1, <3>4, <5>1, <6>1
                <5> QED BY <5>2, <5>3
            <4> QED BY <4>1
        <3> QED BY <1>1, <3>1, <3>2, <3>3, <3>4 DEF ListInv
    <2> HIDE DEF list, k
    <2>7. /\ list \in Seq(Turn) /\ Len(list) <= MaxTurns
          /\ \A m, n \in 1 .. Len(list) : m < n => list[m] < list[n]
          /\ \A n \in 1 .. Len(list) : list[n] \in Kept \cup {t}
          /\ \A u \in Kept \cup {t} : \/ \E n \in 1 .. Len(list) : list[n] = u
                                     \/ /\ Len(list) = MaxTurns
                                        /\ \A n \in 1 .. Len(list) : u < list[n]
        BY <2>1, <2>3, <2>4, <2>5, <2>6
    <2> QED BY <2>7 DEF list
<1> QED BY <1>5, <1>6

\* A turn that reaches Redis.
LEMMA ListAppends ==
    ASSUME ListInv, NEW t \in Turn, t = Len(age) + 1, age' = Append(age, 0),
           sess' = AppendTurn(sess, t), inRedis' = inRedis \cup {t}, UNCHANGED expired
    PROVE  ListInv' /\ Kept' = Kept \cup {t}
<1>1. /\ age' \in Seq(Nat) /\ Len(age') = t /\ t <= MaxTurn /\ t \in Nat /\ t > expired
      /\ 1 .. Len(age) \subseteq 1 .. t
    <2>1. \A u \in inRedis : u <= Len(age)
        BY DEF ListInv
    <2>2. Len(age') = Len(age) + 1 /\ Len(age) \in Nat /\ expired \in 0 .. Len(age)
        BY DEF ListInv
    <2>3. age' \in Seq(Nat)
        BY DEF ListInv
    <2> QED BY <2>1, <2>2, <2>3, SessionAssumption DEF Turn
<1>2. Kept' = Kept \cup {t}
    BY <1>1 DEF Kept
<1>3. inRedis' \subseteq 1 .. Len(age') /\ expired' \in 0 .. Len(age')
    <2>1. inRedis \subseteq 1 .. Len(age) /\ expired \in 0 .. Len(age) /\ Len(age) \in Nat
        BY DEF ListInv
    <2>2. t \in 1 .. t /\ 0 .. Len(age) \subseteq 0 .. t
        BY <1>1, <2>1
    <2> QED BY <1>1, <2>1, <2>2
<1> DEFINE list == AppendTurn(sess, t)
<1>4. /\ list \in Seq(Turn) /\ Len(list) <= MaxTurns
      /\ \A m, n \in 1 .. Len(list) : m < n => list[m] < list[n]
      /\ \A n \in 1 .. Len(list) : list[n] \in Kept \cup {t}
      /\ \A u \in Kept \cup {t} : \/ \E n \in 1 .. Len(list) : list[n] = u
                                 \/ /\ Len(list) = MaxTurns
                                    /\ \A n \in 1 .. Len(list) : u < list[n]
    BY AppendedList
<1> HIDE DEF list
<1>5. sess' = list
    BY DEF list
<1> QED BY <1>1, <1>2, <1>3, <1>4, <1>5, SessionAssumption DEF ListInv

\* An instance takes over what a call of its own has waited for.
LEMMA CopyMade ==
    ASSUME ListInv, CopyInv, NEW i \in Backend, NEW t \in Turn, WasLast(t, CallLife), L1Set(i, t),
           UNCHANGED <<age, inRedis, expired>>
    PROVE  CopyInv'
<1> USE SessionAssumption
<1> DEFINE copy == [turn |-> t, life |-> L1Life]
<1>1. copy \in Copy /\ copy.turn = t /\ copy.life = L1Life
    BY DEF Copy
<1>2. l1' = [l1 EXCEPT ![i] = copy]
    BY DEF L1Set
<1> HIDE DEF copy
<1>3. /\ l1' \in [Backend -> Copy] /\ l1'[i] = copy
      /\ \A j \in Backend \ {i} : l1'[j] = l1[j]
    BY <1>1, <1>2 DEF CopyInv
<1>4. Kept' = Kept /\ Stale - L1Life = CallLife
    BY DEF Kept, Stale
<1> QED BY <1>1, <1>3, <1>4 DEF CopyInv, WasLast

\* A turn that is numbered makes nothing staler.
LEMMA TurnNumbered ==
    ASSUME SessionInv, NEW t, NewTurn(t), inRedis' \subseteq inRedis \cup {t}, UNCHANGED expired
    PROVE  /\ t \in Turn /\ t \in Nat /\ t # 0 /\ Len(age') = t /\ t = Len(age) + 1
           /\ age' \in Seq(0 .. Stale + 1) /\ age' \in Seq(Nat)
           /\ Kept' \subseteq Kept \cup {t} /\ (\A u \in Kept : u < t /\ u \in Nat)
           /\ \A s, n \in Nat : WasLast(s, n) => StaysLast(s, n)
           /\ \A n \in Nat : StaysLast(t, n)
<1> USE SessionAssumption
<1>1. /\ age \in Seq(0 .. Stale + 1) /\ age \in Seq(Nat) /\ Len(age) \in Nat
      /\ inRedis \subseteq 1 .. Len(age) /\ Stale \in Nat
    BY DEF SessionInv, CopyInv, ListInv, Stale
<1>2. /\ t = Len(age) + 1 /\ t \in Turn /\ t \in Nat /\ t # 0 /\ age' = Append(age, 0)
    BY <1>1 DEF NewTurn, Turn
<1>3. /\ age' \in Seq(0 .. Stale + 1) /\ age' \in Seq(Nat) /\ Len(age') = t /\ age'[t] = 0
      /\ \A u \in 1 .. Len(age) : age'[u] = age[u]
    BY <1>1, <1>2
<1>4. Kept' \subseteq Kept \cup {t} /\ \A u \in Kept : u \in 1 .. Len(age) /\ u < t /\ u \in Nat
    <2>1. Kept' \subseteq Kept \cup {t}
        BY DEF Kept
    <2>2. \A u \in Kept : u \in 1 .. Len(age)
        BY <1>1 DEF Kept
    <2> QED BY <1>1, <1>2, <2>1, <2>2
<1>5. ASSUME NEW s \in Nat, NEW n \in Nat, WasLast(s, n) PROVE StaysLast(s, n)
    BY <1>3, <1>4, <1>5 DEF WasLast, StaysLast
<1>6. ASSUME NEW n \in Nat PROVE StaysLast(t, n)
    BY <1>2, <1>4 DEF WasLast, StaysLast
<1> QED BY <1>2, <1>3, <1>4, <1>5, <1>6

\* What copies and calls know stays so when a turn is numbered.
LEMMA CopiesStay ==
    ASSUME SessionInv, QueryInv, NEW t, NewTurn(t), inRedis' \subseteq inRedis \cup {t}, UNCHANGED expired
    PROVE  /\ \A i \in Backend : l1[i] # NoCopy => StaysLast(l1[i].turn, Stale - l1[i].life)
           /\ \A q \in Query : query[q].pc \in Waiting => StaysLast(query[q].prev, query[q].call)
<1> USE SessionAssumption
<1>1. \A s, n \in Nat : WasLast(s, n) => StaysLast(s, n)
    BY TurnNumbered
<1>2. \A i \in Backend : l1[i] # NoCopy => l1[i].turn \in Nat /\ Stale - l1[i].life \in Nat
    BY DEF SessionInv, CopyInv, Copy, Turn, Stale
<1>3. \A q \in Query : query[q].prev \in Nat /\ query[q].call \in Nat
    BY DEF QueryInv, QueryState
<1> QED BY <1>1, <1>2, <1>3 DEF SessionInv, CopyInv, CallInv

\* Recording a turn keeps it.
LEMMA RecordKeeps ==
    ASSUME SessionInv, QueryInv, NEW q \in Query, RecordTurn(q)
    PROVE  SessionInv'
<1> USE SessionAssumption
<1> DEFINE i == Home[q]
<1>1. PICK t \in Turn : \/ AppendRuns(t) /\ Finds(q, "append", t)
                        \/ AppendFails(i, t) /\ Finds(q, "insight", 0)
    BY DEF RecordTurn
<1>2. i \in Backend /\ NewTurn(t) /\ inRedis' \subseteq inRedis \cup {t} /\ UNCHANGED expired
    BY <1>1, HomeAssumption DEF AppendRuns, AppendFails
<1>3. /\ t \in Nat /\ t # 0 /\ Len(age') = t /\ t = Len(age) + 1
      /\ age' \in Seq(0 .. Stale + 1) /\ age' \in Seq(Nat)
      /\ Kept' \subseteq Kept \cup {t} /\ (\A u \in Kept : u < t /\ u \in Nat)
      /\ \A n \in Nat : StaysLast(t, n)
    BY <1>2, TurnNumbered
<1>4. /\ \A j \in Backend : l1[j] # NoCopy => StaysLast(l1[j].turn, Stale - l1[j].life)
      /\ \A p \in Query : query[p].pc \in Waiting => StaysLast(query[p].prev, query[p].call)
    BY <1>2, CopiesStay
<1>5. ASSUME NEW pc, NEW s, Finds(q, pc, s)
      PROVE  /\ query'[q].pc = pc /\ query'[q].prev = s /\ query'[q].call = 0
             /\ \A p \in Query \ {q} : query'[p] = query[p]
    BY <1>5 DEF Finds, QueryInv, Idle
<1>6. CASE AppendRuns(t) /\ Finds(q, "append", t)
    <2>1. ListInv'
        BY <1>3, <1>6, ListAppends DEF SessionInv, AppendRuns, NewTurn
    <2>2. CopyInv'
        BY <1>3, <1>4, <1>6 DEF CopyInv, SessionInv, AppendRuns, WasLast, StaysLast
    <2>3. CallInv'
        BY <1>3, <1>4, <1>5, <1>6 DEF CallInv, SessionInv, WasLast, StaysLast
    <2> QED BY <2>1, <2>2, <2>3 DEF SessionInv
<1>7. CASE AppendFails(i, t) /\ Finds(q, "insight", 0)
    <2>1. ListInv'
        <3>1. Kept' = Kept /\ Len(age) <= Len(age') /\ Len(age') <= MaxTurn /\ Len(age) \in Nat
            BY <1>3, <1>7 DEF Kept, Turn, AppendFails, SessionInv, ListInv
        <3>2. inRedis' \subseteq 1 .. Len(age') /\ expired' \in 0 .. Len(age')
            BY <1>3, <1>7, <3>1 DEF SessionInv, ListInv, AppendFails
        <3> QED BY <1>3, <1>7, <3>1, <3>2 DEF SessionInv, ListInv, AppendFails
    <2>2. CopyInv'
        <3> DEFINE copy == [turn |-> t, life |-> L1Life]
        <3>1. copy \in Copy /\ copy.turn = t /\ Stale - copy.life \in Nat
            BY DEF Copy, Stale
        <3>2. l1' = [l1 EXCEPT ![i] = copy]
            BY <1>7 DEF L1Set, AppendFails
        <3> HIDE DEF copy
        <3>3. /\ l1' \in [Backend -> Copy] /\ l1'[i] = copy
              /\ \A j \in Backend \ {i} : l1'[j] = l1[j]
            BY <1>2, <3>1, <3>2 DEF SessionInv, CopyInv
        <3>4. StaysLast(t, Stale - copy.life)
            BY <1>3, <3>1
        <3> QED BY <1>3, <1>4, <3>1, <3>3, <3>4 DEF CopyInv, WasLast, StaysLast
    <2>3. CallInv'
        BY <1>4, <1>5, <1>7 DEF CallInv, SessionInv, Waiting, WasLast, StaysLast
    <2> QED BY <2>1, <2>2, <2>3 DEF SessionInv
<1> QED BY <1>1, <1>6, <1>7

\* So does a step of one question that leaves Redis as it is.
LEMMA QueryAlone ==
    ASSUME SessionInv, UNCHANGED <<sess, age, inRedis, expired>>, CopyInv',
           NEW q \in Query, \A p \in Query \ {q} : query'[p] = query[p],
           query'[q].pc \in Waiting => WasLast(query'[q].prev, query'[q].call) /\ query'[q].pc # "append"
    PROVE  SessionInv'
<1>1. Kept' = Kept
    BY DEF Kept
<1>2. ListInv'
    BY <1>1 DEF SessionInv, ListInv
<1>3. CallInv'
    BY <1>1 DEF SessionInv, CallInv, WasLast, StaysLast
<1> QED BY <1>2, <1>3 DEF SessionInv

\* Asking for the last turn, and the answers of Redis, keep it.
LEMMA RecentKeeps ==
    ASSUME SessionInv, QueryInv, NEW q \in Query, Resolve(q) \/ Fetched(q) \/ Appended(q)
    PROVE  SessionInv'
<1> USE SessionAssumption
<1> DEFINE i == Home[q]  t == query[q].prev
<1>1. i \in Backend /\ UNCHANGED <<sess, age, inRedis, expired>>
    BY HomeAssumption DEF Resolve, Fetched, Appended, RecentFromCopy, RecentReads, RecentLocal,
        RecentAnswered, AppendAnswered, AppendLost, session
<1>2. ASSUME NEW pc, NEW s, Finds(q, pc, s)
      PROVE  /\ query'[q].pc = pc /\ query'[q].prev = s /\ query'[q].call = 0
             /\ \A p \in Query \ {q} : query'[p] = query[p]
    BY <1>2 DEF Finds, QueryInv, Idle
<1>3. UNCHANGED l1 => CopyInv'
    BY <1>1 DEF SessionInv, CopyInv, WasLast, StaysLast, Kept
<1>4. CASE Resolve(q)
    <2>1. UNCHANGED l1
        BY <1>4 DEF Resolve, RecentFromCopy, RecentReads, RecentLocal, session
    <2>2. ASSUME NEW s \in 0 .. MaxTurn, RecentReads(i, s) PROVE WasLast(s, 0)
        <3>1. \A u \in Kept : u <= s
            BY <2>2, LastIsNewest DEF RecentReads, SessionInv
        <3>2. \A u \in Kept : u \in Nat
            BY DEF SessionInv, ListInv, Kept
        <3> QED BY <3>1, <3>2 DEF WasLast
    <2>3. PICK s \in 0 .. MaxTurn : \/ RecentReads(i, s) /\ Finds(q, "fetch", s)
                                    \/ Finds(q, "resolve", s)
        BY <1>4 DEF Resolve
    <2> QED BY <1>1, <1>2, <1>3, <2>1, <2>2, <2>3, QueryAlone DEF Waiting
<1>5. CASE Fetched(q) \/ Appended(q)
    <2>1. /\ WasLast(t, query[q].call) /\ query[q].call \in 0 .. CallLife /\ t \in 0 .. MaxTurn
          /\ query[q].pc = "append" => t # 0
        BY <1>5 DEF Fetched, Appended, Waiting, SessionInv, CallInv, QueryInv, QueryState
    <2>2. WasLast(t, CallLife)
        <3>1. \A u \in Kept : age[u] \in Nat
            BY DEF SessionInv, ListInv, Kept
        <3> QED BY <2>1, <3>1 DEF WasLast, StaysLast
    <2>3. UNCHANGED l1 \/ (t # 0 /\ L1Set(i, t))
        BY <1>5, <2>1 DEF Fetched, Appended, RecentAnswered, RecentLocal, AppendAnswered, AppendLost, session
    <2>4. t # 0 => t \in Turn
        BY <2>1 DEF Turn
    <2>5. CopyInv'
        BY <1>1, <1>3, <2>2, <2>3, <2>4, CopyMade DEF SessionInv
    <2>6. \E pc \in {"resolve", "insight"}, s \in 0 .. MaxTurn : Finds(q, pc, s)
        BY <1>5, <2>1 DEF Fetched, Appended
    <2> QED BY <1>1, <1>2, <2>5, <2>6, QueryAlone DEF Waiting
<1> QED BY <1>4, <1>5

\* The passing of time keeps it.
LEMMA SessionTickKeeps ==
    ASSUME SessionInv, QueryInv, DataTick
    PROVE  SessionInv'
<1> USE SessionAssumption
<1> DEFINE grown == [t \in 1 .. Len(age) |-> IF age[t] > Stale THEN age[t] ELSE age[t] + 1]
<1>1. /\ UNCHANGED <<sess, inRedis, expired>> /\ Kept' = Kept /\ age' = grown /\ Stale \in Nat
      /\ age \in Seq(0 .. Stale + 1) /\ Len(age) \in Nat /\ Len(age) <= MaxTurn
      /\ \A t \in 1 .. Len(age) : age[t] \in 0 .. Stale + 1
    BY DEF DataTick, SessionTick, SessionInv, CopyInv, ListInv, Kept, Stale
<1>2. /\ age' \in Seq(0 .. Stale + 1) /\ age' \in Seq(Nat) /\ Len(age') = Len(age)
      /\ \A t \in 1 .. Len(age) : age'[t] = IF age[t] > Stale THEN age[t] ELSE age[t] + 1
    <2>1. \A t \in 1 .. Len(age) : grown[t] \in 0 .. Stale + 1 /\ grown[t] \in Nat
        BY <1>1
    <2>2. grown \in Seq(0 .. Stale + 1) /\ grown \in Seq(Nat) /\ Len(grown) = Len(age)
        BY <1>1, <2>1
    <2> QED BY <1>1, <2>1, <2>2
<1>3. ListInv'
    BY <1>1, <1>2 DEF SessionInv, ListInv
<1>4. ASSUME NEW t, NEW n \in Nat, WasLast(t, n) PROVE StaysLast(t, n + 1)
    <2>1. \A u \in Kept : u \in 1 .. Len(age) /\ age[u] \in Nat
        BY <1>1 DEF Kept, SessionInv, ListInv
    <2> QED BY <1>1, <1>2, <1>4, <2>1 DEF WasLast, StaysLast
<1>5. CopyInv'
    <2>1. \A i \in Backend : l1[i] \in Copy
        BY DEF SessionInv, CopyInv
    <2>2. \A i \in Backend : l1'[i] = IF l1[i].life = 0 THEN NoCopy ELSE [l1[i] EXCEPT !.life = @ - 1]
        BY DEF DataTick, SessionTick
    <2>3. ASSUME NEW i \in Backend
          PROVE  /\ l1'[i] \in Copy
                 /\ l1'[i] # NoCopy =>
                      /\ l1[i] # NoCopy /\ l1'[i].turn = l1[i].turn
                      /\ l1[i].life \in 1 .. L1Life /\ l1'[i].life = l1[i].life - 1
        <3>1. CASE l1[i].life = 0
            BY <2>2, <3>1 DEF Copy
        <3>2. CASE l1[i].life # 0
            <4>1. l1[i] \in [turn : Turn, life : 0 .. L1Life] /\ l1[i] # NoCopy
                BY <2>1, <3>2 DEF Copy, NoCopy
            <4>2. l1'[i] = [l1[i] EXCEPT !.life = @ - 1] /\ l1[i].life - 1 \in 0 .. L1Life
                BY <2>2, <3>2, <4>1
            <4> QED BY <3>2, <4>1, <4>2 DEF Copy
        <3> QED BY <3>1, <3>2
    <2>4. l1' \in [Backend -> Copy]
        BY <2>3 DEF DataTick, SessionTick
    <2>5. ASSUME NEW i \in Backend, l1'[i] # NoCopy PROVE StaysLast(l1'[i].turn, Stale - l1'[i].life)
        <3>1. WasLast(l1[i].turn, Stale - l1[i].life) /\ Stale - l1[i].life \in Nat
            BY <2>3, <2>5 DEF SessionInv, CopyInv, Stale
        <3>2. (Stale - l1[i].life) + 1 = Stale - l1'[i].life
            BY <1>1, <2>3, <2>5
        <3>3. StaysLast(l1[i].turn, (Stale - l1[i].life) + 1)
            BY <1>4, <3>1
        <3> QED BY <2>3, <2>5, <3>2, <3>3 DEF WasLast, StaysLast
    <2> QED BY <1>1, <1>2, <2>4, <2>5 DEF CopyInv, WasLast, StaysLast
<1>6. CallInv'
    <2> SUFFICES ASSUME NEW q \in Query, query'[q].pc \in Waiting
                 PROVE  StaysLast(query'[q].prev, query'[q].call) /\ (query'[q].pc = "append" => query'[q].prev # 0)
        BY DEF CallInv, WasLast, StaysLast
    <2>1. /\ query[q].pc \in Waiting /\ query'[q].pc = query[q].pc /\ query'[q].prev = query[q].prev
          /\ query'[q].call = query[q].call + 1 /\ query[q].call \in Nat
        BY DEF DataTick, QueryInv, QueryState
    <2> QED BY <1>4, <2>1 DEF SessionInv, CallInv, WasLast, StaysLast
<1> QED BY <1>3, <1>5, <1>6 DEF SessionInv

\* So does the end of the key.
LEMMA ExpireKeeps ==
    ASSUME SessionInv, Expire, UNCHANGED query
    PROVE  SessionInv'
<1> USE SessionAssumption
<1>1. /\ sess' = <<>> /\ expired' = LastTurn(sess) /\ UNCHANGED <<l1, age, inRedis>>
      /\ LastTurn(sess) \in 0 .. Len(age)
      /\ \A t \in Kept : t <= LastTurn(sess)
    BY LastIsNewest DEF Expire, SessionInv
<1>2. expired <= LastTurn(sess)
    <2>1. Len(sess) \in 1 .. Len(sess) /\ LastTurn(sess) = sess[Len(sess)]
        BY DEF Expire, LastTurn, SessionInv, ListInv
    <2>2. LastTurn(sess) > expired
        BY <2>1 DEF SessionInv, ListInv, Kept
    <2> QED BY <1>1, <2>2 DEF SessionInv, ListInv
<1>3. Kept' = {}
    <2> SUFFICES ASSUME NEW t \in inRedis, t > LastTurn(sess) PROVE FALSE
        BY <1>1 DEF Kept
    <2>1. t \in Nat /\ LastTurn(sess) \in Nat /\ expired \in Nat
        BY <1>1 DEF SessionInv, ListInv
    <2>2. t \in Kept
        BY <1>2, <2>1 DEF Kept
    <2> QED BY <1>1, <2>1, <2>2
<1>4. ListInv'
    <2>1. sess' \in Seq(Turn) /\ Len(sess') = 0
        BY <1>1
    <2> QED BY <1>1, <1>3, <2>1 DEF SessionInv, ListInv
<1>5. CopyInv' /\ CallInv'
    BY <1>1, <1>3 DEF SessionInv, CopyInv, CallInv, WasLast, StaysLast
<1> QED BY <1>4, <1>5 DEF SessionInv

\* Every step of a query keeps it.
LEMMA SessionStep ==
    ASSUME SessionInv, QueryInv, DataNext
    PROVE  SessionInv'
<1>1. ASSUME NEW q \in Query, Resolved(q) \/ Raise(q) \/ GraphStep(q) \/ GraphEnds(q) \/ Insight(q)
      PROVE  SessionInv'
    <2>1. UNCHANGED session /\ CopyInv'
        BY <1>1 DEF Resolved, Raise, GraphStep, GraphEnds, Insight, session, SessionInv, CopyInv, WasLast, StaysLast, Kept
    <2>2. (\A p \in Query \ {q} : query'[p] = query[p]) /\ query'[q].pc \notin Waiting
        BY <1>1 DEF Resolved, Raise, GraphStep, GraphEnds, Insight, Goto, QueryEnds, Idle, Waiting,
            QueryInv, QueryState
    <2> QED BY <2>1, <2>2, QueryAlone DEF session
<1> QED BY <1>1, RecordKeeps, RecentKeeps, SessionTickKeeps, ExpireKeeps DEF DataNext, QueryWorks

\* Only finitely many turns are kept.
LEMMA KeptIsFinite ==
    ASSUME ListInv
    PROVE  Kept \subseteq Nat /\ IsFiniteSet(Kept)
<1>1. Len(age) \in Nat /\ inRedis \subseteq 1 .. Len(age)
    BY DEF ListInv
<1>2. Len(age) \in Int /\ 1 .. Len(age) \subseteq Nat
    BY <1>1
<1>3. Kept \in SUBSET (1 .. Len(age))
    BY <1>1 DEF Kept
<1>4. IsFiniteSet(1 .. Len(age))
    BY <1>2, FS_Interval
<1> QED BY <1>2, <1>3, <1>4, FS_Subset

\* Few turns follow a turn of the list, many a turn that was dropped from it.
LEMMA TurnsAfterKept ==
    ASSUME ListInv, NEW n \in 1 .. Len(sess)
    PROVE  Cardinality({u \in Kept : u > sess[n]}) < MaxTurns
<1> DEFINE after == {u \in Kept : u > sess[n]}
           f == [m \in n + 1 .. Len(sess) |-> sess[m]]
<1>1. Len(sess) \in Nat /\ n \in Nat /\ n >= 1 /\ \A m \in 1 .. Len(sess) : sess[m] \in Nat
    BY KeptIsFinite DEF ListInv
<1>2. \A u \in after : \E m \in n + 1 .. Len(sess) : sess[m] = u
    <2> SUFFICES ASSUME NEW u \in Kept, u > sess[n] PROVE \E m \in n + 1 .. Len(sess) : sess[m] = u
        OBVIOUS
    <2>1. u \in Nat /\ ~(u < sess[n])
        BY <1>1 DEF Kept, ListInv
    <2>2. PICK m \in 1 .. Len(sess) : sess[m] = u
        BY <2>1 DEF ListInv
    <2>3. ~(m < n) /\ m # n
        BY <1>1, <2>1, <2>2 DEF ListInv
    <2>4. m \in n + 1 .. Len(sess)
        BY <1>1, <2>3
    <2> QED BY <2>2, <2>4
<1>3. f \in Surjection(n + 1 .. Len(sess), after)
    <2>1. \A m \in n + 1 .. Len(sess) : m \in 1 .. Len(sess) /\ n < m
        BY <1>1
    <2>2. \A m \in n + 1 .. Len(sess) : sess[m] \in after
        BY <1>1, <2>1 DEF ListInv
    <2> HIDE DEF after
    <2> QED BY <1>2, <2>2 DEF Surjection
<1>4. IsFiniteSet(n + 1 .. Len(sess)) /\ Cardinality(n + 1 .. Len(sess)) < MaxTurns
    <2>1. n + 1 \in Int /\ Len(sess) \in Int /\ Len(sess) <= MaxTurns
        BY <1>1 DEF ListInv
    <2>2. /\ IsFiniteSet(n + 1 .. Len(sess))
          /\ Cardinality(n + 1 .. Len(sess)) = IF n + 1 > Len(sess) THEN 0 ELSE Len(sess) - (n + 1) + 1
        BY <2>1, FS_Interval
    <2> QED BY <1>1, <2>1, <2>2, SessionAssumption
<1>5. IsFiniteSet(after) /\ Cardinality(after) <= Cardinality(n + 1 .. Len(sess))
    BY <1>3, <1>4, FS_Surjection
<1>6. Cardinality(after) \in Nat /\ Cardinality(n + 1 .. Len(sess)) \in Nat
    BY <1>4, <1>5, FS_CardinalityType
<1> QED BY <1>4, <1>5, <1>6, SessionAssumption

\* A turn that is not listed has a whole list of newer ones.
LEMMA TurnsAfterDropped ==
    ASSUME ListInv, NEW t \in Kept, \A n \in 1 .. Len(sess) : sess[n] # t
    PROVE  ~(Cardinality({u \in Kept : u > t}) < MaxTurns)
<1> DEFINE after == {u \in Kept : u > t}
           f == [n \in 1 .. MaxTurns |-> sess[n]]
<1>1. Len(sess) = MaxTurns /\ \A n \in 1 .. MaxTurns : t < sess[n] /\ sess[n] \in Kept
    BY DEF ListInv
<1>2. t \in Nat /\ (\A n \in 1 .. MaxTurns : sess[n] \in Nat) /\ MaxTurns \in Nat
    BY <1>1, KeptIsFinite, SessionAssumption
<1>3. f \in Injection(1 .. MaxTurns, after)
    <2>1. \A n \in 1 .. MaxTurns : sess[n] \in after
        BY <1>1, <1>2
    <2>2. \A m, n \in 1 .. MaxTurns : sess[m] = sess[n] => m = n
        <3> SUFFICES ASSUME NEW m \in 1 .. MaxTurns, NEW n \in 1 .. MaxTurns, m < n
                     PROVE  sess[m] # sess[n]
            BY <1>2
        <3>1. sess[m] < sess[n]
            BY <1>1 DEF ListInv
        <3> QED BY <1>2, <3>1
    <2> HIDE DEF after
    <2> QED BY <2>1, <2>2 DEF Injection, IsInjective
<1>4. IsFiniteSet(after)
    <2>1. after \in SUBSET Kept
        OBVIOUS
    <2> QED BY <2>1, KeptIsFinite, FS_Subset
<1>5. Cardinality(1 .. MaxTurns) <= Cardinality(after)
    BY <1>3, <1>4, FS_Injection
<1>6. Cardinality(1 .. MaxTurns) = MaxTurns
    <2>1. 1 \in Int /\ MaxTurns \in Int /\ MaxTurns >= 1
        BY SessionAssumption
    <2> QED BY <2>1, FS_Interval
<1>7. Cardinality(after) \in Nat
    BY <1>4, FS_CardinalityType
<1> QED BY <1>2, <1>5, <1>6, <1>7

\* It holds at the start.
LEMMA SessionStart == Init => SessionInv
<1> SUFFICES ASSUME SessionInit, DataInit PROVE SessionInv
    BY DEF Init, DataInit
<1> USE SessionAssumption
<1>1. Kept = {} /\ sess = <<>> /\ age = <<>> /\ inRedis = {} /\ expired = 0
    BY DEF SessionInit, Kept
<1>2. l1 \in [Backend -> Copy] /\ \A i \in Backend : l1[i] = NoCopy
    BY DEF SessionInit, Copy
<1>3. ListInv
    BY <1>1 DEF ListInv
<1>4. CopyInv
    BY <1>1, <1>2 DEF CopyInv
<1>5. CallInv
    BY DEF DataInit, CallInv, Idle, Waiting
<1> QED BY <1>3, <1>4, <1>5 DEF SessionInv

\* It is kept by every step of the platform.
LEMMA SessionKept == SessionInv /\ QueryInv /\ [Next]_vars => SessionInv'
<1> SUFFICES ASSUME SessionInv, [Next]_vars, UNCHANGED data PROVE SessionInv'
    BY SessionStep, Apart
<1> QED BY DEF data, session, SessionInv, ListInv, CopyInv, CallInv, WasLast, Kept

\* Redis holds exactly the last turns that reached it, in order, for every
\* number of instances that append at once and every length of the list.
THEOREM LastTurnsAreHeld == Spec => []RedisHoldsTheLastTurns
<1>1. SessionInv => RedisHoldsTheLastTurns
    <2> SUFFICES ASSUME ListInv
                 PROVE  {sess[n] : n \in 1 .. Len(sess)} =
                            {t \in Kept : Cardinality({u \in Kept : u > t}) < MaxTurns}
        BY DEF SessionInv, ListInv, RedisHoldsTheLastTurns, Kept
    <2>1. ASSUME NEW n \in 1 .. Len(sess)
          PROVE  sess[n] \in Kept /\ Cardinality({u \in Kept : u > sess[n]}) < MaxTurns
        BY TurnsAfterKept DEF ListInv
    <2>2. ASSUME NEW t \in Kept, Cardinality({u \in Kept : u > t}) < MaxTurns
          PROVE  \E n \in 1 .. Len(sess) : sess[n] = t
        BY <2>2, TurnsAfterDropped
    <2> QED BY <2>1, <2>2
<1> QED
    BY <1>1, SessionStart, SessionKept, QueryStart, QueryKept, PTL DEF Spec

\* However stale a copy, what a question is resolved against was the last turn
\* Redis had no longer ago than L1Life and a call, unless Redis gave no answer.
THEOREM ResolvesRecent == Spec => ResolvedAgainstRecent
<1> DEFINE Recently ==
        \A q \in Query : query[q].pc \in {"idle", "fetch"} /\ query'[q].pc = "resolve" =>
            \/ query'[q].prev = local[Home[q]] /\ (query[q].pc = "idle" => l1[Home[q]] = NoCopy)
            \/ \A t \in inRedis : t > query'[q].prev /\ t > expired => age[t] <= L1Life + CallLife
<1>1. SessionInv /\ QueryInv /\ [Next]_vars => [Recently]_data
    <2> SUFFICES ASSUME SessionInv, QueryInv, DataNext, NEW q \in Query,
                        query[q].pc \in {"idle", "fetch"}, query'[q].pc = "resolve"
                 PROVE  \/ query'[q].prev = local[Home[q]] /\ (query[q].pc = "idle" => l1[Home[q]] = NoCopy)
                        \/ WasLast(query'[q].prev, Stale)
        BY Apart DEF Kept, WasLast, Stale
    <2> DEFINE i == Home[q]
    <2>1. i \in Backend /\ Stale \in Nat /\ \A u \in Kept : age[u] \in Nat
        BY HomeAssumption, SessionAssumption DEF Stale, Kept, SessionInv, ListInv
    <2>2. Resolve(q) \/ Fetched(q)
        <3>1. ASSUME NEW p \in Query, Resolve(p) \/ Fetched(p) PROVE p = q
            BY <3>1 DEF Resolve, Fetched, Finds, QueryInv
        <3>2. ASSUME NEW p \in Query, QueryWorks(p), ~Fetched(p) PROVE FALSE
            BY <3>2 DEF QueryWorks, Resolved, Raise, GraphStep, GraphEnds, RecordTurn, Appended, Insight,
                        Goto, QueryEnds, Finds, Idle, QueryInv, QueryState
        <3>3. ~(Expire /\ UNCHANGED query) /\ ~DataTick
            BY DEF DataTick, QueryInv, QueryState
        <3> QED BY <3>1, <3>2, <3>3 DEF DataNext
    <2>3. ASSUME NEW t, NEW n \in Nat, WasLast(t, n), n <= Stale PROVE WasLast(t, Stale)
        BY <2>1, <2>3 DEF WasLast
    <2>4. CASE Resolve(q)
        <3>1. PICK t \in 0 .. MaxTurn :
                /\ query'[q].prev = t
                /\ RecentFromCopy(i, t) \/ (l1[i] = NoCopy /\ RecentLocal(i, t))
            BY <2>4 DEF Resolve, Finds, QueryInv, Idle
        <3>2. CASE RecentFromCopy(i, t)
            <4>1. WasLast(t, Stale - l1[i].life) /\ l1[i].life \in 0 .. L1Life
                BY <2>1, <3>2 DEF RecentFromCopy, SessionInv, CopyInv, Copy
            <4>2. Stale - l1[i].life \in Nat /\ Stale - l1[i].life <= Stale
                BY <2>1, <4>1, SessionAssumption DEF Stale
            <4> QED BY <2>3, <3>1, <4>1, <4>2
        <3> QED BY <3>1, <3>2 DEF RecentLocal
    <2>5. CASE Fetched(q)
        <3>1. /\ query[q].pc = "fetch"
              /\ query'[q].prev = query[q].prev \/ query'[q].prev = local[i]
            BY <2>5 DEF Fetched, RecentLocal, Finds, QueryInv, Idle
        <3>2. WasLast(query[q].prev, query[q].call) /\ query[q].call \in Nat /\ query[q].call <= Stale
            BY <3>1, SessionAssumption DEF SessionInv, CallInv, Waiting, QueryInv, QueryState, Stale
        <3> QED BY <2>3, <3>1, <3>2
    <2> QED BY <2>2, <2>4, <2>5
<1> QED
    BY <1>1, SessionStart, SessionKept, QueryStart, QueryKept, PTL DEF Spec, ResolvedAgainstRecent

-----------------------------------------------------------------------------
(***************************************************************************)
(* Ranking.  The provers cannot instantiate a theorem of induction, so     *)
(* where the argument is one, the least counterexample is taken: a set of  *)
(* numbers has a least element (HasLeast), since the subset order on       *)
(* finite sets is well founded.                                            *)
(***************************************************************************)
\* A non-empty set of numbers has a least one.  (This stands in for induction
\* on numbers, which the provers cannot instantiate.)
LEMMA HasLeast ==
    ASSUME NEW T, T \subseteq Nat, T # {}
    PROVE  \E m \in T : \A n \in T : m <= n
<1> DEFINE R == StrictSubsetOrdering(Nat)
           Below == {0 .. n : n \in T}
<1>1. Below \subseteq FiniteSubsetsOf(Nat)
    <2>1. ASSUME NEW n \in T PROVE 0 .. n \in SUBSET Nat /\ IsFiniteSet(0 .. n)
        BY <2>1, FS_Interval
    <2> QED BY <2>1 DEF FiniteSubsetsOf
<1>2. IsWellFoundedOn(R, FiniteSubsetsOf(Nat))
    BY FS_StrictSubsetOrderingWellFounded
<1>3. Below # {}
    OBVIOUS
<1> HIDE DEF R
<1>4. \E B \in Below : \A C \in Below : ~ (<<C, B>> \in R)
    <2> HIDE DEF Below
    <2> QED BY <1>1, <1>2, <1>3, WFMin
<1>5. PICK m \in T : \A n \in T : ~ (<<0 .. n, 0 .. m>> \in R)
    BY <1>4
<1>6. ASSUME NEW n \in T, n < m PROVE FALSE
    <2>1. 0 .. n \subseteq 0 .. m /\ 0 .. n # 0 .. m /\ 0 .. n \in SUBSET Nat /\ 0 .. m \in SUBSET Nat
        BY <1>6
    <2>2. <<0 .. n, 0 .. m>> \in R
        BY <2>1 DEF R, StrictSubsetOrdering
    <2> QED BY <2>2, <1>5
<1> QED
    <2>1. m \in Nat /\ \A n \in T : n \in Nat
        OBVIOUS
    <2>2. \A n \in T : m <= n
        <3>1. ASSUME NEW n \in T PROVE m <= n
            BY <1>6, <2>1
        <3> QED BY <3>1
    <2> QED BY <2>2

\* R orders S: no element is before itself, and of two one is before the other.
Orders(R, S) ==
    /\ \A x \in S : <<x, x>> \notin R
    /\ \A x, y \in S : x = y \/ <<x, y>> \in R \/ <<y, x>> \in R
    /\ \A x, y, z \in S : <<x, y>> \in R /\ <<y, z>> \in R => <<x, z>> \in R

\* Some element of A is behind all the others.
HasLast(A, R) == \E x \in A : \A y \in A : y = x \/ <<y, x>> \in R

\* A finite set in order has a last element.
LEMMA HasLastOne ==
    ASSUME NEW S, NEW R, Orders(R, S), NEW A, A \subseteq S, IsFiniteSet(A), A # {}
    PROVE  HasLast(A, R)
<1> DEFINE Bad == {B \in FiniteSubsetsOf(S) : B # {} /\ ~ HasLast(B, R)}
<1>1. SUFFICES ASSUME Bad # {} PROVE FALSE
    BY DEF FiniteSubsetsOf
<1>2. PICK B \in Bad : \A C \in Bad : ~ (<<C, B>> \in StrictSubsetOrdering(S))
    <2>1. IsWellFoundedOn(StrictSubsetOrdering(S), FiniteSubsetsOf(S))
        BY FS_StrictSubsetOrderingWellFounded
    <2>2. Bad \subseteq FiniteSubsetsOf(S)
        OBVIOUS
    <2> HIDE DEF Bad
    <2> QED BY <1>1, <2>1, <2>2, WFMin
<1>3. PICK b \in B : TRUE
    BY <1>2
<1> DEFINE C == B \ {b}
<1>4. CASE C = {}
    <2>1. B = {b}
        BY <1>4
    <2> QED BY <2>1, <1>2, <1>3 DEF HasLast
<1>5. CASE C # {}
    <2>1. C \in FiniteSubsetsOf(S)
        BY <1>2, FS_RemoveElement DEF FiniteSubsetsOf
    <2>2. C \subseteq B /\ C # B /\ B \in SUBSET S /\ C \in SUBSET S
        BY <1>2, <1>3 DEF FiniteSubsetsOf
    <2>3. <<C, B>> \in StrictSubsetOrdering(S)
        BY <2>2 DEF StrictSubsetOrdering
    <2>4. HasLast(C, R)
        <3>1. C \notin Bad
            BY <2>3, <1>2
        <3> QED BY <3>1, <2>1, <1>5
    <2>5. PICK c \in C : \A y \in C : y = c \/ <<y, c>> \in R
        BY <2>4 DEF HasLast
    <2>6. CASE <<c, b>> \in R
        <3>1. \A y \in B : y = b \/ <<y, b>> \in R
            BY <2>2, <2>5, <2>6, <1>3 DEF Orders
        <3> QED BY <3>1, <1>2, <1>3 DEF HasLast
    <2>7. CASE <<b, c>> \in R
        <3>1. \A y \in B : y = c \/ <<y, c>> \in R
            BY <2>5, <2>7
        <3> QED BY <3>1, <2>2, <1>2 DEF HasLast
    <2> QED BY <2>2, <2>6, <2>7, <1>3 DEF Orders
<1> QED BY <1>4, <1>5

\* f lists the set S in the order R.
Lists(f, S, R) ==
    /\ f \in [1 .. Cardinality(S) -> S]
    /\ \A x \in S : \E k \in 1 .. Cardinality(S) : f[k] = x
    /\ \A j, k \in 1 .. Cardinality(S) : j < k => <<f[j], f[k]>> \in R

\* A finite set can be listed in order.
LEMMA Sortable ==
    ASSUME NEW S, NEW R, Orders(R, S), IsFiniteSet(S)
    PROVE  \E f : Lists(f, S, R)
<1> DEFINE Bad == {A \in SUBSET S : ~ \E f : Lists(f, A, R)}
           T == {Cardinality(A) : A \in Bad}
<1>1. SUFFICES ASSUME Bad # {} PROVE FALSE
    OBVIOUS
<1>2. \A A \in SUBSET S : IsFiniteSet(A) /\ Cardinality(A) \in Nat
    BY FS_Subset, FS_CardinalityType
<1>3. PICK m \in T : \A n \in T : m <= n
    <2>1. T \subseteq Nat /\ T # {}
        BY <1>1, <1>2
    <2> HIDE DEF T
    <2> QED BY <2>1, HasLeast
<1>4. PICK A \in Bad : Cardinality(A) = m
    OBVIOUS
<1>5. m \in Nat /\ IsFiniteSet(A) /\ A \in SUBSET S
    BY <1>2, <1>4
<1>6. CASE A = {}
    <2>1. Cardinality(A) = 0
        BY <1>6, FS_EmptySet
    <2>2. Lists([k \in 1 .. 0 |-> k], A, R)
        BY <1>6, <2>1 DEF Lists
    <2> QED BY <2>2
<1>7. CASE A # {}
    <2>1. PICK a \in A : \A y \in A : y = a \/ <<y, a>> \in R
        BY <1>5, <1>7, HasLastOne DEF HasLast
    <2> DEFINE C == A \ {a}
    <2>2. IsFiniteSet(C) /\ Cardinality(C) = m - 1 /\ C \in SUBSET S
        BY <1>4, <1>5, FS_RemoveElement
    <2>3. m - 1 \in Nat /\ m > m - 1
        BY <2>2, <1>2, <1>5
    <2>4. PICK f : Lists(f, C, R)
        <3>1. C \notin Bad
            <4>1. C \in Bad => m - 1 \in T
                BY <2>2
            <4> QED BY <4>1, <1>3, <2>3, <1>5
        <3> QED BY <3>1, <2>2
    <2> DEFINE g == [k \in 1 .. m |-> IF k = m THEN a ELSE f[k]]
    <2>5. \A k \in 1 .. m : k = m \/ k \in 1 .. (m - 1)
        BY <1>5
    <2>6. f \in [1 .. (m - 1) -> C] /\ (\A x \in C : \E k \in 1 .. (m - 1) : f[k] = x)
          /\ \A j, k \in 1 .. (m - 1) : j < k => <<f[j], f[k]>> \in R
        BY <2>2, <2>4 DEF Lists
    <2>7. g \in [1 .. m -> A]
        BY <2>5, <2>6
    <2>8. \A x \in A : \E k \in 1 .. m : g[k] = x
        BY <2>6, <2>3, <1>5
    <2>9. ASSUME NEW j \in 1 .. m, NEW k \in 1 .. m, j < k PROVE <<g[j], g[k]>> \in R
        <3>1. j \in 1 .. (m - 1)
            BY <2>9, <1>5
        <3>2. f[j] \in C /\ g[j] = f[j]
            BY <3>1, <2>6, <1>5
        <3>3. CASE k = m
            BY <3>2, <3>3, <2>1
        <3>4. CASE k # m
            <4>1. k \in 1 .. (m - 1) /\ g[k] = f[k]
                BY <3>4, <2>5, <1>5
            <4> QED BY <4>1, <3>1, <3>2, <2>6, <2>9
        <3> QED BY <3>3, <3>4
    <2>10. Lists(g, A, R)
        BY <2>7, <2>8, <2>9, <1>4 DEF Lists
    <2> QED BY <2>10
<1> QED BY <1>6, <1>7

\* InOrder lists.
LEMMA InOrderLists ==
    ASSUME NEW S, NEW R, Orders(R, S), IsFiniteSet(S)
    PROVE  Lists(InOrder(S, R), S, R)
<1> DEFINE n == Cardinality(S)
           Earlier(x) == {y \in S : <<y, x>> \in R}
<1>1. n \in Nat
    BY FS_CardinalityType
<1>2. PICK f : Lists(f, S, R)
    BY Sortable
<1>3. f \in [1 .. n -> S] /\ (\A x \in S : \E k \in 1 .. n : f[k] = x)
      /\ \A j, k \in 1 .. n : j < k => <<f[j], f[k]>> \in R
    BY <1>2 DEF Lists
<1>4. ASSUME NEW j \in 1 .. n, NEW k \in 1 .. n
      PROVE  (f[j] = f[k] => j = k) /\ (<<f[j], f[k]>> \in R => j < k)
    <2>1. f[j] \in S /\ f[k] \in S
        BY <1>3
    <2>2. <<f[j], f[j]>> \notin R /\ <<f[k], f[k]>> \notin R
          /\ ~ (<<f[j], f[k]>> \in R /\ <<f[k], f[j]>> \in R)
        BY <2>1 DEF Orders
    <2>3. CASE j < k
        BY <2>2, <2>3, <1>1, <1>3
    <2>4. CASE k < j
        BY <2>2, <2>4, <1>1, <1>3
    <2>5. CASE j = k
        BY <2>2, <2>5
    <2> QED BY <2>3, <2>4, <2>5, <1>1
<1>5. ASSUME NEW k \in 1 .. n PROVE Cardinality(Earlier(f[k])) = k - 1
    <2> DEFINE I == 1 .. (k - 1)
               g == [j \in I |-> f[j]]
    <2>0. k \in Nat /\ \A j \in I : j \in 1 .. n /\ j < k
        BY <1>1, <1>5
    <2>1. g \in Bijection(I, Earlier(f[k]))
        <3>1. g \in [I -> Earlier(f[k])]
            BY <2>0, <1>3, <1>5
        <3>2. \A i, j \in I : g[i] = g[j] => i = j
            BY <2>0, <1>4
        <3>3. \A y \in Earlier(f[k]) : \E j \in I : g[j] = y
            BY <2>0, <1>3, <1>4, <1>5, <1>1
        <3> HIDE DEF g, I
        <3> QED BY <3>1, <3>2, <3>3 DEF Bijection, Injection, Surjection, IsInjective
    <2>2. IsFiniteSet(I) /\ Cardinality(I) = k - 1
        BY <2>0, FS_Interval
    <2> QED BY <2>1, <2>2, FS_Bijection DEF ExistsBijection
<1>6. ASSUME NEW k \in 1 .. n
      PROVE  (CHOOSE x \in S : Cardinality(Earlier(x)) = k - 1) = f[k]
    <2>1. f[k] \in S /\ Cardinality(Earlier(f[k])) = k - 1
        BY <1>3, <1>5, <1>6
    <2>2. ASSUME NEW x \in S, Cardinality(Earlier(x)) = k - 1 PROVE x = f[k]
        <3>1. PICK j \in 1 .. n : f[j] = x
            BY <1>3
        <3>2. j - 1 = k - 1
            BY <3>1, <1>5, <2>2
        <3> QED BY <3>1, <3>2, <1>1
    <2> QED BY <2>1, <2>2
<1>7. InOrder(S, R) = f
    BY <1>3, <1>6 DEF InOrder
<1> QED BY <1>2, <1>7

\* Numbers are listed from the smallest.
LEMMA AscendingLists ==
    ASSUME NEW S \in SUBSET Int, IsFiniteSet(S)
    PROVE  Lists(Ascending(S), S, {p \in S \X S : p[1] < p[2]})
<1> DEFINE R == {p \in S \X S : p[1] < p[2]}
<1>1. \A x, y \in S : <<x, y>> \in R <=> x < y
    OBVIOUS
<1>2. Orders(R, S)
    <2> HIDE DEF R
    <2> QED BY <1>1 DEF Orders
<1> QED BY <1>2, InOrderLists DEF Ascending

-----------------------------------------------------------------------------
(***************************************************************************)
(* Retrieval                                                               *)
(***************************************************************************)
\* What an engine answers: chunks of the set it was asked for, none twice.
LEMMA HitsAreRankings ==
    ASSUME NEW S \in SUBSET Chunk, NEW s \in Hits(S)
    PROVE  s \in Seq(S) /\ Range(s) \subseteq S /\ IsFiniteSet(Range(s))
           /\ \A i, j \in DOMAIN s : s[i] = s[j] => i = j
<1> USE RetrievalAssumption
<1>1. PICK A \in SUBSET S : s \in SetToSeqs(A)
    BY DEF Hits, SetToAllKPermutations
<1>2. IsFiniteSet(A) /\ IsFiniteSet(S)
    BY FS_Subset
<1>3. Cardinality(A) \in Nat
    BY <1>2, FS_CardinalityType
<1>4. s \in [1 .. Cardinality(A) -> A] /\ \A i, j \in 1 .. Cardinality(A) : i # j => s[i] # s[j]
    BY <1>1 DEF SetToSeqs
<1>5. s \in Seq(S)
    <2>1. s \in [1 .. Cardinality(A) -> S]
        BY <1>4
    <2> QED BY <1>3, <2>1
<1>6. Range(s) \subseteq S
    BY <1>4 DEF Range
<1> QED BY <1>2, <1>4, <1>5, <1>6, FS_Subset

\* The place of a chunk in a ranking, 0 if it is not there.
LEMMA PlaceIs ==
    ASSUME NEW s \in Seq(Chunk), NEW c
    PROVE  /\ Contains(s, c) <=> c \in Range(s)
           /\ Contains(s, c) => Rank(c, s) \in DOMAIN s /\ s[Rank(c, s)] = c
                                /\ PlaceOf(c, s) = RrfK + Rank(c, s)
           /\ PlaceOf(c, s) \in Nat
           /\ PlaceOf(c, s) > 0 <=> Contains(s, c)
<1> USE RetrievalAssumption
<1>1. Contains(s, c) <=> \E i \in DOMAIN s : s[i] = c
    <2>1. DOMAIN s = 1 .. Len(s)
        OBVIOUS
    <2> QED BY <2>1 DEF Contains
<1>2. Contains(s, c) => Rank(c, s) \in DOMAIN s /\ s[Rank(c, s)] = c
    BY <1>1 DEF Rank
<1>3. \A i \in DOMAIN s : i \in Nat /\ i > 0
    OBVIOUS
<1> QED BY <1>1, <1>2, <1>3 DEF PlaceOf, Range

\* Fractions of positive numbers are ordered, and 1/p falls as p grows.
LEMMA Fractions ==
    ASSUME NEW a \in Nat \ {0}, NEW b \in Nat \ {0}, NEW c \in Nat \ {0},
           NEW u \in Nat \ {0}, NEW v \in Nat \ {0}, NEW w \in Nat \ {0},
           a * v >= b * u, b * w >= c * v
    PROVE  a * w >= c * u /\ (a * w = c * u => a * v = b * u /\ b * w = c * v)
<1>1. /\ a * v \in Nat /\ b * u \in Nat /\ b * w \in Nat /\ c * v \in Nat /\ a * w \in Nat /\ c * u \in Nat
    OBVIOUS
<1>2. (a * v) * w >= (b * u) * w /\ (b * w) * u >= (c * v) * u
    OBVIOUS
<1>3. (a * w) * v >= (c * u) * v
    BY <1>2
<1>4. a * w >= c * u
    BY <1>3
<1>5. a * w = c * u => (a * v) * w = (b * u) * w /\ (b * w) * u = (c * v) * u
    BY <1>2
<1> QED BY <1>4, <1>5

-----------------------------------------------------------------------------
\* The sum of 1 / p and 1 / q, where 0 stands for no place, as a fraction.
Score(p, q) == IF p = 0 THEN <<1, q>> ELSE IF q = 0 THEN <<1, p>> ELSE <<p + q, p * q>>

LEMMA ScoreIs ==
    ASSUME NEW p \in Nat, NEW q \in Nat, p > 0 \/ q > 0
    PROVE  Score(p, q)[1] \in Nat \ {0} /\ Score(p, q)[2] \in Nat \ {0}
<1>1. CASE p = 0
    BY <1>1 DEF Score
<1>2. CASE q = 0
    BY <1>2 DEF Score
<1>3. CASE p # 0 /\ q # 0
    <2>1. p + q \in Nat \ {0} /\ p * q \in Nat \ {0}
        BY <1>3
    <2> QED BY <1>3, <2>1 DEF Score
<1> QED BY <1>1, <1>2, <1>3

\* A better place in one ranking and no worse one in the other is a better score.
LEMMA ScoreFalls ==
    ASSUME NEW p \in Nat \ {0}, NEW q \in Nat \ {0}, NEW x \in Nat, NEW y \in Nat,
           x > 0 \/ y > 0, x > 0 => p < x, y > 0 => q < y
    PROVE  Score(p, q)[1] * Score(x, y)[2] > Score(x, y)[1] * Score(p, q)[2]
<1>0. Score(p, q) = <<p + q, p * q>>
    BY DEF Score
<1>1. CASE x = 0
    <2>1. Score(x, y) = <<1, y>> /\ y \in Nat \ {0} /\ q < y
        BY <1>1 DEF Score
    <2>2. p * y > p * q
        BY <2>1
    <2>3. q * y \in Nat
        BY <2>1
    <2>4. (p + q) * y = p * y + q * y
        BY <2>1
    <2>5. (p + q) * y > p * q
        BY <2>2, <2>3, <2>4
    <2> QED BY <1>0, <2>1, <2>5
<1>2. CASE x # 0 /\ y = 0
    <2>1. Score(x, y) = <<1, x>> /\ x \in Nat \ {0} /\ p < x
        BY <1>2 DEF Score
    <2>2. q * x > q * p
        BY <2>1
    <2>3. p * x \in Nat
        BY <2>1
    <2>4. (p + q) * x = p * x + q * x /\ q * p = p * q
        BY <2>1
    <2>5. (p + q) * x > p * q
        BY <2>2, <2>3, <2>4
    <2> QED BY <1>0, <2>1, <2>5
<1>3. CASE x # 0 /\ y # 0
    <2>1. Score(x, y) = <<x + y, x * y>> /\ x \in Nat \ {0} /\ y \in Nat \ {0} /\ p < x /\ q < y
        BY <1>3 DEF Score
    <2> DEFINE px == p * x
               qy == q * y
    <2>2. px \in Nat \ {0} /\ qy \in Nat \ {0}
        BY <2>1
    <2>3. px * y > px * q /\ qy * x > qy * p
        BY <2>1, <2>2
    <2>4. (p + q) * (x * y) = px * y + qy * x
        BY <2>1
    <2>5. (x + y) * (p * q) = px * q + qy * p
        BY <2>1
    <2>6. px * y \in Int /\ px * q \in Int /\ qy * x \in Int /\ qy * p \in Int
        BY <2>1, <2>2
    <2> HIDE DEF px, qy
    <2>7. (p + q) * (x * y) > (x + y) * (p * q)
        BY <2>3, <2>4, <2>5, <2>6
    <2> QED BY <1>0, <2>1, <2>7
<1> QED BY <1>1, <1>2, <1>3

LEMMA BeatsIs ==
    ASSUME NEW a, NEW b, NEW vec, NEW bm25
    PROVE  LET s == Score(PlaceOf(a, vec), PlaceOf(a, bm25))
               t == Score(PlaceOf(b, vec), PlaceOf(b, bm25))
           IN  Beats(a, b, vec, bm25) <=> s[1] * t[2] > t[1] * s[2] \/ (s[1] * t[2] = t[1] * s[2] /\ a < b)
BY DEF Beats, Score

\* The score orders what either engine found.
LEMMA BeatsOrders ==
    ASSUME NEW vec \in Seq(Chunk), NEW bm25 \in Seq(Chunk)
    PROVE  LET hits == Range(vec) \cup Range(bm25)
           IN  Orders({p \in hits \X hits : Beats(p[1], p[2], vec, bm25)}, hits)
<1> USE RetrievalAssumption
<1> DEFINE hits == Range(vec) \cup Range(bm25)
           R == {p \in hits \X hits : Beats(p[1], p[2], vec, bm25)}
           S(c) == Score(PlaceOf(c, vec), PlaceOf(c, bm25))
           Better(a, b) == S(a)[1] * S(b)[2] > S(b)[1] * S(a)[2]
                           \/ (S(a)[1] * S(b)[2] = S(b)[1] * S(a)[2] /\ a < b)
<1>1. \A c \in hits : S(c)[1] \in Nat \ {0} /\ S(c)[2] \in Nat \ {0}
    BY PlaceIs, ScoreIs
<1>2. \A a, b \in hits : <<a, b>> \in R <=> Better(a, b)
    BY BeatsIs
<1>3. hits \subseteq Nat
    <2>1. (\A i \in DOMAIN vec : vec[i] \in Chunk) /\ \A i \in DOMAIN bm25 : bm25[i] \in Chunk
        OBVIOUS
    <2> QED BY <2>1 DEF Range
<1> HIDE DEF S, R, hits
<1>4. \A a, b \in hits : S(a)[1] * S(b)[2] \in Nat
    BY <1>1
<1>5. ASSUME NEW a \in hits PROVE ~ Better(a, a)
    BY <1>3, <1>4
<1>6. ASSUME NEW a \in hits, NEW b \in hits PROVE a = b \/ Better(a, b) \/ Better(b, a)
    BY <1>3, <1>4
<1>7. ASSUME NEW a \in hits, NEW b \in hits, NEW c \in hits, Better(a, b), Better(b, c)
      PROVE  Better(a, c)
    <2>1. S(a)[1] * S(b)[2] >= S(b)[1] * S(a)[2] /\ S(b)[1] * S(c)[2] >= S(c)[1] * S(b)[2]
        BY <1>4, <1>7
    <2>2. /\ S(a)[1] * S(c)[2] >= S(c)[1] * S(a)[2]
          /\ S(a)[1] * S(c)[2] = S(c)[1] * S(a)[2] =>
                S(a)[1] * S(b)[2] = S(b)[1] * S(a)[2] /\ S(b)[1] * S(c)[2] = S(c)[1] * S(b)[2]
        <3> DEFINE a1 == S(a)[1] a2 == S(a)[2] b1 == S(b)[1] b2 == S(b)[2] c1 == S(c)[1] c2 == S(c)[2]
        <3>1. /\ a1 \in Nat \ {0} /\ b1 \in Nat \ {0} /\ c1 \in Nat \ {0}
              /\ a2 \in Nat \ {0} /\ b2 \in Nat \ {0} /\ c2 \in Nat \ {0}
            BY <1>1
        <3>2. a1 * b2 >= b1 * a2 /\ b1 * c2 >= c1 * b2
            BY <2>1
        <3> HIDE DEF a1, a2, b1, b2, c1, c2
        <3>3. a1 * c2 >= c1 * a2 /\ (a1 * c2 = c1 * a2 => a1 * b2 = b1 * a2 /\ b1 * c2 = c1 * b2)
            BY <3>1, <3>2, Fractions
        <3> QED BY <3>3 DEF a1, a2, b1, b2, c1, c2
    <2>3. CASE S(a)[1] * S(c)[2] > S(c)[1] * S(a)[2]
        BY <2>3
    <2>4. CASE S(a)[1] * S(c)[2] = S(c)[1] * S(a)[2]
        <3>1. a < b /\ b < c
            BY <1>4, <1>7, <2>2, <2>4
        <3> QED BY <3>1, <2>4, <1>3
    <2> QED BY <2>2, <2>3, <2>4, <1>4
<1>8. Orders(R, hits)
    BY <1>2, <1>5, <1>6, <1>7 DEF Orders
<1> QED BY <1>8 DEF R, hits

\* The fusion lists what either engine found, by its score.
LEMMA FusedIs ==
    ASSUME NEW vec \in Seq(Chunk), NEW bm25 \in Seq(Chunk), IsFiniteSet(Range(vec)), IsFiniteSet(Range(bm25))
    PROVE  LET hits == Range(vec) \cup Range(bm25)
               f == Fused(vec, bm25)
           IN  /\ IsFiniteSet(hits) /\ f \in [1 .. Cardinality(hits) -> hits] /\ Cardinality(hits) \in Nat
               /\ \A c \in hits : \E k \in DOMAIN f : f[k] = c
               /\ \A j, k \in DOMAIN f : j < k => Beats(f[j], f[k], vec, bm25)
<1> DEFINE hits == Range(vec) \cup Range(bm25)
           R == {p \in hits \X hits : Beats(p[1], p[2], vec, bm25)}
           f == Fused(vec, bm25)
<1>1. IsFiniteSet(hits)
    BY FS_Union
<1>2. Orders(R, hits)
    BY BeatsOrders
<1>3. f = InOrder(hits, R)
    BY DEF Fused
<1>4. \A a, b \in hits : <<a, b>> \in R => Beats(a, b, vec, bm25)
    OBVIOUS
<1> HIDE DEF R, hits, f
<1>5. Lists(f, hits, R)
    BY <1>1, <1>2, <1>3, InOrderLists
<1>6. /\ f \in [1 .. Cardinality(hits) -> hits]
      /\ \A c \in hits : \E k \in 1 .. Cardinality(hits) : f[k] = c
      /\ \A j, k \in 1 .. Cardinality(hits) : j < k => <<f[j], f[k]>> \in R
    BY <1>5 DEF Lists
<1>7. DOMAIN f = 1 .. Cardinality(hits) /\ \A j \in DOMAIN f : f[j] \in hits
    BY <1>6
<1>8. \A j, k \in DOMAIN f : j < k => Beats(f[j], f[k], vec, bm25)
    BY <1>4, <1>6, <1>7
<1>9. Cardinality(hits) \in Nat
    BY <1>1, FS_CardinalityType
<1> QED BY <1>1, <1>6, <1>7, <1>8, <1>9 DEF f, hits

\* Place i of out is a place of s, and of every chunk that s has before that
\* one, out has a chunk of the same document before i.
Represents(out, i, s) ==
    \E k \in DOMAIN s : s[k] = out[i] /\
        \A m \in 1 .. k - 1 : \E j \in 1 .. i - 1 : MetaDoc(out[j]) = MetaDoc(s[m])

\* The rule keeps chunks of the ranking in their order, and of a chunk that it
\* leaves out one of the same document, further ahead.
LEMMA OnePerDocIs ==
    ASSUME NEW n \in Nat, NEW S, NEW s \in [1 .. n -> S]
    PROVE  /\ Range(OnePerDoc(s)) \subseteq S
           /\ \A i \in DOMAIN OnePerDoc(s) : Represents(OnePerDoc(s), i, s)
<1> USE RetrievalAssumption
<1> DEFINE first(i) == \A j \in 1 .. i - 1 : MetaDoc(s[j]) # MetaDoc(s[i])
           F == {i \in 1 .. n : first(i)}
           kept == Ascending(F)
           L == IF Len(kept) < TopK THEN Len(kept) ELSE TopK
           out == OnePerDoc(s)
<1>1. F \in SUBSET Int /\ IsFiniteSet(F)
    <2>1. F \in SUBSET (1 .. n) /\ IsFiniteSet(1 .. n)
        BY FS_Interval
    <2> HIDE DEF F
    <2>2. IsFiniteSet(F)
        BY <2>1, FS_Subset
    <2> QED BY <2>1, <2>2
<1>2. out = [i \in 1 .. L |-> s[kept[i]]]
    BY DEF OnePerDoc
<1>3. \A i, j \in F : <<i, j>> \in {p \in F \X F : p[1] < p[2]} => i < j
    OBVIOUS
<1> HIDE DEF kept
<1>4. Lists(kept, F, {p \in F \X F : p[1] < p[2]})
    <2> HIDE DEF F
    <2> QED BY <1>1, AscendingLists DEF kept
<1> DEFINE c == Cardinality(F)
<1>5. /\ c \in Nat /\ kept \in [1 .. c -> F]
      /\ \A i \in F : \E k \in 1 .. c : kept[k] = i
      /\ \A j, k \in 1 .. c : j < k => kept[j] < kept[k]
    <2>1. c \in Nat
        BY <1>1, FS_CardinalityType
    <2> HIDE DEF F
    <2> QED BY <1>3, <1>4, <2>1 DEF Lists
<1>6. Len(kept) = c
    <2> HIDE DEF F, c
    <2>1. kept \in Seq(F) /\ DOMAIN kept = 1 .. c
        BY <1>5
    <2> QED BY <1>5, <2>1
<1>7. L \in Nat /\ L <= c
    BY <1>5, <1>6
<1>8. \A i \in 1 .. L : i \in 1 .. c /\ kept[i] \in F
    BY <1>5, <1>7
<1> HIDE DEF L, c
<1>9. Range(out) \subseteq S
    BY <1>2, <1>8 DEF Range
<1>10. ASSUME NEW i \in DOMAIN out
       PROVE  \E k \in 1 .. n : s[k] = out[i] /\
                 \A m \in 1 .. k - 1 : \E j \in 1 .. i - 1 : MetaDoc(out[j]) = MetaDoc(s[m])
    <2>1. i \in 1 .. L /\ i \in 1 .. c /\ kept[i] \in F /\ out[i] = s[kept[i]]
        BY <1>2, <1>8
    <2>2. ASSUME NEW m \in 1 .. kept[i] - 1 PROVE \E j \in 1 .. i - 1 : MetaDoc(out[j]) = MetaDoc(s[m])
        <3>1. m \in 1 .. n /\ m < kept[i]
            BY <2>1
        \* the first chunk of the same document
        <3> DEFINE D == {l \in 1 .. n : MetaDoc(s[l]) = MetaDoc(s[m])}
        <3>2. PICK l \in D : \A x \in D : l <= x
            <4>1. D \subseteq Nat /\ D # {}
                BY <3>1
            <4> HIDE DEF D
            <4> QED BY <4>1, HasLeast
        <3>3. l \in F /\ l <= m
            <4>1. \A x \in 1 .. l - 1 : x \in 1 .. n /\ ~ (l <= x)
                BY <3>2
            <4> QED BY <4>1, <3>1, <3>2
        <3>4. PICK j \in 1 .. c : kept[j] = l
            BY <3>3, <1>5
        <3>5. j < i
            <4>1. kept[j] < kept[i] /\ kept[j] \in Nat /\ kept[i] \in Nat
                BY <3>1, <3>3, <3>4, <2>1
            <4>2. j \in Nat /\ i \in Nat /\ (i < j => kept[i] < kept[j])
                BY <1>5, <2>1, <3>4
            <4> QED BY <4>1, <4>2
        <3>6. j \in 1 .. i - 1 /\ j \in 1 .. L
            BY <3>5, <2>1, <1>7
        <3>7. out[j] = s[l]
            BY <3>4, <3>6, <1>2
        <3> QED BY <3>2, <3>6, <3>7
    <2> QED BY <2>1, <2>2
<1>11. ASSUME NEW i \in DOMAIN out PROVE Represents(out, i, s)
    <2>1. DOMAIN s = 1 .. n
        OBVIOUS
    <2> HIDE DEF out
    <2> QED BY <2>1, <1>10 DEF Represents
<1> QED BY <1>9, <1>11

-----------------------------------------------------------------------------
\* Between two queries the collections hold chunks.
RetrievalInv ==
    /\ base \subseteq Chunk /\ shards \in [Shard -> SUBSET Chunk]
    /\ copying \in [pc : {"rest", "write"}, chunks : SUBSET Chunk, left : SUBSET Shard]
    /\ TenantSeesOwn /\ BothListsAgree

\* A collection that is asked holds chunks.
LEMMA CollectionIs ==
    ASSUME RetrievalInv, NEW t \in Askers
    PROVE  Collection(t) \subseteq Chunk
BY RetrievalAssumption DEF RetrievalInv, Collection, Askers, Tenants

\* What comes out of the fusion and the rule honours both rankings.
LEMMA FusionAgrees ==
    ASSUME NEW vec \in Seq(Chunk), NEW bm25 \in Seq(Chunk), IsFiniteSet(Range(vec)), IsFiniteSet(Range(bm25)),
           NEW a \in Chunk, NEW i \in DOMAIN OnePerDoc(Fused(vec, bm25)),
           Ahead(a, OnePerDoc(Fused(vec, bm25))[i], vec), Ahead(a, OnePerDoc(Fused(vec, bm25))[i], bm25)
    PROVE  \E j \in 1 .. i - 1 : MetaDoc(OnePerDoc(Fused(vec, bm25))[j]) = MetaDoc(a)
<1> USE RetrievalAssumption
<1> DEFINE f == Fused(vec, bm25)
           out == OnePerDoc(f)
           hits == Range(vec) \cup Range(bm25)
           n == Cardinality(hits)
           b == out[i]
<1>1. /\ f \in [1 .. n -> hits] /\ n \in Nat
      /\ \A c \in hits : \E k \in 1 .. n : f[k] = c
      /\ \A j, k \in 1 .. n : j < k => Beats(f[j], f[k], vec, bm25)
    <2>1. /\ f \in [1 .. n -> hits] /\ n \in Nat
          /\ \A c \in hits : \E k \in DOMAIN f : f[k] = c
          /\ \A j, k \in DOMAIN f : j < k => Beats(f[j], f[k], vec, bm25)
        BY FusedIs
    <2>2. DOMAIN f = 1 .. n
        BY <2>1
    <2> QED BY <2>1, <2>2
<1> HIDE DEF f, hits, n
<1>2. PICK k \in 1 .. n : f[k] = out[i] /\
         \A m \in 1 .. k - 1 : \E j \in 1 .. i - 1 : MetaDoc(out[j]) = MetaDoc(f[m])
    <2>1. i \in DOMAIN out
        BY DEF f
    <2>2. Represents(out, i, f) /\ DOMAIN f = 1 .. n
        BY <1>1, <2>1, OnePerDocIs
    <2> HIDE DEF out
    <2> QED BY <2>2 DEF Represents
<1>3. b \in hits /\ f[k] = b
    BY <1>1, <1>2
<1> HIDE DEF out
<1>4. a \in hits /\ Contains(vec, a) /\ Contains(bm25, a)
    BY PlaceIs DEF Ahead, hits, f, out
<1> DEFINE S(c) == Score(PlaceOf(c, vec), PlaceOf(c, bm25))
<1>5. S(a)[1] * S(b)[2] > S(b)[1] * S(a)[2]
    <2> DEFINE p == PlaceOf(a, vec) q == PlaceOf(a, bm25) x == PlaceOf(b, vec) y == PlaceOf(b, bm25)
    <2>1. p \in Nat \ {0} /\ q \in Nat \ {0} /\ x \in Nat /\ y \in Nat
        BY <1>4, PlaceIs
    <2>2. x > 0 \/ y > 0
        BY <1>3, PlaceIs DEF hits
    <2>3. x > 0 => p < x
        <3>1. x > 0 => Contains(vec, b) /\ Rank(a, vec) < Rank(b, vec)
            BY PlaceIs DEF Ahead, f, out
        <3> QED BY <3>1, <1>4, PlaceIs
    <2>4. y > 0 => q < y
        <3>1. y > 0 => Contains(bm25, b) /\ Rank(a, bm25) < Rank(b, bm25)
            BY PlaceIs DEF Ahead, f, out
        <3> QED BY <3>1, <1>4, PlaceIs
    <2> HIDE DEF p, q, x, y
    <2>5. Score(p, q)[1] * Score(x, y)[2] > Score(x, y)[1] * Score(p, q)[2]
        BY <2>1, <2>2, <2>3, <2>4, ScoreFalls
    <2> QED BY <2>5 DEF p, q, x, y
<1>6. PICK m \in 1 .. n : f[m] = a
    BY <1>1, <1>4
<1>7. m < k
    <2> DEFINE u == S(a)[1] * S(b)[2]
               v == S(b)[1] * S(a)[2]
    <2>0. u \in Int /\ v \in Int /\ u > v
        <3>1. S(a)[1] \in Nat /\ S(a)[2] \in Nat /\ S(b)[1] \in Nat /\ S(b)[2] \in Nat
            <4>1. PlaceOf(a, vec) \in Nat /\ PlaceOf(a, bm25) \in Nat /\ PlaceOf(b, vec) \in Nat /\ PlaceOf(b, bm25) \in Nat
                BY PlaceIs
            <4>2. PlaceOf(a, vec) > 0 /\ (PlaceOf(b, vec) > 0 \/ PlaceOf(b, bm25) > 0)
                BY <1>3, <1>4, PlaceIs DEF hits
            <4> QED BY <4>1, <4>2, ScoreIs
        <3> HIDE DEF S
        <3> QED BY <3>1, <1>5
    <2>1. k < m => v > u \/ (v = u /\ b < a)
        BY <1>1, <1>2, <1>6, BeatsIs
    <2>2. ~ (k < m)
        <3> HIDE DEF u, v
        <3> QED BY <2>0, <2>1
    <2>3. k # m
        <3>1. k = m => u = v
            BY <1>3, <1>6
        <3> HIDE DEF u, v
        <3> QED BY <2>0, <3>1
    <2> QED BY <2>2, <2>3, <1>1
<1>8. m \in 1 .. k - 1
    BY <1>7, <1>1
<1> QED BY <1>2, <1>6, <1>8 DEF f, out

\* What a query finds honours the invariant.
LEMMA RetrievesStep ==
    ASSUME RetrievalInv, Retrieves
    PROVE  TenantSeesOwn' /\ BothListsAgree'
<1> USE RetrievalAssumption
<1>0. PICK t \in Askers : \E bm25 \in Hits(Filtered(Listed, t)) :
          \/ \E vec \in VectorHits(t) :
                \/ found' = [tenant |-> t, vec |-> vec, bm25 |-> bm25, ranked |-> TRUE,
                             out |-> OnePerDoc(Fused(vec, bm25))]
                \/ \E s \in ModelRanked(Fused(vec, bm25)) :
                      found' = [NotAsked EXCEPT !.tenant = t, !.out = OnePerDoc(s)]
          \/ found' = [NotAsked EXCEPT !.tenant = t,
                       !.out = SubSeq(bm25, 1, IF Len(bm25) < TopK THEN Len(bm25) ELSE TopK)]
    BY DEF Retrieves
<1>1. PICK bm25 \in Hits(Filtered(Listed, t)) :
          \/ \E vec \in VectorHits(t) :
                \/ found' = [tenant |-> t, vec |-> vec, bm25 |-> bm25, ranked |-> TRUE,
                             out |-> OnePerDoc(Fused(vec, bm25))]
                \/ \E s \in ModelRanked(Fused(vec, bm25)) :
                      found' = [NotAsked EXCEPT !.tenant = t, !.out = OnePerDoc(s)]
          \/ found' = [NotAsked EXCEPT !.tenant = t,
                       !.out = SubSeq(bm25, 1, IF Len(bm25) < TopK THEN Len(bm25) ELSE TopK)]
    BY <1>0
<1> DEFINE Own == {c \in Chunk : t # Public => TenantOf[c] = t}
<1>2. Filtered(Listed, t) \in SUBSET Own /\ Filtered(Collection(t), t) \in SUBSET Own
    BY CollectionIs DEF Filtered
<1>3. bm25 \in Seq(Own) /\ Range(bm25) \subseteq Own /\ IsFiniteSet(Range(bm25))
    <2>1. Filtered(Listed, t) \in SUBSET Chunk
        BY <1>2
    <2>2. bm25 \in Seq(Filtered(Listed, t)) /\ Range(bm25) \subseteq Filtered(Listed, t) /\ IsFiniteSet(Range(bm25))
        BY <2>1, HitsAreRankings
    <2> QED BY <1>2, <2>2
<1>4. ASSUME NEW out, found'.out = out, found'.tenant = t, Range(out) \subseteq Own
      PROVE  TenantSeesOwn'
    BY <1>4 DEF TenantSeesOwn, Range
<1>5. ASSUME NEW vec \in VectorHits(t)
      PROVE  /\ vec \in Seq(Chunk) /\ bm25 \in Seq(Chunk) /\ IsFiniteSet(Range(vec))
             /\ \E n \in Nat : Fused(vec, bm25) \in [1 .. n -> Own]
    <2>1. vec \in Seq(Own) /\ Range(vec) \subseteq Own /\ IsFiniteSet(Range(vec))
        <3>1. Filtered(Collection(t), t) \in SUBSET Chunk
            BY <1>2
        <3>2. /\ vec \in Seq(Filtered(Collection(t), t)) /\ Range(vec) \subseteq Filtered(Collection(t), t)
              /\ IsFiniteSet(Range(vec))
            BY <1>5, <3>1, HitsAreRankings DEF VectorHits
        <3> QED BY <1>2, <3>2
    <2>2. vec \in Seq(Chunk) /\ bm25 \in Seq(Chunk)
        BY <2>1, <1>3
    <2> DEFINE hits == Range(vec) \cup Range(bm25)
    <2>3. Fused(vec, bm25) \in [1 .. Cardinality(hits) -> hits] /\ Cardinality(hits) \in Nat
        BY <1>3, <2>1, <2>2, FusedIs
    <2>4. hits \subseteq Own
        BY <1>3, <2>1
    <2> HIDE DEF hits, Own
    <2>5. Fused(vec, bm25) \in [1 .. Cardinality(hits) -> Own]
        BY <2>3, <2>4
    <2> QED BY <2>1, <2>2, <2>3, <2>5
<1>6. ASSUME NEW vec \in VectorHits(t),
             found' = [tenant |-> t, vec |-> vec, bm25 |-> bm25, ranked |-> TRUE, out |-> OnePerDoc(Fused(vec, bm25))]
      PROVE  TenantSeesOwn' /\ BothListsAgree'
    <2> DEFINE out == OnePerDoc(Fused(vec, bm25))
    <2>1. found'.out = out /\ found'.tenant = t /\ found'.vec = vec /\ found'.bm25 = bm25
        BY <1>6
    <2>2. Range(out) \subseteq Own
        BY <1>5, <1>6, OnePerDocIs
    <2>3. BothListsAgree'
        <3>1. ASSUME NEW i \in DOMAIN out, NEW a \in Chunk, Ahead(a, out[i], vec), Ahead(a, out[i], bm25)
              PROVE  \E j \in 1 .. i - 1 : MetaDoc(out[j]) = MetaDoc(a)
            BY <3>1, <1>3, <1>5, <1>6, FusionAgrees
        <3> HIDE DEF out
        <3> QED BY <2>1, <3>1 DEF BothListsAgree
    <2> QED BY <1>4, <2>1, <2>2, <2>3
<1>7. ASSUME NEW vec \in VectorHits(t), NEW s \in ModelRanked(Fused(vec, bm25)),
             found' = [NotAsked EXCEPT !.tenant = t, !.out = OnePerDoc(s)]
      PROVE  TenantSeesOwn' /\ BothListsAgree'
    <2> DEFINE f == Fused(vec, bm25)
    <2>1. found'.out = OnePerDoc(s) /\ found'.tenant = t /\ found'.ranked = FALSE
        BY <1>7 DEF NotAsked
    <2>2. Range(f) \subseteq Own /\ IsFiniteSet(Range(f))
        <3>1. PICK n \in Nat : f \in [1 .. n -> Own]
            BY <1>5, <1>7
        <3>2. Range(f) \subseteq Own
            BY <3>1 DEF Range
        <3>3. IsFiniteSet(Own)
            BY FS_Subset
        <3> QED BY <3>2, <3>3, FS_Subset
    <2>3. \E n \in Nat : s \in [1 .. n -> Own]
        <3>1. PICK A \in SUBSET Range(f) : s \in SetToSeqs(A)
            BY <1>7 DEF ModelRanked, SetToAllKPermutations
        <3>2. Cardinality(A) \in Nat
            BY <2>2, <3>1, FS_Subset, FS_CardinalityType
        <3>3. s \in [1 .. Cardinality(A) -> A]
            BY <3>1 DEF SetToSeqs
        <3>4. s \in [1 .. Cardinality(A) -> Own]
            BY <3>1, <3>3, <2>2
        <3> QED BY <3>2, <3>4
    <2>4. Range(OnePerDoc(s)) \subseteq Own
        BY <2>3, OnePerDocIs
    <2> QED BY <1>4, <2>1, <2>4 DEF BothListsAgree
<1>8. ASSUME found' = [NotAsked EXCEPT !.tenant = t,
                       !.out = SubSeq(bm25, 1, IF Len(bm25) < TopK THEN Len(bm25) ELSE TopK)]
      PROVE  TenantSeesOwn' /\ BothListsAgree'
    <2> DEFINE m == IF Len(bm25) < TopK THEN Len(bm25) ELSE TopK
               out == SubSeq(bm25, 1, m)
    <2>1. found'.out = out /\ found'.tenant = t /\ found'.ranked = FALSE
        BY <1>8 DEF NotAsked
    <2>2. m \in Nat /\ m <= Len(bm25)
        BY <1>3
    <2>3. DOMAIN out = 1 .. m /\ \A i \in 1 .. m : out[i] = bm25[i]
        <3> HIDE DEF m, Own
        <3> QED BY <1>3, <2>2
    <2>4. Range(out) \subseteq Own
        <3>1. \A i \in 1 .. m : bm25[i] \in Own
            <4> HIDE DEF m, Own
            <4> QED BY <1>3, <2>2
        <3> HIDE DEF out, m, Own
        <3> QED BY <2>3, <3>1 DEF Range
    <2> QED BY <1>4, <2>1, <2>4 DEF BothListsAgree
<1> QED BY <1>1, <1>6, <1>7, <1>8

\* Before anything is asked both hold.
LEMMA NothingFound ==
    ASSUME found = NotAsked
    PROVE  TenantSeesOwn /\ BothListsAgree
BY DEF NotAsked, TenantSeesOwn, BothListsAgree

LEMMA RetrievalStart ==
    ASSUME RetrievalInit
    PROVE  RetrievalInv
BY RetrievalAssumption, NothingFound DEF RetrievalInit, RetrievalInv

\* Every step of retrieval keeps the invariant.
LEMMA RetrievalStep ==
    ASSUME RetrievalInv, RetrievalNext
    PROVE  RetrievalInv'
<1> DEFINE Types == /\ base \subseteq Chunk /\ shards \in [Shard -> SUBSET Chunk]
                    /\ copying \in [pc : {"rest", "write"}, chunks : SUBSET Chunk, left : SUBSET Shard]
<1>1. Types
    BY DEF RetrievalInv
<1>2. ASSUME found' = NotAsked PROVE TenantSeesOwn' /\ BothListsAgree'
    BY <1>2 DEF NotAsked, TenantSeesOwn, BothListsAgree
<1>3. CASE WritesBase
    BY <1>1, <1>2, <1>3 DEF WritesBase, RetrievalInv
<1>4. CASE CopyBegins
    BY <1>1, <1>2, <1>4 DEF CopyBegins, RetrievalInv
<1>5. ASSUME NEW s \in Shard, CopiesShard(s) PROVE RetrievalInv'
    <2>1. BelongsTo(s) \subseteq Chunk
        BY <1>1 DEF BelongsTo
    <2>2. shards' \in [Shard -> SUBSET Chunk]
        BY <1>1, <1>5, <2>1 DEF CopiesShard
    <2>3. copying' \in [pc : {"rest", "write"}, chunks : SUBSET Chunk, left : SUBSET Shard]
        BY <1>1, <1>5 DEF CopiesShard
    <2> QED BY <1>1, <1>2, <1>5, <2>2, <2>3 DEF CopiesShard, RetrievalInv
<1>6. CASE CopyDies
    BY <1>1, <1>2, <1>6 DEF CopyDies, RetrievalInv
<1>7. CASE Switches
    BY <1>1, <1>2, <1>7 DEF Switches, RetrievalInv
<1>8. CASE Retrieves
    BY <1>1, <1>8, RetrievesStep DEF Retrieves, RetrievalInv
<1> QED BY <1>3, <1>4, <1>5, <1>6, <1>7, <1>8 DEF RetrievalNext

\* Retrieval keeps its invariant, whatever else the platform does.
LEMMA RetrievalKept == RetrievalInv /\ [Next]_vars => RetrievalInv'
<1>1. RetrievalInv /\ UNCHANGED retrieval => RetrievalInv'
    BY DEF retrieval, RetrievalInv, TenantSeesOwn, BothListsAgree
<1> QED BY <1>1, RetrievalStep, Apart

\* No query of a tenant returns a chunk of another one, in the base or in a
\* shared shard, at any point of a copy.
THEOREM TenantsApart == Spec => []TenantSeesOwn
<1>1. Init => RetrievalInv
    BY RetrievalStart DEF Init
<1>2. RetrievalInv => TenantSeesOwn
    BY DEF RetrievalInv
<1> QED BY <1>1, <1>2, RetrievalKept, PTL DEF Spec

\* What both rankings put ahead does not come out behind, for rankings of any
\* length and any constant in the reciprocal ranks.
THEOREM FusionHonoursBoth == Spec => []BothListsAgree
<1>1. Init => RetrievalInv
    BY RetrievalStart DEF Init
<1>2. RetrievalInv => BothListsAgree
    BY DEF RetrievalInv
<1> QED BY <1>1, <1>2, RetrievalKept, PTL DEF Spec

-----------------------------------------------------------------------------
(***************************************************************************)
(* Linking                                                                 *)
(***************************************************************************)
\* A finite set of numbers has a greatest one.
LEMMA MaxIs ==
    ASSUME NEW S \in SUBSET Int, IsFiniteSet(S), S # {}
    PROVE  Max(S) \in S /\ \A y \in S : Max(S) >= y
<1> DEFINE R == {p \in S \X S : p[1] < p[2]}
<1>1. \A x, y \in S : <<x, y>> \in R <=> x < y
    OBVIOUS
<1> HIDE DEF R
<1>2. Orders(R, S)
    BY <1>1 DEF Orders
<1>3. PICK x \in S : \A y \in S : y = x \/ <<y, x>> \in R
    <2>1. S \in SUBSET S
        OBVIOUS
    <2>2. HasLast(S, R)
        BY <1>2, <2>1, HasLastOne
    <2> QED BY <2>2 DEF HasLast
<1>4. ASSUME NEW y \in S PROVE x >= y
    <2>1. y = x \/ y < x
        BY <1>1, <1>3
    <2>2. x \in Int /\ y \in Int
        OBVIOUS
    <2> QED BY <2>1, <2>2
<1> QED BY <1>3, <1>4 DEF Max

Similarities == [DOMAIN EntryOf -> Closeness]

\* A table has the similarity of one of its descriptions, and none is nearer.
LEMMA TableScoreIs ==
    ASSUME NEW sims \in Similarities, NEW t \in Range(Table)
    PROVE  /\ TableScore(sims, t) \in Int
           /\ \E e \in DOMAIN EntryOf : EntryOf[e] = t /\ sims[e] = TableScore(sims, t)
           /\ \A e \in DOMAIN EntryOf : EntryOf[e] = t => sims[e] <= TableScore(sims, t)
<1> USE LinkingAssumption
<1> DEFINE E == {e \in DOMAIN EntryOf : EntryOf[e] = t}
           V == {sims[e] : e \in E}
           f == [e \in E |-> sims[e]]
<1>1. E \in SUBSET (1 .. Len(EntryOf)) /\ E # {}
    <2>1. DOMAIN EntryOf = 1 .. Len(EntryOf)
        OBVIOUS
    <2>2. \E e \in DOMAIN EntryOf : EntryOf[e] = t
        BY DEF Range
    <2> QED BY <2>1, <2>2
<1>2. IsFiniteSet(E)
    <2>1. IsFiniteSet(1 .. Len(EntryOf))
        BY FS_Interval
    <2> HIDE DEF E
    <2> QED BY <1>1, <2>1, FS_Subset
<1>3. IsFiniteSet(V)
    <2>1. f \in Surjection(E, V)
        BY DEF Surjection
    <2> HIDE DEF f, E, V
    <2> QED BY <1>2, <2>1, FS_Surjection
<1>4. V \in SUBSET Int /\ V # {}
    BY <1>1 DEF Similarities
<1>5. TableScore(sims, t) = Max(V)
    BY DEF TableScore
<1>6. Max(V) \in V /\ \A y \in V : Max(V) >= y
    <2> HIDE DEF V
    <2> QED BY <1>3, <1>4, MaxIs
<1>7. \A e \in DOMAIN EntryOf : sims[e] \in Int
    BY DEF Similarities
<1> QED BY <1>4, <1>5, <1>6, <1>7

\* The ranking has every table once, none behind one that is less near.
LEMMA RankedIs ==
    ASSUME NEW sims \in Similarities
    PROVE  LET r == Ranked(sims)
           IN  /\ r \in [1 .. Len(Table) -> Range(Table)] /\ IsInjective(r)
               /\ \A t \in Range(Table) : \E k \in 1 .. Len(Table) : r[k] = t
               /\ \A j, k \in 1 .. Len(Table) : j <= k => TableScore(sims, r[j]) >= TableScore(sims, r[k])
<1> USE LinkingAssumption
<1> DEFINE n == Len(Table)
           D == DOMAIN Table
           R == {p \in D \X D : Nearer(sims, p[1], p[2])}
           order == InOrder(D, R)
           r == Ranked(sims)
           v(i) == TableScore(sims, Table[i])
<1>1. n \in Nat /\ D = 1 .. n /\ \A i \in D : Table[i] \in Range(Table)
    BY DEF Range
<1>2. IsFiniteSet(D) /\ Cardinality(D) = n
    BY <1>1, FS_Interval
<1>3. \A i \in D : v(i) \in Int
    BY <1>1, TableScoreIs
<1>4. \A i, j \in D : <<i, j>> \in R <=> v(i) > v(j) \/ (v(i) = v(j) /\ i < j)
    BY DEF Nearer
<1>5. Orders(R, D)
    <2> HIDE DEF R, D, v
    <2> QED BY <1>1, <1>3, <1>4 DEF Orders
<1> HIDE DEF R, D, n
<1>6. Lists(order, D, R)
    BY <1>2, <1>5, InOrderLists
<1>7. /\ order \in [1 .. n -> D] /\ (\A i \in D : \E k \in 1 .. n : order[k] = i)
      /\ \A j, k \in 1 .. n : j < k => <<order[j], order[k]>> \in R
    <2> HIDE DEF order
    <2> QED BY <1>2, <1>6 DEF Lists
<1>8. r = [i \in D |-> Table[order[i]]]
    BY DEF Ranked, R, D
<1> HIDE DEF r, order
<1>9. r \in [1 .. n -> Range(Table)] /\ \A i \in 1 .. n : r[i] = Table[order[i]] /\ order[i] \in D
    BY <1>1, <1>7, <1>8
<1>10. ASSUME NEW j \in 1 .. n, NEW k \in 1 .. n, r[j] = r[k] PROVE j = k
    <2>1. order[j] = order[k]
        BY <1>9, <1>10 DEF IsInjective, D
    <2>2. <<order[j], order[j]>> \notin R
        BY <1>5, <1>9 DEF Orders
    <2> QED BY <2>1, <2>2, <1>1, <1>7
<1>11. ASSUME NEW t \in Range(Table) PROVE \E k \in 1 .. n : r[k] = t
    <2>1. PICK i \in D : Table[i] = t
        BY DEF Range, D
    <2> QED BY <2>1, <1>7, <1>9
<1>12. ASSUME NEW j \in 1 .. n, NEW k \in 1 .. n, j <= k PROVE TableScore(sims, r[j]) >= TableScore(sims, r[k])
    <2>1. v(order[j]) \in Int /\ v(order[k]) \in Int
        BY <1>3, <1>9
    <2>2. j < k => v(order[j]) >= v(order[k])
        <3>1. j < k => <<order[j], order[k]>> \in R
            BY <1>7
        <3> HIDE DEF v
        <3> QED BY <3>1, <2>1, <1>4, <1>9
    <2>3. j = k => v(order[j]) >= v(order[k])
        <3> HIDE DEF v
        <3> QED BY <2>1
    <2>4. j < k \/ j = k
        BY <1>1, <1>12
    <2> QED BY <2>2, <2>3, <2>4, <1>9
<1>13. IsInjective(r)
    BY <1>9, <1>10 DEF IsInjective
<1> QED BY <1>9, <1>11, <1>12, <1>13 DEF n, r

\* What NearestIsInPrompt says of the tables of a prompt.
NearestOf(sims, tables) ==
    /\ \E e \in DOMAIN EntryOf : EntryOf[e] \in Range(tables) /\ \A f \in DOMAIN EntryOf : sims[f] <= sims[e]
    /\ IsInjective(tables)
    /\ \A e \in DOMAIN EntryOf : EntryOf[e] \notin Range(tables) =>
         \A t \in Range(tables) : \E f \in DOMAIN EntryOf : EntryOf[f] = t /\ sims[f] >= sims[e]

LEMMA InjectedIs ==
    ASSUME NEW sims \in Similarities
    PROVE  NearestOf(sims, Injected(sims))
<1> USE LinkingAssumption
<1> DEFINE n == Len(Table)
           r == Ranked(sims)
           m == IF TopTables < n THEN TopTables ELSE n
           rec == Recalled(sims)
           s(i) == TableScore(sims, r[i])
           N == {i \in 1 .. m : 4 * s(i) >= 3 * s(1)}
           tables == Injected(sims)
<1>1. /\ r \in [1 .. n -> Range(Table)]
      /\ \A i, j \in 1 .. n : r[i] = r[j] => i = j
      /\ \A t \in Range(Table) : \E k \in 1 .. n : r[k] = t
      /\ \A j, k \in 1 .. n : j <= k => s(j) >= s(k)
    BY RankedIs DEF IsInjective
<1>2. n \in Nat /\ m \in 1 .. n /\ 1 \in 1 .. n
    OBVIOUS
<1>3. \A i \in 1 .. n : s(i) \in Int
    BY <1>1, TableScoreIs
<1>4. DOMAIN rec = 1 .. m /\ \A i \in 1 .. m : rec[i] = r[i]
    <2>1. r \in Seq(Range(Table)) /\ Len(r) = n
        <3> HIDE DEF r, n, m
        <3> QED BY <1>1, <1>2
    <2>2. rec = SubSeq(r, 1, m)
        BY DEF Recalled
    <2> HIDE DEF r, n, m, rec
    <2> QED BY <2>1, <2>2, <1>2
\* The tables are those at the places I, in their order.
<1> DEFINE Gives(I) == /\ Range(tables) = {r[i] : i \in I}
                       /\ IsInjective(tables)
<1>5. N = {} => Gives({1})
    <2>1. rec[1] = r[1]
        BY <1>2, <1>4
    <2>2. N = {i \in DOMAIN rec : 4 * TableScore(sims, rec[i]) >= 3 * TableScore(sims, rec[1])}
        BY <1>4, <2>1
    <2>3. SUFFICES ASSUME N = {} PROVE tables = <<r[1]>>
        BY DEF Range, IsInjective
    <2>4. Ascending(N) = <<>>
        <3>1. IsFiniteSet({}) /\ Cardinality({}) = 0
            BY FS_EmptySet
        <3>2. Ascending({}) = [k \in 1 .. 0 |-> CHOOSE x \in {} :
                 Cardinality({y \in {} : <<y, x>> \in {p \in {} \X {} : p[1] < p[2]}}) = k - 1]
            BY <3>1 DEF Ascending, InOrder
        <3>3. Ascending({}) = <<>>
            BY <3>2
        <3> QED BY <3>3, <2>3
    <2> HIDE DEF N
    <2> QED BY <2>1, <2>2, <2>4 DEF Injected
<1>6. N # {} => Gives(N)
    <2> DEFINE near == Ascending(N)
               c == Cardinality(N)
    <2>1. rec[1] = r[1]
        BY <1>2, <1>4
    <2>2. N = {i \in DOMAIN rec : 4 * TableScore(sims, rec[i]) >= 3 * TableScore(sims, rec[1])}
        BY <1>4, <2>1
    <2>3. N \in SUBSET Int /\ N \in SUBSET (1 .. m) /\ IsFiniteSet(N)
        <3>0. m \in Int
            BY <1>2
        <3>1. N \in SUBSET (1 .. m) /\ IsFiniteSet(1 .. m) /\ 1 .. m \subseteq Int
            <4>1. N \in SUBSET (1 .. m)
                OBVIOUS
            <4> HIDE DEF N, m
            <4> QED BY <3>0, <4>1, FS_Interval
        <3> HIDE DEF N, m
        <3>2. IsFiniteSet(N)
            BY <3>1, FS_Subset
        <3> QED BY <3>1, <3>2
    <2>4. \A i, j \in N : <<i, j>> \in {p \in N \X N : p[1] < p[2]} => i < j
        OBVIOUS
    <2> SUFFICES ASSUME N # {} PROVE Gives(N)
        OBVIOUS
    <2>5. tables = IF near = <<>> THEN <<rec[1]>> ELSE [i \in DOMAIN near |-> rec[near[i]]]
        <3> HIDE DEF N
        <3> QED BY <2>2 DEF Injected
    <2> HIDE DEF N, near, rec, m, r, n, tables
    <2>6. c \in Nat /\ c # 0
        BY <2>3, FS_CardinalityType, FS_EmptySet
    <2>7. Lists(near, N, {p \in N \X N : p[1] < p[2]})
        BY <2>3, AscendingLists DEF near
    <2>8. /\ near \in [1 .. c -> N] /\ (\A i \in N : \E k \in 1 .. c : near[k] = i)
          /\ \A j, k \in 1 .. c : j < k => near[j] < near[k]
        BY <2>4, <2>7 DEF Lists
    <2> HIDE DEF c
    <2>9. DOMAIN near = 1 .. c /\ near # <<>>
        BY <2>6, <2>8
    <2>10. tables = [i \in 1 .. c |-> rec[near[i]]]
        BY <2>5, <2>9
    <2>11. \A i \in 1 .. c : near[i] \in N /\ near[i] \in 1 .. m /\ tables[i] = r[near[i]]
        BY <2>3, <2>8, <2>10, <1>4
    <2>12. Range(tables) = {r[i] : i \in N}
        <3>1. Range(tables) = {tables[i] : i \in 1 .. c}
            BY <2>10 DEF Range
        <3>2. \A i \in 1 .. c : tables[i] = r[near[i]] /\ near[i] \in N
            BY <2>11
        <3>3. \A i \in N : \E k \in 1 .. c : near[k] = i
            BY <2>8
        <3> HIDE DEF N, r, c, tables, near
        <3> QED BY <3>1, <3>2, <3>3
    <2>13. ASSUME NEW j \in 1 .. c, NEW k \in 1 .. c, tables[j] = tables[k] PROVE j = k
        <3>1. near[j] \in 1 .. n /\ near[k] \in 1 .. n
            BY <2>11, <1>2
        <3>2. near[j] = near[k]
            BY <3>1, <2>11, <2>13, <1>1
        <3>3. near[j] \in Int /\ j \in Int /\ k \in Int
            BY <3>1, <1>2, <2>6
        <3> QED BY <3>2, <3>3, <2>8
    <2>14. IsInjective(tables)
        BY <2>10, <2>13 DEF IsInjective
    <2> QED BY <2>12, <2>14
<1>7. PICK I \in SUBSET (1 .. m) : Gives(I) /\ 1 \in I /\ \A i \in I, k \in (1 .. n) \ I : s(i) >= s(k)
    <2>1. CASE N = {}
        <3>1. \A k \in 1 .. n : s(1) >= s(k)
            BY <1>1, <1>2
        <3>2. {1} \in SUBSET (1 .. m) /\ Gives({1})
            BY <2>1, <1>2, <1>5
        <3> HIDE DEF n, m, s, Gives, N
        <3>3. \A i \in {1}, k \in (1 .. n) \ {1} : s(i) >= s(k)
            BY <3>1
        <3> QED BY <3>2, <3>3
    <2>2. CASE N # {}
        <3>1. PICK x \in N : TRUE
            BY <2>2
        <3>2. s(1) >= s(x) /\ 4 * s(x) >= 3 * s(1) /\ s(1) \in Int /\ s(x) \in Int
            BY <3>1, <1>1, <1>2, <1>3
        <3>3. 4 * s(1) >= 3 * s(1)
            <4> HIDE DEF s
            <4> QED BY <3>2
        <3>4. 1 \in N
            BY <3>3, <1>2
        <3>5. ASSUME NEW i \in N, NEW k \in (1 .. n) \ N PROVE s(i) >= s(k)
            <4>1. i \in 1 .. m /\ i \in 1 .. n /\ s(i) \in Int /\ s(k) \in Int /\ s(1) \in Int /\ 4 * s(i) >= 3 * s(1)
                BY <1>2, <1>3
            <4>2. CASE k \in 1 .. m
                <5>1. ~ (4 * s(k) >= 3 * s(1))
                    BY <4>2, <3>5
                <5> HIDE DEF s
                <5> QED BY <4>1, <5>1
            <4>3. CASE k \notin 1 .. m
                <5>1. i <= k
                    BY <4>1, <4>3, <1>2
                <5> QED BY <4>1, <5>1, <1>1
            <4> QED BY <4>2, <4>3
        <3>6. N \in SUBSET (1 .. m)
            OBVIOUS
        <3> HIDE DEF N, n, m, s, tables, r
        <3> QED BY <2>2, <3>4, <3>5, <3>6, <1>6
    <2> QED BY <2>1, <2>2
<1> HIDE DEF N, rec, tables, r, m
<1>8. \A e \in DOMAIN EntryOf : EntryOf[e] \in Range(Table) /\ sims[e] \in Int
    BY DEF Range, Similarities
<1>9. I \subseteq 1 .. n
    BY <1>2
<1>10. \E e \in DOMAIN EntryOf : EntryOf[e] \in Range(tables) /\ \A f \in DOMAIN EntryOf : sims[f] <= sims[e]
    <2>1. r[1] \in Range(Table) /\ r[1] \in Range(tables)
        BY <1>1, <1>2, <1>7
    <2>2. PICK e \in DOMAIN EntryOf : EntryOf[e] = r[1] /\ sims[e] = s(1)
        BY <2>1, TableScoreIs
    <2>3. ASSUME NEW f \in DOMAIN EntryOf PROVE sims[f] <= sims[e]
        <3>1. PICK k \in 1 .. n : r[k] = EntryOf[f]
            BY <1>1, <1>8
        <3>2. s(1) >= s(k)
            BY <1>1, <1>2
        <3>3. sims[f] <= s(k)
            BY <3>1, <1>8, TableScoreIs
        <3>4. s(1) \in Int /\ s(k) \in Int
            BY <1>2, <1>3
        <3> HIDE DEF s
        <3> QED BY <3>2, <3>3, <3>4, <1>8, <2>2
    <2> QED BY <2>1, <2>2, <2>3
<1>11. ASSUME NEW e \in DOMAIN EntryOf, EntryOf[e] \notin Range(tables), NEW t \in Range(tables)
       PROVE  \E f \in DOMAIN EntryOf : EntryOf[f] = t /\ sims[f] >= sims[e]
    <2>1. PICK i \in I : r[i] = t
        BY <1>7
    <2>2. PICK k \in 1 .. n : r[k] = EntryOf[e]
        BY <1>1, <1>8
    <2>3. k \notin I
        BY <1>7, <1>11, <2>2
    <2>4. s(i) >= s(k) /\ s(i) \in Int /\ s(k) \in Int
        BY <2>3, <1>3, <1>7, <1>9
    <2>5. sims[e] <= s(k)
        BY <2>2, <1>8, TableScoreIs
    <2>6. PICK f \in DOMAIN EntryOf : EntryOf[f] = t /\ sims[f] = s(i)
        <3>1. r[i] \in Range(Table)
            BY <1>1, <1>9
        <3> QED BY <2>1, <3>1, TableScoreIs
    <2>7. sims[f] >= sims[e]
        <3> HIDE DEF s
        <3> QED BY <2>4, <2>5, <2>6, <1>8
    <2> QED BY <2>6, <2>7
<1>12. NearestOf(sims, tables)
    BY <1>7, <1>10, <1>11 DEF NearestOf
<1> QED BY <1>12 DEF tables

\* A question is linked to the tables InjectedIs is about.
LEMMA LinkingStep ==
    ASSUME LinkingNext
    PROVE  NearestIsInPrompt'
<1>1. CASE Links
    <2>1. PICK sims \in Similarities : linked' = [sims |-> sims, tables |-> Injected(sims)]
        BY <1>1 DEF Links, Similarities
    <2>2. linked'.sims = sims /\ linked'.tables = Injected(sims) /\ NearestOf(sims, Injected(sims))
        BY <2>1, InjectedIs
    <2> QED BY <2>2 DEF NearestIsInPrompt, NearestOf
<1>2. CASE Unlinks
    BY <1>2 DEF Unlinks, NearestIsInPrompt, NotLinked
<1> QED BY <1>1, <1>2 DEF LinkingNext

\* The prompt has the nearest table, for any corpus and any similarities.
THEOREM NearestTables == Spec => []NearestIsInPrompt
<1>1. Init => NearestIsInPrompt
    BY DEF Init, LinkingInit, NearestIsInPrompt
<1>2. NearestIsInPrompt /\ [Next]_vars => NearestIsInPrompt'
    <2>1. NearestIsInPrompt /\ UNCHANGED linked => NearestIsInPrompt'
        BY DEF NearestIsInPrompt
    <2> QED BY <2>1, LinkingStep, Apart
<1> QED BY <1>1, <1>2, PTL DEF Spec

-----------------------------------------------------------------------------
(***************************************************************************)
(* Feedback                                                                *)
(***************************************************************************)
Item == [question : Range(BaseSet) \cup {QuestionOf[c] : c \in Correction}, source : Correction \cup {"base"}]

\* What EvalAsksOnce says of an evaluation set, with the base at its front.
SoundSet(set) ==
    /\ set \in Seq(Item)
    /\ \A i, j \in DOMAIN set : set[i].question = set[j].question => i = j
    /\ \A i \in DOMAIN BaseSet : i \in DOMAIN set /\ set[i] = [question |-> BaseSet[i], source |-> "base"]
    /\ \A i \in DOMAIN set : set[i].source \in approved \cup {"base"}

\* A line says approved of a submission only if it was.
Honest(listing) == listing \in Seq(Line) /\ \A i \in DOMAIN listing : listing[i].status = "approved" => listing[i].by \in approved

LEMMA BaseItemsAreSound == SoundSet(BaseItems)
<1> USE FeedbackAssumption
<1>1. DOMAIN BaseSet = 1 .. Len(BaseSet) /\ Len(BaseSet) \in Nat
    OBVIOUS
<1>2. \A i \in DOMAIN BaseSet : BaseSet[i] \in Range(BaseSet)
    BY DEF Range
<1>3. DOMAIN BaseItems = DOMAIN BaseSet
      /\ \A i \in DOMAIN BaseSet : BaseItems[i] = [question |-> BaseSet[i], source |-> "base"]
    BY DEF BaseItems
<1>4. BaseItems \in Seq(Item)
    <2>1. BaseItems \in [1 .. Len(BaseSet) -> Item]
        BY <1>1, <1>2 DEF Item, BaseItems
    <2> QED BY <1>1, <2>1
<1>5. \A i, j \in DOMAIN BaseItems : BaseItems[i].question = BaseItems[j].question => i = j
    BY <1>3 DEF IsInjective
<1> QED BY <1>3, <1>4, <1>5 DEF SoundSet

LEMMA AddedIsSound ==
    ASSUME NEW set, SoundSet(set), NEW line \in Line, line.status = "approved" => line.by \in approved
    PROVE  SoundSet(Added(line, set))
<1>1. CASE Added(line, set) = set
    BY <1>1
<1> DEFINE item == [question |-> QuestionOf[line.by], source |-> line.by]
           new == Append(set, item)
<1>2. CASE line.status = "approved" /\ IsNew(line.by, set) /\ Added(line, set) = new
    <2>1. item \in Item /\ item.source \in approved /\ set \in Seq(Item)
        BY <1>2 DEF Item, Line, SoundSet
    <2>2. \A i \in DOMAIN set : set[i].question # item.question
        BY <1>2 DEF IsNew
    <2> HIDE DEF item
    <2>3. /\ new \in Seq(Item) /\ DOMAIN new = 1 .. Len(set) + 1 /\ DOMAIN set = 1 .. Len(set) /\ Len(set) \in Nat
          /\ (\A i \in DOMAIN set : new[i] = set[i]) /\ new[Len(set) + 1] = item
        BY <2>1
    <2>4. \A i \in DOMAIN new : i \in DOMAIN set \/ i = Len(set) + 1
        BY <2>3
    <2> HIDE DEF new
    <2>5. \A i, j \in DOMAIN new : new[i].question = new[j].question => i = j
        BY <2>2, <2>3, <2>4 DEF SoundSet
    <2>6. \A i \in DOMAIN BaseSet : i \in DOMAIN new /\ new[i] = [question |-> BaseSet[i], source |-> "base"]
        BY <2>3 DEF SoundSet
    <2>7. \A i \in DOMAIN new : new[i].source \in approved \cup {"base"}
        BY <2>1, <2>3, <2>4 DEF SoundSet
    <2>8. SoundSet(new)
        BY <2>3, <2>5, <2>6, <2>7 DEF SoundSet
    <2> QED BY <1>2, <2>8
<1> QED BY <1>1, <1>2 DEF Added

\* An honest file gives a sound evaluation set.  The set up to each line is
\* what the recursion says of the set up to the line before.
LEMMA EvalSetIsSound ==
    ASSUME Honest(file)
    PROVE  SoundSet(EvalSet)
<1> DEFINE L == Len(file)
           Continue(g, k) == [n \in 0 .. k |-> IF n = 0 THEN BaseItems ELSE Added(file[n], g[n - 1])]
           Folded(k) == \E g : g = Continue(g, k)
           Bad == {k \in 0 .. L : ~ Folded(k)}
<1>1. L \in Nat /\ DOMAIN file = 1 .. L /\ file \in Seq(Line)
    BY DEF Honest
<1>2. Bad = {}
    <2>1. SUFFICES ASSUME Bad # {} PROVE FALSE
        OBVIOUS
    <2>2. PICK k \in Bad : \A n \in Bad : k <= n
        <3>1. Bad \subseteq Nat
            BY <1>1
        <3> HIDE DEF Bad
        <3> QED BY <2>1, <3>1, HasLeast
    <2>3. k \in 0 .. L /\ k \in Nat /\ ~ Folded(k)
        BY <1>1, <2>2
    <2>4. CASE k = 0
        <3> DEFINE g == [n \in 0 .. 0 |-> BaseItems]
        <3>1. g = Continue(g, 0)
            OBVIOUS
        <3> QED BY <2>3, <2>4, <3>1
    <2>5. CASE k # 0
        <3>1. k - 1 \in 0 .. L /\ ~ (k <= k - 1)
            BY <1>1, <2>3, <2>5
        <3>2. k - 1 \notin Bad
            BY <2>2, <3>1
        <3>3. PICK g : g = Continue(g, k - 1)
            BY <3>1, <3>2
        <3> DEFINE h == [n \in 0 .. k |-> IF n = k THEN Added(file[k], g[k - 1]) ELSE g[n]]
        <3>4. \A n \in 0 .. k : h[n] = IF n = 0 THEN BaseItems ELSE Added(file[n], h[n - 1])
            <4>1. ASSUME NEW n \in 0 .. k, n # k, n # 0 PROVE h[n] = Added(file[n], h[n - 1])
                <5>1. n \in 0 .. k - 1 /\ n - 1 \in 0 .. k /\ n - 1 # k
                    BY <2>3, <4>1
                <5>2. g[n] = Added(file[n], g[n - 1])
                    BY <3>3, <4>1, <5>1
                <5>3. h[n] = g[n] /\ h[n - 1] = g[n - 1]
                    BY <4>1, <5>1
                <5> QED BY <5>2, <5>3
            <4>2. h[k] = Added(file[k], h[k - 1])
                <5>1. k \in 0 .. k /\ k - 1 \in 0 .. k /\ k - 1 # k
                    BY <2>3, <2>5
                <5> QED BY <5>1
            <4>3. h[0] = BaseItems
                <5>1. 0 \in 0 .. k /\ 0 \in 0 .. k - 1
                    BY <2>3, <2>5
                <5>2. g[0] = BaseItems
                    BY <3>3, <5>1
                <5> QED BY <5>1, <5>2, <2>5
            <4> HIDE DEF h
            <4> QED BY <4>1, <4>2, <4>3, <2>5
        <3>5. h = Continue(h, k)
            <4>1. h = [n \in 0 .. k |-> h[n]]
                OBVIOUS
            <4> HIDE DEF h
            <4> QED BY <3>4, <4>1
        <3> HIDE DEF h, Continue
        <3> QED BY <2>3, <3>5
    <2> QED BY <2>4, <2>5
<1> DEFINE f == CHOOSE g : g = Continue(g, L)
<1>3. f = Continue(f, L)
    <2>1. \E g : g = Continue(g, L)
        BY <1>1, <1>2
    <2> HIDE DEF Continue
    <2> QED BY <2>1
<1>4. EvalSet = f[L]
    BY DEF EvalSet
<1> HIDE DEF f
<1> DEFINE Worse == {k \in 0 .. L : ~ SoundSet(f[k])}
<1>5. Worse = {}
    <2>1. SUFFICES ASSUME Worse # {} PROVE FALSE
        OBVIOUS
    <2>2. PICK k \in Worse : \A n \in Worse : k <= n
        <3>1. Worse \subseteq Nat
            BY <1>1
        <3> HIDE DEF Worse
        <3> QED BY <2>1, <3>1, HasLeast
    <2>3. k \in 0 .. L /\ k \in Nat /\ ~ SoundSet(f[k])
        BY <1>1, <2>2
    <2>4. k # 0
        <3>1. 0 \in 0 .. L
            BY <1>1
        <3>2. f[0] = BaseItems
            BY <1>3, <3>1
        <3> QED BY <2>3, <3>2, BaseItemsAreSound
    <2>5. k - 1 \in 0 .. L /\ ~ (k <= k - 1) /\ k \in 1 .. L
        BY <1>1, <2>3, <2>4
    <2>6. SoundSet(f[k - 1])
        BY <2>2, <2>5
    <2>7. f[k] = Added(file[k], f[k - 1])
        BY <1>3, <2>3, <2>4
    <2>8. file[k] \in Line /\ (file[k].status = "approved" => file[k].by \in approved)
        BY <1>1, <2>5 DEF Honest
    <2> QED BY <2>3, <2>6, <2>7, <2>8, AddedIsSound
<1>6. L \in 0 .. L
    BY <1>1
<1> QED BY <1>4, <1>5, <1>6

-----------------------------------------------------------------------------
Reviewing == [of : Correction, status : Status, lines : Seq(Line), opened : BOOLEAN]

\* Whatever a review has read or written, nothing counts as approved that no
\* review approved.
FeedbackInv ==
    /\ Honest(file)
    /\ review # NoReview => review \in Reviewing /\ Honest(review.lines)
    /\ evalSet = <<>> \/ SoundSet(evalSet)

LEMMA SoundAsksOnce ==
    ASSUME FeedbackInv
    PROVE  EvalAsksOnce
<1>1. CASE evalSet = <<>>
    BY <1>1 DEF EvalAsksOnce
<1>2. CASE SoundSet(evalSet)
    BY <1>2 DEF SoundSet, EvalAsksOnce
<1> QED BY <1>1, <1>2 DEF FeedbackInv

LEMMA FeedbackStart ==
    ASSUME FeedbackInit
    PROVE  FeedbackInv
BY DEF FeedbackInit, FeedbackInv, Honest

\* What has been approved stays approved.
LEMMA ApprovedGrows ==
    ASSUME approved \subseteq approved'
    PROVE  /\ \A listing : Honest(listing) => listing \in Seq(Line)
                /\ \A i \in DOMAIN listing : listing[i].status = "approved" => listing[i].by \in approved'
           /\ evalSet' = evalSet /\ SoundSet(evalSet) => SoundSet(evalSet)'
BY DEF Honest, SoundSet

\* Every step of the feedback keeps the invariant.
LEMMA FeedbackStep ==
    ASSUME FeedbackInv, FeedbackNext
    PROVE  FeedbackInv'
<1>1. ASSUME UNCHANGED <<approved, evalSet>> PROVE evalSet' = <<>> \/ SoundSet(evalSet)'
    BY <1>1 DEF FeedbackInv, SoundSet
<1>2. ASSUME NEW c \in Correction, Submits(c) PROVE FeedbackInv'
    <2>1. UNCHANGED <<review, approved, evalSet>> /\ file' = Append(file, Submission(c))
        BY <1>2 DEF Submits
    <2>2. file \in Seq(Line) /\ Submission(c) \in Line /\ Submission(c).status = "pending"
        BY DEF FeedbackInv, Honest, Submission, Line, Status
    <2>3. Honest(file)'
        <3>1. /\ file' \in Seq(Line) /\ DOMAIN file' = 1 .. Len(file) + 1 /\ DOMAIN file = 1 .. Len(file) /\ Len(file) \in Nat
              /\ (\A i \in DOMAIN file : file'[i] = file[i]) /\ file'[Len(file) + 1] = Submission(c)
            BY <2>1, <2>2
        <3>2. \A i \in DOMAIN file' : i \in DOMAIN file \/ i = Len(file) + 1
            BY <3>1
        <3> QED BY <2>1, <2>2, <3>1, <3>2 DEF FeedbackInv, Honest
    <2>4. review' # NoReview => review' \in Reviewing /\ Honest(review.lines)'
        BY <2>1 DEF FeedbackInv, Honest
    <2> QED BY <1>1, <2>1, <2>3, <2>4 DEF FeedbackInv
<1>3. ASSUME NEW c \in Correction, ReviewReads(c) PROVE FeedbackInv'
    <2>1. PICK status \in {"approved", "rejected"} :
             review' = [of |-> c, status |-> status,
                        lines |-> [i \in DOMAIN file |->
                            IF file[i].by = c THEN [file[i] EXCEPT !.status = status] ELSE file[i]],
                        opened |-> FALSE]
        BY <1>3 DEF ReviewReads
    <2>2. /\ file' = file /\ evalSet' = evalSet /\ approved \subseteq approved'
          /\ status = "approved" => c \in approved'
        BY <1>3, <2>1 DEF ReviewReads
    <2> DEFINE listing == [i \in DOMAIN file |->
                            IF file[i].by = c THEN [file[i] EXCEPT !.status = status] ELSE file[i]]
    <2>3. file \in Seq(Line) /\ DOMAIN file = 1 .. Len(file) /\ Len(file) \in Nat
        BY DEF FeedbackInv, Honest
    <2>4. \A i \in DOMAIN file : file[i] \in Line /\ (file[i].status = "approved" => file[i].by \in approved)
        BY <2>3 DEF FeedbackInv, Honest
    <2>5. ASSUME NEW i \in DOMAIN file
          PROVE  listing[i] \in Line /\ (listing[i].status = "approved" => listing[i].by \in approved')
        <3>1. CASE file[i].by = c
            <4>1. listing[i] = [file[i] EXCEPT !.status = status]
                BY <3>1
            <4>2. listing[i] \in Line /\ listing[i].by = c /\ listing[i].status = status
                BY <2>4, <3>1, <4>1 DEF Line, Status
            <4> QED BY <2>2, <4>2
        <3>2. CASE file[i].by # c
            BY <2>2, <2>4, <3>2
        <3> QED BY <3>1, <3>2
    <2>6. listing \in Seq(Line) /\ DOMAIN listing = DOMAIN file
        <3>1. listing \in [1 .. Len(file) -> Line]
            BY <2>3, <2>5
        <3> QED BY <2>3, <3>1
    <2>7. review'.lines = listing
        BY <2>1
    <2> HIDE DEF listing
    <2>8. Honest(review.lines)'
        BY <2>5, <2>6, <2>7 DEF Honest
    <2>9. Honest(file)'
        BY <2>2, ApprovedGrows DEF FeedbackInv, Honest
    <2>10. evalSet' = <<>> \/ SoundSet(evalSet)'
        BY <2>2, ApprovedGrows DEF FeedbackInv
    <2>11. review' \in Reviewing
        BY <2>1, <2>6, <2>7 DEF Reviewing, Status
    <2> QED BY <2>8, <2>9, <2>10, <2>11 DEF FeedbackInv
<1>4. CASE ReviewOpens
    <2>1. file' = <<>> /\ approved' = approved /\ evalSet' = evalSet
          /\ review' = [review EXCEPT !.opened = TRUE] /\ review # NoReview
        BY <1>4 DEF ReviewOpens
    <2>2. Honest(file)'
        BY <2>1 DEF Honest
    <2>3. review'.lines = review.lines /\ review' \in Reviewing
        BY <2>1 DEF FeedbackInv, Reviewing
    <2>4. Honest(review.lines)'
        BY <2>1, <2>3 DEF FeedbackInv, Honest
    <2> QED BY <1>1, <2>1, <2>2, <2>3, <2>4 DEF FeedbackInv
<1>5. CASE ReviewWrites
    <2>1. /\ file' = Append(file, Head(review.lines)) /\ approved' = approved /\ evalSet' = evalSet
          /\ review' = [review EXCEPT !.lines = Tail(review.lines)] /\ review # NoReview /\ review.lines # <<>>
        BY <1>5 DEF ReviewWrites
    <2> DEFINE listing == review.lines
    <2>2. Honest(file) /\ Honest(listing)
        BY <2>1 DEF FeedbackInv
    <2> HIDE DEF listing
    <2>3. /\ listing \in Seq(Line) /\ listing # <<>> /\ Head(listing) = listing[1] /\ 1 \in DOMAIN listing
          /\ Tail(listing) \in Seq(Line) /\ \A i \in DOMAIN Tail(listing) : i + 1 \in DOMAIN listing /\ Tail(listing)[i] = listing[i + 1]
        BY <2>1, <2>2 DEF Honest, listing
    <2>4. Honest(Tail(listing))
        BY <2>2, <2>3 DEF Honest
    <2>5. Honest(file)'
        <3>1. file \in Seq(Line) /\ Head(listing) \in Line /\ (Head(listing).status = "approved" => Head(listing).by \in approved)
            BY <2>2, <2>3 DEF Honest
        <3>2. /\ file' \in Seq(Line) /\ DOMAIN file' = 1 .. Len(file) + 1 /\ DOMAIN file = 1 .. Len(file) /\ Len(file) \in Nat
              /\ (\A i \in DOMAIN file : file'[i] = file[i]) /\ file'[Len(file) + 1] = Head(listing)
            BY <2>1, <3>1 DEF listing
        <3>3. \A i \in DOMAIN file' : i \in DOMAIN file \/ i = Len(file) + 1
            BY <3>2
        <3> QED BY <2>1, <2>2, <3>1, <3>2, <3>3 DEF Honest
    <2>6. review'.lines = Tail(listing) /\ review' \in Reviewing
        BY <2>1, <2>3 DEF FeedbackInv, Reviewing, listing
    <2>7. Honest(review.lines)'
        <3> DEFINE rest == Tail(listing)
        <3>1. rest \in Seq(Line) /\ \A i \in DOMAIN rest : rest[i].status = "approved" => rest[i].by \in approved
            BY <2>4 DEF Honest
        <3>2. review'.lines = rest /\ approved' = approved
            BY <2>1, <2>6
        <3> HIDE DEF rest
        <3> QED BY <3>1, <3>2 DEF Honest
    <2> QED BY <1>1, <2>1, <2>5, <2>6, <2>7 DEF FeedbackInv
<1>6. CASE ReviewEnds
    BY <1>1, <1>6 DEF ReviewEnds, FeedbackInv, Honest
<1>7. CASE FlowsBack
    <2>1. SoundSet(EvalSet) /\ evalSet' = EvalSet /\ UNCHANGED <<file, review, approved>>
        BY <1>7, EvalSetIsSound DEF FeedbackInv, FlowsBack
    <2>2. SoundSet(evalSet)'
        <3>1. SoundSet(evalSet') 
            BY <2>1
        <3> QED BY <2>1, <3>1 DEF SoundSet
    <2> QED BY <2>1, <2>2 DEF FeedbackInv, Honest
<1> QED BY <1>2, <1>3, <1>4, <1>5, <1>6, <1>7 DEF FeedbackNext

\* The evaluation set asks nothing twice, for files and reviews of any number.
THEOREM AskedOnce == Spec => []EvalAsksOnce
<1>1. Init => FeedbackInv
    BY FeedbackStart DEF Init
<1>2. FeedbackInv /\ [Next]_vars => FeedbackInv'
    <2>1. FeedbackInv /\ UNCHANGED feedback => FeedbackInv'
        BY DEF feedback, FeedbackInv, Honest, SoundSet
    <2> QED BY <2>1, FeedbackStep, Apart
<1> QED BY <1>1, <1>2, SoundAsksOnce, PTL DEF Spec
=============================================================================
