------------------------------ MODULE OpsTurn ------------------------------
(***************************************************************************)
(* Turns of one ops session that read (domains/ops/agent/graph.py: intent, *)
(* execute, respond), on several instances at once: the model is asked for *)
(* the intent and for the wording of a report while the session's budget   *)
(* lasts, rules and a template do it afterwards.  Writes are OpsFlow's.    *)
(***************************************************************************)
EXTENDS CostBudget, ReadTool, FiniteSets

CONSTANTS
    IntentCost, ReportCost,  \* add_usage(300, 60), add_usage(500, 150)
    MaxBegun                 \* bound: turns begun in a behaviour

ASSUME TurnAssumption ==
    /\ Budget \in Nat \ {0} /\ IntentCost \in Nat /\ ReportCost \in Nat /\ IsFiniteSet(Reader)
    /\ Process = Instance

VARIABLES
    turn,       \* of each turn: its step and its instance
    begun       \* turns so far

turns == <<turn, begun>>

TurnState == [pc : {"rest", "rules", "intent", "execute", "read", "respond", "report"},
              at : Instance \cup {"none"}]
NoTurn == [pc |-> "rest", at |-> "none"]

TurnTypeOK == BudgetTypeOK /\ ToolTypeOK /\ turn \in [Reader -> TurnState] /\ begun \in 0 .. MaxBegun

TurnInit ==
    /\ BudgetInit /\ ToolInit /\ begun = 0
    /\ turn = [t \in Reader |-> NoTurn]

Goes(t, pc) == turn' = [turn EXCEPT ![t].pc = pc] /\ UNCHANGED begun
TurnEnds(t) == turn' = [turn EXCEPT ![t] = NoTurn] /\ UNCHANGED begun

\* intent_node: by the model while there is budget, then by rules.
TurnBegins(t, i) ==
    /\ turn[t].pc = "rest" /\ begun < MaxBegun /\ begun' = begun + 1
    /\ turn' = [turn EXCEPT ![t] = [pc |-> IF OverBudget(i) THEN "rules" ELSE "intent", at |-> i]]
    /\ Reads(i) /\ UNCHANGED tool

\* route_after_intent: a tool, or, when the message is unclear, straight to the
\* answer, with the result an earlier turn left in the checkpoint, if any did.
Routes(t) ==
    \/ Goes(t, "execute") /\ UNCHANGED tool
    \/ /\ Goes(t, "respond")
       /\ \E s \in Reader : (turn[s].pc = "rest" \/ s = t) /\ read' = [read EXCEPT ![t] = read[s]]
       /\ UNCHANGED <<cached, snapshot, served>>

IntentAnswered(t) ==
    /\ turn[t].pc = "intent"
    /\ Adds(turn[t].at, IntentCost)
    /\ Routes(t)

\* The model fails, or is not asked: rules.
IntentByRule(t) ==
    /\ turn[t].pc \in {"intent", "rules"}
    /\ Routes(t)
    /\ UNCHANGED budget

\* execute_node.
Executes(t) ==
    /\ turn[t].pc = "execute"
    /\ ReadBegins(t, turn[t].at)
    /\ Goes(t, "read") /\ UNCHANGED budget

ToolSteps(t) ==
    /\ turn[t].pc = "read" /\ read[t].source # "none"
    /\ \/ ApiAnswers(t, turn[t].at) \/ ApiFails(t) \/ ApiRefuses(t) \/ ApiRefusesInDigits(t)
       \/ BreakerRefuses(t) \/ ReadSnapshot(t, turn[t].at)
    /\ UNCHANGED <<budget, turns>>

Executed(t) ==
    /\ turn[t].pc = "read" /\ read[t].source = "none"
    /\ Goes(t, "respond") /\ UNCHANGED <<budget, tool>>

\* Changed form of AsksForWording: the budget is not looked at.
AlwaysAsks(t) == read[t].answer \in {"live", "old"}

\* A report in hand, and budget left.
AsksForWording(t) == read[t].answer \in {"live", "old"} /\ ~OverBudget(turn[t].at)

\* respond_node: the model words a report; everything else is a template.
Responds(t) ==
    /\ turn[t].pc = "respond"
    /\ \/ TurnEnds(t)
       \/ AsksForWording(t) /\ Goes(t, "report")
    /\ Reads(turn[t].at) /\ UNCHANGED tool

ReportAnswered(t) ==
    /\ turn[t].pc = "report"
    /\ Adds(turn[t].at, ReportCost)
    /\ TurnEnds(t) /\ UNCHANGED tool

ReportFails(t) == turn[t].pc = "report" /\ TurnEnds(t) /\ UNCHANGED <<budget, tool>>

\* An instance restarts: its turns, its totals and its snapshots are gone.
Restarts(i) ==
    /\ Forgets(i)
    /\ turn' = [t \in Reader |-> IF turn[t].at = i THEN NoTurn ELSE turn[t]]
    /\ read' = [t \in Reader |-> IF turn[t].at = i THEN NoRead ELSE read[t]]
    /\ snapshot' = [snapshot EXCEPT ![i] = FALSE] /\ served' = [served EXCEPT ![i] = FALSE]
    /\ UNCHANGED <<cached, begun>>

TurnNext ==
    \/ \E t \in Reader :
         \/ IntentAnswered(t) \/ IntentByRule(t) \/ Executes(t) \/ ToolSteps(t) \/ Executed(t)
         \/ Responds(t) \/ ReportAnswered(t) \/ ReportFails(t)
         \/ \E i \in Instance : TurnBegins(t, i)
    \/ \E i \in Instance : Restarts(i)
    \/ (RedisGoes \/ RedisReturns) /\ UNCHANGED <<tool, turns>>
    \/ CacheExpires /\ UNCHANGED <<budget, turns>>

-----------------------------------------------------------------------------
\* As long as Redis answers, a session overspends by no more than what the turns
\* that run at once each asked for before they saw the others' cost.
SpendingIsBounded == faults = 0 =>
    shared < Budget + Cardinality(Reader) * (IF IntentCost > ReportCost THEN IntentCost ELSE ReportCost)

\* The service does not stop (retry_policy.py:9): an instance that gave an answer
\* since it started, from the order API or from the cache, never again answers
\* "unavailable" to a read that begins after it, whatever fails.
OnceServedAlwaysServed == \A t \in Reader : read[t].owed => read[t].answer # "unavailable"

\* A refusal of the order API is neither retried nor answered from elsewhere
\* (registry.py:215).  TLC refutes it: digits in the text of a refusal make it
\* a fault.
RefusalIsFinal == \A t \in Reader :
    read[t].refused /\ read[t].source = "none" => read[t].answer \in {"refused", "failed"}
=============================================================================
