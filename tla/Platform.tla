------------------------------ MODULE Platform ------------------------------
(***************************************************************************)
(* The parts of the platform that keep a state of their own: chat turns    *)
(* that read, the daily brief, the nightly evaluation, idempotency keys,   *)
(* the move of old data, retrieval, feedback, tokens, API keys, reports in *)
(* the background, routing, schema linking and questions about data.  They *)
(* share Redis, the database and the scheduler, whose failures each of     *)
(* them has by itself, and no data.                                        *)
(***************************************************************************)
EXTENDS OpsTurn, DailyBrief, EvalReports, Idempotency, Migration, Retrieval, Feedback,
        Tokens, ApiKeys, ReportQueue, Routing, Linking, DataQuery

vars == <<budget, tool, turns, briefs, evals, idem, migration, retrieval, feedback, tokens,
          keys, reports, routing, linked, data>>

Init ==
    /\ TurnInit /\ BriefInit /\ EvalInit /\ IdemInit /\ MigrationInit /\ RetrievalInit
    /\ FeedbackInit /\ TokensInit /\ KeysInit /\ ReportsInit /\ RoutingInit /\ LinkingInit /\ DataInit

\* Every part but one keeps its state.
TurnMoves ==
    TurnNext /\ UNCHANGED
        <<briefs, evals, idem, migration, retrieval, feedback, tokens, keys, reports, routing, linked, data>>
BriefMoves ==
    BriefNext /\ UNCHANGED
        <<budget, tool, turns, evals, idem, migration, retrieval, feedback, tokens, keys, reports, routing, linked, data>>
EvalMoves ==
    EvalNext /\ UNCHANGED
        <<budget, tool, turns, briefs, idem, migration, retrieval, feedback, tokens, keys, reports, routing, linked, data>>
IdemMoves ==
    IdemNext /\ UNCHANGED
        <<budget, tool, turns, briefs, evals, migration, retrieval, feedback, tokens, keys, reports, routing, linked, data>>
MigrationMoves ==
    MigrationNext /\ UNCHANGED
        <<budget, tool, turns, briefs, evals, idem, retrieval, feedback, tokens, keys, reports, routing, linked, data>>
RetrievalMoves ==
    RetrievalNext /\ UNCHANGED
        <<budget, tool, turns, briefs, evals, idem, migration, feedback, tokens, keys, reports, routing, linked, data>>
FeedbackMoves ==
    FeedbackNext /\ UNCHANGED
        <<budget, tool, turns, briefs, evals, idem, migration, retrieval, tokens, keys, reports, routing, linked, data>>
TokensMoves ==
    TokensNext /\ UNCHANGED
        <<budget, tool, turns, briefs, evals, idem, migration, retrieval, feedback, keys, reports, routing, linked, data>>
KeysMoves ==
    KeysNext /\ UNCHANGED
        <<budget, tool, turns, briefs, evals, idem, migration, retrieval, feedback, tokens, reports, routing, linked, data>>
ReportsMoves ==
    ReportsNext /\ UNCHANGED
        <<budget, tool, turns, briefs, evals, idem, migration, retrieval, feedback, tokens, keys, routing, linked, data>>
RoutingMoves ==
    RoutingNext /\ UNCHANGED
        <<budget, tool, turns, briefs, evals, idem, migration, retrieval, feedback, tokens, keys, reports, linked, data>>
LinkingMoves ==
    LinkingNext /\ UNCHANGED
        <<budget, tool, turns, briefs, evals, idem, migration, retrieval, feedback, tokens, keys, reports, routing, data>>
DataMoves ==
    DataNext /\ UNCHANGED
        <<budget, tool, turns, briefs, evals, idem, migration, retrieval, feedback, tokens, keys, reports, routing, linked>>

Next ==
    \/ TurnMoves \/ BriefMoves \/ EvalMoves \/ IdemMoves
    \/ MigrationMoves \/ RetrievalMoves \/ FeedbackMoves \/ TokensMoves
    \/ KeysMoves \/ ReportsMoves \/ RoutingMoves \/ LinkingMoves \/ DataMoves

Spec == Init /\ [][Next]_vars

TypeOK ==
    /\ TurnTypeOK /\ BriefTypeOK /\ EvalTypeOK /\ IdemTypeOK
    /\ MigrationTypeOK /\ RetrievalTypeOK /\ FeedbackTypeOK /\ TokensTypeOK
    /\ KeysTypeOK /\ ReportsTypeOK /\ RoutingTypeOK /\ LinkingTypeOK /\ DataTypeOK
=============================================================================
