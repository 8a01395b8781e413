----------------------------- MODULE DataQuery -----------------------------
(***************************************************************************)
(* run_nl2sql_query (domains/data/service.py), reached by POST             *)
(* /api/v1/data/query and by the chat: a question of a conversation is     *)
(* resolved against the last turn, goes through the graph, and becomes a   *)
(* turn itself when it returned a table.  Questions of one conversation    *)
(* overlap, on the instances the load balancer gives them.                 *)
(***************************************************************************)
EXTENDS SessionCtx, Nl2SqlGraph

CONSTANTS
    Query,    \* questions in progress at once
    Home      \* the instance each is sent to

ASSUME HomeAssumption == Home \in [Query -> Backend]

VARIABLE query    \* of each: stage; the last turn it found, or the turn it made; for how
                  \* long it has waited for Redis; graph state

data == <<session, query>>

Idle == [pc |-> "idle", prev |-> 0, call |-> 0, graph |-> Start]
Waiting == {"fetch", "append"}
QueryState == [pc : {"idle", "resolve", "graph", "record", "insight"} \cup Waiting,
               prev : 0 .. MaxTurn, call : 0 .. CallLife, graph : DataState]

\* Every variable holds a value of the program's own shape; the versions
\* bound the SQL texts of a question by one generated and MaxRepair repaired.
DataTypeOK == SessionTypeOK /\ query \in [Query -> QueryState]

DataInit == SessionInit /\ query = [q \in Query |-> Idle]

Goto(q, pc) == query' = [query EXCEPT ![q].pc = pc]
QueryEnds(q) == query' = [query EXCEPT ![q] = Idle]

\* Bound: every question in progress may still become a turn.
InProgress == {q \in Query : query[q].pc # "idle"}
Room == Cardinality(InProgress) + Len(age) < MaxTurn

Finds(q, pc, t) == query' = [query EXCEPT ![q] = [Idle EXCEPT !.pc = pc, !.prev = t]]

\* A question arrives and is resolved against the last turn: of the copy, or of
\* Redis, whose answer is awaited.
Resolve(q) ==
    /\ query[q].pc = "idle" /\ Room
    /\ \E t \in 0 .. MaxTurn :
         \/ RecentFromCopy(Home[q], t) /\ Finds(q, "resolve", t)
         \/ RecentReads(Home[q], t) /\ Finds(q, "fetch", t)
         \/ l1[Home[q]] = NoCopy /\ RecentLocal(Home[q], t) /\ Finds(q, "resolve", t)

Fetched(q) ==
    /\ query[q].pc = "fetch"
    /\ \/ RecentAnswered(Home[q], query[q].prev) /\ Finds(q, "resolve", query[q].prev)
       \/ \E t \in 0 .. MaxTurn : RecentLocal(Home[q], t) /\ Finds(q, "resolve", t)

\* The model completes the question; without a last turn it is taken as it is.
Resolved(q) ==
    /\ query[q].pc = "resolve"
    /\ query' = [query EXCEPT ![q].pc = "graph", ![q].prev = 0]
    /\ UNCHANGED session

\* The model that resolves, writes or repairs the SQL, or comments the table
\* raised: the request fails, a turn it recorded stays.
Raise(q) ==
    /\ \/ query[q].pc = "resolve" /\ query[q].prev # 0
       \/ query[q].pc = "graph" /\ query[q].graph.node = "raised"
       \/ query[q].pc = "insight"
    /\ QueryEnds(q)
    /\ UNCHANGED session

\* A node of the graph.
GraphStep(q) ==
    /\ query[q].pc = "graph"
    /\ \E s \in Graph(query[q].graph) : query' = [query EXCEPT ![q].graph = s]
    /\ UNCHANGED session

\* The graph is done: only a table is recorded and gets insights.
GraphEnds(q) ==
    /\ query[q].pc = "graph" /\ query[q].graph.node = "end"
    /\ IF query[q].graph.table # NoSql THEN Goto(q, "record") ELSE QueryEnds(q)
    /\ UNCHANGED session

RecordTurn(q) ==
    /\ query[q].pc = "record"
    /\ \E t \in Turn :
         \/ AppendRuns(t) /\ Finds(q, "append", t)
         \/ AppendFails(Home[q], t) /\ Finds(q, "insight", 0)

Appended(q) ==
    /\ query[q].pc = "append"
    /\ AppendAnswered(Home[q], query[q].prev) \/ AppendLost(Home[q], query[q].prev)
    /\ Finds(q, "insight", 0)

\* Lines with digits that are not in the table are dropped.
Insight(q) ==
    /\ query[q].pc = "insight"
    /\ QueryEnds(q)
    /\ UNCHANGED session

QueryWorks(q) ==
    \/ Fetched(q) \/ Resolved(q) \/ Raise(q) \/ GraphStep(q) \/ GraphEnds(q)
    \/ RecordTurn(q) \/ Appended(q) \/ Insight(q)

\* Time passes for those who wait as well, and none waits longer than CallLife.
DataTick ==
    /\ SessionTick
    /\ \A q \in Query : query[q].pc \in Waiting => query[q].call < CallLife
    /\ query' = [q \in Query |-> IF query[q].pc \in Waiting THEN [query[q] EXCEPT !.call = @ + 1]
                                ELSE query[q]]

DataNext ==
        \/ \E q \in Query : Resolve(q) \/ QueryWorks(q)
        \/ DataTick
        \/ Expire /\ UNCHANGED query

-----------------------------------------------------------------------------
\* No SQL runs in the sandbox, and no table is shown, unless this very text
\* passed the gates: repairs are not exempt ("安全不豁免", repair_node).
OnlyGatedSqlRuns == \A q \in Query : LET g == query[q].graph IN
    /\ g.node = "execute" => g.validated = g.version /\ g.kind = "passes"
    /\ query[q].pc = "record" => g.table = g.version /\ g.kind = "passes"

\* A question is resolved against a turn that was the last one Redis had of the
\* conversation no longer ago than L1_TTL_SECONDS and the time of one call of
\* Redis, unless Redis gave no answer: a copy may be stored late, of a list
\* another instance has appended to meanwhile.
ResolvedAgainstRecent == [][
    \A q \in Query : query[q].pc \in {"idle", "fetch"} /\ query'[q].pc = "resolve" =>
        \/ query'[q].prev = local[Home[q]] /\ (query[q].pc = "idle" => l1[Home[q]] = NoCopy)
        \/ \A t \in inRedis : t > query'[q].prev /\ t > expired => age[t] <= L1Life + CallLife]_data
=============================================================================
