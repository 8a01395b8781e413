----------------------------- MODULE MCPlatform -----------------------------
(***************************************************************************)
(* The parts share no variable and every property is of one of them, so no *)
(* state of a part is missed when it moves while the others are at rest.   *)
(***************************************************************************)
EXTENDS Platform, TLC

CONSTANTS g1, h1, h2, c1, c2, c3, a1, t1, t2, k1, k2, k3, d1, d2, n1, n2

\* The parts that are not at their initial states.
Moved ==
    (IF TurnInit THEN {} ELSE {"turn"}) \cup (IF BriefInit THEN {} ELSE {"brief"}) \cup
    (IF EvalInit THEN {} ELSE {"eval"}) \cup (IF IdemInit THEN {} ELSE {"idem"}) \cup
    (IF MigrationInit THEN {} ELSE {"migration"}) \cup (IF RetrievalInit THEN {} ELSE {"retrieval"}) \cup
    (IF FeedbackInit THEN {} ELSE {"feedback"}) \cup (IF TokensInit THEN {} ELSE {"tokens"}) \cup
    (IF KeysInit THEN {} ELSE {"keys"}) \cup (IF ReportsInit THEN {} ELSE {"reports"}) \cup
    (IF RoutingInit THEN {} ELSE {"routing"}) \cup (IF LinkingInit THEN {} ELSE {"linking"}) \cup
    (IF DataInit THEN {} ELSE {"data"})

\* Of the keys, the MCP server does not read the buckets nor the REST API the cache.
ToolsRest == \A k \in Key, c \in Call : keyCache[k] = Unknown /\ toolCall[c].key = "none"
ClientsRest == \A k \in Key, c \in Client : bucket[k] = Unset /\ client[c].pc = "rest"
\* Clients share a key: buckets do not affect one another.
ClientsShare == \A c \in Client : client[c].key \in {"none", g1}

\* A graph, once it runs, runs to its end: its nodes read and change nothing of
\* the conversation, so they commute with whatever happens to it.
GraphsFirst ==
    (\E q \in Query : query[q].pc = "graph") =>
    (\E q \in Query : query[q].pc = "graph" /\ query'[q] # query[q])

\* A read that has its answer goes on to the wording at once: that step reads
\* and changes nothing but the turn's own stage.
ExecutedFirst ==
    (\E t \in Reader : turn[t].pc = "read" /\ read[t].source = "none") =>
    (\E t \in Reader : turn[t].pc = "read" /\ turn'[t].pc = "respond")

\* One part moves while the others rest; a question is routed while the files
\* and servers rest, which have no part in where it goes.
MCNext == \E moved \in {Moved} :
    \/ moved \subseteq {"turn"} /\ TurnMoves /\ ExecutedFirst
    \/ moved \subseteq {"brief"} /\ BriefMoves
    \/ moved \subseteq {"eval"} /\ EvalMoves
    \/ moved \subseteq {"idem"} /\ IdemMoves
    \/ moved \subseteq {"migration"} /\ MigrationMoves
    \/ moved \subseteq {"retrieval"} /\ RetrievalMoves
    \/ moved \subseteq {"feedback"} /\ FeedbackMoves
    \/ moved \subseteq {"tokens"} /\ TokensMoves
    \/ moved \subseteq {"keys"} /\ KeysMoves /\ ((ToolsRest /\ ClientsShare)' \/ ClientsRest')
    \/ moved \subseteq {"reports"} /\ ReportsMoves
    \/ moved = {} /\ RoutingMoves
    \/ moved = {"routing"} /\ (ServersNext \/ QuestionEnds) /\ routed' = NotRouted /\ RoutingMoves
    \/ moved \subseteq {"linking"} /\ LinkingMoves
    \/ moved \subseteq {"data"} /\ DataMoves /\ GraphsFirst

MCSpec == Init /\ [][MCNext]_vars

\* Two calls of one process, one of them a read, and a read of another.
MCHostOf == (c1 :> h1) @@ (c2 :> h2) @@ (c3 :> h2)

\* Two lines of one event and time, with and without an actor, and a third.
MCAuditFile == <<[stamp |-> 1, actor |-> a1], [stamp |-> 1, actor |-> NoActor],
                 [stamp |-> 2, actor |-> NoActor]>>
\* One that was open and one that was decided.
MCStatusOf == [a \in {"a1", "a2"} |-> IF a = "a1" THEN "pending" ELSE "approved"]
MCBlobs == <<{"x"}, {"x", "y"}, {"y", "z"}>>
MCWritesOf == <<{}, {"w1"}, {"w1", "w2"}>>

\* Two tenants whose shard is the same, one with two chunks of a document.
MCDocOf == <<"A", "A", "B", "C">>
MCTenantOf == <<t1, t1, t2, Public>>
MCShardOf == (t1 :> 1) @@ (t2 :> 1)

\* A correction of a base question and two of one new question.
MCQuestionOf == (k1 :> "q1") @@ (k2 :> "q2") @@ (k3 :> "q2")
MCBaseSet == <<"q1", "q0">>

\* Labels whose samples mix, one with a higher threshold; tables of two
\* descriptions and of one.
MCLabelOf == <<"rag", "tool", "tool", "rag">>
MCThreshold == [l \in {"rag", "tool"} |-> IF l = "rag" THEN 2 ELSE 3]
MCTable == <<"orders", "products", "suppliers", "regions">>
MCEntryOf == <<"orders", "orders", "products", "products", "suppliers", "regions">>
MCCloseness == {-4, 0, 3, 4}

\* Each question has an instance of its own.
MCHome == (n1 :> d1) @@ (n2 :> d2)

=============================================================================
