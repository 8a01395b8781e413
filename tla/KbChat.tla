------------------------------- MODULE KbChat -------------------------------
(***************************************************************************)
(* POST /api/v1/kb/chat (domains/kb/router.py): a stream that screens the  *)
(* message, routes it, and answers a question about the rules from the     *)
(* semantic cache or by retrieval and validated generation; of its own     *)
(* answers a stream caches only one that passed.  Streams of several users *)
(* run on the instances the load balancer gives them and share the cache,  *)
(* which the warm-up job fills as well.                                    *)
(***************************************************************************)
EXTENDS SemanticCache, AnswerValidator

CONSTANTS
    Chat,   \* streams at once
    Home,   \* the instance of each
    Asks,   \* bound: the questions of each
    Warmed  \* bound: the questions the warm-up job answers

ASSUME ChatAssumption ==
    Home \in [Chat -> Instance] /\ Asks \in [Chat -> SUBSET Question] /\ Warmed \subseteq Question

VARIABLE chat

vars == <<cache, chat>>

Route == {"rag", "chat", "tool", "data"}
NoQuestion == "none"

Idle == [pc |-> "idle", asked |-> NoQuestion, context |-> NoContext, round |-> 0,
         answer |-> Miss]
ChatState == [pc : {"idle", "route", "lookup", "retrieve", "generate", "retry", "put", "stream"},
              asked : Question \cup {NoQuestion}, context : Context,
              round : 0 .. MaxRetries, answer : Found \cup {Miss}]

\* Every variable holds a value of the program's own shape.
TypeOK == CacheTypeOK /\ chat \in [Chat -> ChatState]

Init == CacheInit /\ chat = [c \in Chat |-> Idle]

Goto(c, pc) == chat' = [chat EXCEPT ![c].pc = pc]
Ends(c) == chat' = [chat EXCEPT ![c] = Idle]

\* A message is accepted (kb:chat, not empty, at most 2000 characters).
Ask(c, q) ==
    /\ chat[c].pc = "idle"
    /\ chat' = [chat EXCEPT ![c].pc = "route", ![c].asked = q]
    /\ UNCHANGED cache

\* What the router goes by: a rule, else the best label if it is near enough.
Routed(rule, best, above) ==
    IF rule # "none" THEN rule ELSE IF above THEN best ELSE "rag"

\* A flagged message is refused; chat and tool get a fixed reply; data needs
\* data:nl2sql, and is answered by run_nl2sql_query (DataQuery); rag goes on.
RouteMessage(c) ==
    /\ chat[c].pc = "route"
    /\ \E route \in {Routed(rule, best, above) : rule \in Route \cup {"none"},
                                                best \in Route, above \in BOOLEAN} :
         IF route = "rag" THEN Goto(c, "lookup") \/ Ends(c) ELSE Ends(c)
    /\ UNCHANGED cache

\* A hit is streamed as an answer that passed.
LookUp(c) ==
    /\ chat[c].pc = "lookup"
    /\ \E due, reached \in BOOLEAN, found \in Found \cup {Miss} :
         /\ chat' = [chat EXCEPT ![c].pc = IF found = Miss THEN "retrieve" ELSE "stream",
                                 ![c].answer = found]
         /\ Lookup(Home[c], chat[c].asked, due, reached, found)

\* The embedder failed: a miss (the sweep has happened).
LookUpFails(c) ==
    /\ chat[c].pc = "lookup"
    /\ Goto(c, "retrieve")
    /\ \E due \in BOOLEAN : Sweep(Home[c], due)
    /\ UNCHANGED <<remote, idle>>

Retrieve(c) ==
    /\ chat[c].pc = "retrieve"
    /\ \E hits \in Retrieved : chat' = [chat EXCEPT ![c].pc = "generate", ![c].context = hits]
    /\ UNCHANGED cache

\* The work is done: what goes on with the answer, and which it is.
Result(c, pc, answer) ==
    chat' = [chat EXCEPT ![c] = [Idle EXCEPT !.pc = pc, !.asked = chat[c].asked,
                                             !.answer = answer]]

\* A round: an answer is written and judged; it is accepted, or written again
\* in the next round, or given up: streamed with a warning, not as passed.
Generate(c) ==
    /\ chat[c].pc = "generate"
    /\ \E j \in {k \in Judgement : k.from = chat[c].context} :
         IF j.passed
           THEN Result(c, IF j.empty THEN "stream" ELSE "put",
                       [of |-> chat[c].asked, at |-> "writer", basis |-> j.basis])
         ELSE IF LastRound(chat[c].round) THEN Result(c, "stream", Miss)
         ELSE chat' = [chat EXCEPT ![c].pc = "retry", ![c].context = j.to]
    /\ UNCHANGED cache

RetryAnswer(c) ==
    /\ chat[c].pc = "retry"
    /\ chat' = [chat EXCEPT ![c].pc = "generate", ![c].round = NextRound(@)]
    /\ UNCHANGED cache

KeepAnswer(c) ==
    /\ chat[c].pc = "put"
    /\ Goto(c, "stream")
    /\ \E embedded, reached \in BOOLEAN :
         Put(Home[c], chat[c].asked, chat[c].answer.basis, embedded, reached)

\* Deltas, citations, done.
Stream(c) ==
    /\ chat[c].pc = "stream" /\ Ends(c)
    /\ UNCHANGED cache

\* A model call, the embedder of the router or NL2SQL raised: error, done; or
\* the client has gone.
Breaks(c) ==
    /\ chat[c].pc \notin {"idle", "put"} /\ Ends(c)
    /\ UNCHANGED cache

\* The process of instance i ends and starts again.
Restart(i) ==
    /\ CacheRestart(i)
    /\ chat' = [c \in Chat |-> IF Home[c] = i THEN Idle ELSE chat[c]]

Works(c) == \/ RouteMessage(c) \/ LookUpFails(c) \/ LookUp(c) \/ Retrieve(c)
            \/ Generate(c) \/ RetryAnswer(c) \/ KeepAnswer(c) \/ Stream(c)

Next == \/ \E c \in Chat : Works(c) \/ Breaks(c) \/ \E q \in Asks[c] : Ask(c, q)
        \/ \E i \in Instance : Restart(i)
        \/ Tick /\ UNCHANGED chat
        \/ \E q \in Warmed : WarmUp(q) /\ UNCHANGED chat

\* A stream goes on: model calls and the retrieval have timeouts.
Spec == Init /\ [][Next]_vars /\ \A c \in Chat : WF_vars(Works(c))

-----------------------------------------------------------------------------
\* What is streamed as validated, be it new or from the cache, was written for
\* a question near enough, and cites only documents retrieved for the question
\* it was written for (or refuses without citing any); unless it is from the
\* warm-up, which validates nothing.  That its writer read them is more than the
\* rules ask for: see WriterSawIt.
PassedIsSupported == \A c \in Chat : LET answer == chat[c].answer IN
    answer # Miss => answer.basis # "none" /\ answer.of \in Near[chat[c].asked]

\* The validator's rules: "citations 全部在检索返回的 doc_id 集合内（防"引了不在
\* 上下文的文档"= 乱引用）" (answer_validator.py:6), where the prompt's context is
\* meant.  Not so: the rules go by all that was retrieved (README).
WriterSawIt == \A c \in Chat : chat[c].pc = "generate" =>
    \A j \in Judgement : j.passed /\ j.from = chat[c].context => j.read

\* The memory of an instance forgets: it answers with an entry only while some
\* answer to that entry's question was put into it, taken over from Redis or
\* served from it within _MEM_TTL_SECONDS.
CacheForgets == [][\A c \in Chat :
    (chat[c].pc = "lookup" /\ chat'[c].pc = "stream" /\ chat'[c].answer.at = "memory")
        => idle[Home[c]][chat'[c].answer.of] <= MemLife]_vars

\* Redis remembers: "Redis 条目无 stored_at 字段 → ... 永不过期" (semantic_cache.py:162),
\* for the week of _REDIS_TTL.  Not so: put writes stored_at into it (README).
RedisRemembers == \A q \in Question : remote[q] # NoEntry => Hits(Fetched, q) # {}

\* Every stream ends: generation is retried a bounded number of times.
EveryChatEnds == \A c \in Chat : chat[c].pc # "idle" ~> chat[c].pc = "idle"
=============================================================================
