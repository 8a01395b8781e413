------------------------------- MODULE LlmCall -------------------------------
(***************************************************************************)
(* The real model provider (shared/llm/real): concurrent requests over one *)
(* pool of models whose position, the pool pointer, every provider of the  *)
(* process shares.  A request takes the order of the pool from the pointer *)
(* when it is posted; a model whose quota is out moves the pointer for     *)
(* everybody.  The kb domain keeps one provider; the other domains build   *)
(* one per call, which sets the pointer back to the model in the state     *)
(* file.                                                                   *)
(*                                                                         *)
(* An HTTP call is one action, its answer: between two answers a request   *)
(* only sleeps and sends.  Streaming has no caller in the application.     *)
(***************************************************************************)
EXTENDS Naturals, FiniteSets

CONSTANTS
    Request,         \* concurrent requests of one process
    N,               \* models in the pool
    MaxRetries,      \* MAX_RETRIES: retries of a transient error on one model
    DegradeToMock,   \* LLM_DEGRADE_TO_MOCK
    None             \* no model saved yet

ASSUME PoolAssumption == N \in Nat \ {0} /\ MaxRetries \in Nat /\ DegradeToMock \in BOOLEAN
ASSUME NoneAssumption == None \notin Nat

VARIABLES
    idx,       \* _model_pool_state["idx"]
    active,    \* llm_model_state.json: the model of the last success
    req,       \* the requests
    gaveUp     \* tried, without the model being called: those that failed the post

vars == <<idx, active, req, gaveUp>>

Model == 0 .. N - 1
ReqState == [pc : {"idle", "ask", "done"}, json : BOOLEAN, start : Model,
             k : Model, attempt : 0 .. MaxRetries, again : BOOLEAN,
             result : {"none", "answer", "mock", "raised"}]

\* Every variable holds a value of the program's own shape.
TypeOK ==
    /\ idx \in Model /\ active \in Model \cup {None}
    /\ req \in [Request -> ReqState]
    /\ gaveUp \in [Request -> SUBSET Model]

Idle == [pc |-> "idle", json |-> FALSE, start |-> 0, k |-> 0, attempt |-> 0,
         again |-> FALSE, result |-> "none"]

Init ==
    /\ idx = 0 /\ active \in Model \cup {None}
    /\ req = [r \in Request |-> Idle]
    /\ gaveUp = [r \in Request |-> {}]

\* order = pool[start:] + pool[:start], and the model the request is at.
Order(start, k) == IF start + k < N THEN start + k ELSE start + k - N
CurrentModel(r) == Order(req[r].start, req[r].k)

\* reorder_pool_by_active: where a new provider puts the pointer.
ActiveIndex == IF active = None THEN 0 ELSE active

\* A new provider moves the pointer everybody shares.
StartIndex(fresh) == IF fresh THEN ActiveIndex ELSE idx

\* Of an error: its quota is out and named in the text ("quota"; any text
\* with "403"), a bare 429 ("busy"), a timeout or 5xx ("transient"), another
\* refusal ("refused").
IsQuotaError(e) == e \in {"quota", "busy"}

\* _degrade_or_raise: a named quota error is raised, others become the mock.
DegradeOrRaise(e) == IF e # "quota" /\ DegradeToMock THEN "mock" ELSE "raised"

Settled(r, result) == [req[r] EXCEPT !.pc = "done", !.result = result]

\* The next model of the order, or the end of the order.
NextModel(r, e) ==
    IF req[r].k + 1 < N
      THEN [req[r] EXCEPT !.k = @ + 1, !.attempt = 0]
      ELSE Settled(r, DegradeOrRaise(e))

-----------------------------------------------------------------------------
\* generate and generate_json enter _post_chat; fresh: on a new provider.
Post(r, json, fresh) ==
    LET i == StartIndex(fresh)
    IN  /\ req[r].pc = "idle"
        /\ idx' = i
        /\ req' = [req EXCEPT ![r] = [Idle EXCEPT !.pc = "ask", !.json = json, !.start = i]]
        /\ UNCHANGED <<active, gaveUp>>

\* The model answers: it is saved for the next process.
Answer(r) ==
    /\ req[r].pc = "ask"
    /\ active' = CurrentModel(r)
    /\ req' = [req EXCEPT ![r] = Settled(r, "answer")]
    /\ UNCHANGED <<idx, gaveUp>>

\* An answer that is no JSON object: generate_json posts once more.
Unparsable(r) ==
    /\ req[r].pc = "ask" /\ req[r].json
    /\ active' = CurrentModel(r)
    /\ IF req[r].again
         THEN /\ req' = [req EXCEPT ![r] = Settled(r, "raised")]
              /\ UNCHANGED gaveUp
         ELSE /\ req' = [req EXCEPT ![r] = [Idle EXCEPT !.pc = "ask", !.json = TRUE,
                                                        !.start = idx, !.again = TRUE]]
              /\ gaveUp' = [gaveUp EXCEPT ![r] = {}]
    /\ UNCHANGED idx

Leaves(r, e) ==
    /\ req' = [req EXCEPT ![r] = NextModel(r, e)]
    /\ gaveUp' = [gaveUp EXCEPT ![r] = @ \cup {CurrentModel(r)}]

\* Changed form of QuotaOut: the first quota error fails the request.
QuotaOutEndsRequest(r, e) ==
    /\ req[r].pc = "ask" /\ IsQuotaError(e)
    /\ req' = [req EXCEPT ![r] = Settled(r, DegradeOrRaise(e))]
    /\ gaveUp' = [gaveUp EXCEPT ![r] = @ \cup {CurrentModel(r)}]
    /\ UNCHANGED <<idx, active>>

\* Quota out: the pointer moves for everybody, unless no model is left here.
QuotaOut(r, e) ==
    /\ req[r].pc = "ask" /\ IsQuotaError(e)
    /\ Leaves(r, e)
    /\ idx' = IF req[r].k + 1 < N THEN Order(idx, 1) ELSE idx
    /\ UNCHANGED active

\* Changed form of Transient: the post does not count its attempts.
TransientUncounted(r) ==
    /\ req[r].pc = "ask"
    /\ req' = [req EXCEPT ![r].attempt = (@ + 1) % (MaxRetries + 1)]
    /\ UNCHANGED <<idx, active, gaveUp>>

\* A timeout or a 5xx: again on this model, then the next one.
Transient(r) ==
    /\ req[r].pc = "ask"
    /\ IF req[r].attempt < MaxRetries
         THEN req' = [req EXCEPT ![r].attempt = @ + 1] /\ UNCHANGED gaveUp
         ELSE Leaves(r, "transient")
    /\ UNCHANGED <<idx, active>>

\* A refusal ends the request, except at the last attempt on a model.
Refused(r) ==
    /\ req[r].pc = "ask"
    /\ IF req[r].attempt < MaxRetries
         THEN /\ req' = [req EXCEPT ![r] = Settled(r, DegradeOrRaise("refused"))]
              /\ UNCHANGED gaveUp
         ELSE Leaves(r, "refused")
    /\ UNCHANGED <<idx, active>>

\* The caller has its result.
Take(r) ==
    /\ req[r].pc = "done"
    /\ req' = [req EXCEPT ![r] = Idle]
    /\ gaveUp' = [gaveUp EXCEPT ![r] = {}]
    /\ UNCHANGED <<idx, active>>

Responds(r) == \/ Answer(r) \/ Unparsable(r) \/ Transient(r) \/ Refused(r)
               \/ \E e \in {"quota", "busy"} : QuotaOut(r, e)

Next == \E r \in Request :
    \/ \E json, fresh \in BOOLEAN : Post(r, json, fresh)
    \/ Responds(r)
    \/ Take(r)

\* The client's timeouts (30 s, 60 s to read) end every HTTP call.
Spec == Init /\ [][Next]_vars /\ \A r \in Request : WF_vars(Responds(r))

-----------------------------------------------------------------------------
\* A request never comes back to a model that failed it, however the other
\* requests move the pointer (_post_chat: the order is a snapshot).
NeverAskedAgain == \A r \in Request : req[r].pc = "ask" => CurrentModel(r) \notin gaveUp[r]

\* Every request ends, answered, degraded or raised: the retries, the second
\* post and the models of the pool are all counted.
EveryRequestEnds == \A r \in Request : (req[r].pc = "ask") ~> (req[r].pc # "ask")

\* "每个请求都会真正尝试到池内每个模型": each request behaves as PoolPromise
\* says, whatever the pointer does.
Pool == INSTANCE PoolPromise WITH
            left <- [r \in Request |-> Model \ gaveUp[r]],
            outcome <- [r \in Request |->
                          CASE req[r].pc = "idle" -> "none"
                            [] req[r].pc = "ask" -> "waiting"
                            [] OTHER -> req[r].result]
KeepsThePromise == Pool!Spec

=============================================================================
