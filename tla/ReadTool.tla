------------------------------ MODULE ReadTool ------------------------------
(***************************************************************************)
(* A read of the order API (query_order, generate_report): the cache, then *)
(* the degrade chain of shared/reliability/retry_policy.py, source by      *)
(* source and each with its retries: the API behind its breaker, the last  *)
(* answer this instance had, "unavailable".                                *)
(***************************************************************************)
EXTENDS Naturals

CONSTANTS
    Reader,     \* calls in progress
    Process,    \* the instances, each with its ReportTools
    MaxRetries  \* retries of BaseTool

ASSUME ReadAssumption == MaxRetries \in Nat

VARIABLES
    cached,     \* whether the query cache holds an answer
    snapshot,   \* of each instance: whether it holds a last answer
    read,       \* of each call: source, attempt, answer, whether the API refused,
                \* and whether its instance had had an answer before
    served      \* history: of each instance, whether it gave an answer since it started

tool == <<cached, snapshot, read, served>>

Source == {"none", "api", "snapshot"}
Answer == {"none", "live", "old", "refused", "failed", "unavailable"}
ReadState == [source : Source, attempt : 0 .. MaxRetries, answer : Answer,
              refused : BOOLEAN, owed : BOOLEAN]
NoRead == [source |-> "none", attempt |-> 0, answer |-> "none",
           refused |-> FALSE, owed |-> FALSE]

ToolTypeOK ==
    /\ cached \in BOOLEAN /\ snapshot \in [Process -> BOOLEAN] /\ served \in [Process -> BOOLEAN]
    /\ read \in [Reader -> ReadState]

ToolInit ==
    /\ cached = FALSE /\ snapshot = [i \in Process |-> FALSE] /\ served = [i \in Process |-> FALSE]
    /\ read = [r \in Reader |-> NoRead]

Ends(r, answer) == read' = [read EXCEPT ![r].source = "none", ![r].answer = answer]

\* An answer of the API, at first hand or from the cache, is kept as the copy.
Keeps(i) == snapshot' = [snapshot EXCEPT ![i] = TRUE] /\ served' = [served EXCEPT ![i] = TRUE]

FromCache(r, i) ==
    /\ cached
    /\ read' = [read EXCEPT ![r] = [NoRead EXCEPT !.answer = "live", !.owed = served[i]]]
    /\ Keeps(i) /\ UNCHANGED cached

\* An entry may be there and not be read: Redis errors count as a miss.
ReadBegins(r, i) ==
    \/ FromCache(r, i)
    \/ /\ read' = [read EXCEPT ![r] = [NoRead EXCEPT !.source = "api", !.owed = served[i]]]
       /\ UNCHANGED <<cached, snapshot, served>>

\* RetryPolicy.run after an error worth a retry: again, or the next source.
Again(r, next) ==
    IF read[r].attempt < MaxRetries
      THEN read' = [read EXCEPT ![r].attempt = @ + 1]
    ELSE IF next = "none" THEN Ends(r, "unavailable")
    ELSE read' = [read EXCEPT ![r].source = next, ![r].attempt = 0]

ApiAnswers(r, i) ==
    /\ read[r].source = "api"
    /\ Ends(r, "live") /\ Keeps(i) /\ cached' = TRUE

\* 5xx, 429, no connection.
ApiFails(r) ==
    read[r].source = "api" /\ Again(r, "snapshot") /\ UNCHANGED <<cached, snapshot, served>>

\* 400, 404, 409: passed on as it is, or, on the last attempt, wrapped in the
\* RuntimeError of the retries and reported as a failed call.
ApiRefuses(r) ==
    /\ read[r].source = "api"
    /\ read' = [read EXCEPT ![r].refused = TRUE, ![r].source = "none",
                            ![r].answer = IF read[r].attempt = MaxRetries THEN "failed" ELSE "refused"]
    /\ UNCHANGED <<cached, snapshot, served>>

\* A refusal whose text holds the digits of a fault, as of an order PO-0500 that
\* is not there: is_retryable_http takes it for one.
ApiRefusesInDigits(r) ==
    /\ read[r].source = "api"
    /\ \/ /\ read[r].attempt < MaxRetries
          /\ read' = [read EXCEPT ![r].refused = TRUE, ![r].attempt = @ + 1]
       \/ /\ read[r].attempt = MaxRetries
          /\ read' = [read EXCEPT ![r].refused = TRUE, ![r].source = "snapshot", ![r].attempt = 0]
    /\ UNCHANGED <<cached, snapshot, served>>

\* Changed form of BreakerRefuses: the open breaker ends the chain.
BreakerEndsChain(r) ==
    /\ read[r].source = "api" /\ Ends(r, "unavailable")
    /\ UNCHANGED <<cached, snapshot, served>>

\* The breaker is open: the next source at once.
BreakerRefuses(r) ==
    /\ read[r].source = "api"
    /\ read' = [read EXCEPT ![r].source = "snapshot", ![r].attempt = 0]
    /\ UNCHANGED <<cached, snapshot, served>>

\* A missing snapshot is retried like a fault, or fails the call when its key
\* holds the digits of a refusal.
ReadSnapshot(r, i) ==
    /\ read[r].source = "snapshot"
    /\ \/ snapshot[i] /\ Ends(r, "old")
       \/ ~snapshot[i] /\ (Again(r, "none") \/ Ends(r, "failed"))
    /\ UNCHANGED <<cached, snapshot, served>>

CacheExpires == cached /\ cached' = FALSE /\ UNCHANGED <<snapshot, read, served>>
=============================================================================
