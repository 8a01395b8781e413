# SCM Copilot: a TLA+ verification project

SCM Copilot (`src/backend/app`) is a FastAPI application that lets the staff of a
supply-chain company ask a knowledge base, query a data warehouse in words, and read
and change purchase orders through an agent. It runs as two stateless API instances and
an MCP server over MySQL, Redis, Qdrant and the business system's order API (in the
repository: `src/deploy/mock_biz_server`). This directory models the parts of it that
keep state across concurrent requests, instances and failures.

Paths below are relative to `src/backend/app` unless they start with `src/`.

* [How to run it](#how-to-run-it)
* [Inventory](#inventory): the components, their state, how they meet
* [The modules](#the-modules): what each models, its runs, its bounds, its fairness
* [Proofs](#proofs)
* [Where code and documentation disagree](#where-code-and-documentation-disagree)
* [What is not modelled](#what-is-not-modelled)
* [Plan](#plan)

## How to run it

    tlc -workers 2 -config OpsFlow.cfg MCOpsFlow     # any run of PROJECT.json
    tlapm OpsFlowProofs.tla                          # the proofs

A specification `X.tla` that is run has one or more `.cfg` files and, where these cannot
give the constants their values, an `MCX.tla` that does and names the bounds. `X.cfg` passes; `X_Property.cfg` checks a
sentence of the repository that the code does not keep, and ends with TLC's counterexample.
A definition whose comment begins with "Changed form of" is not part of a
specification: it is the named definition with a plausible bug, and `PROJECT.json`
("mutants") says which property notices when it is put in its place.

## Inventory

| Component (code) | State | Operations | What is hard | What makes it correct | Module |
|---|---|---|---|---|---|
| **Ops write path** (`domains/ops/agent/graph.py`, `domains/ops/router.py`, `domains/ops/security/approval.py`) | approvals table, LangGraph checkpoint per session, idempotency store of the order API | chat, approve/reject, resume | concurrent requests of one session, crash between decision, write and checkpoint, reused rows and keys | no gated write without its approval, retries do not repeat a write, a reported success happened, decisions are final | OpsFlow |
| Ops read path (`shared/reliability/retry_policy.py`, `cost_budget.py`, `domains/ops/agent/graph.py`) | totals per session, last answers | run, degrade, add usage | classification of errors, concurrent additions, Redis outage | who had an answer keeps having one, bounded overspending | ReadTool, CostBudget, OpsTurn |
| **Circuit breaker** (`shared/reliability/circuit_breaker.py`) | CLOSED/OPEN/HALF_OPEN, failure count, timestamp per process; `cb:{name}` in Redis | call, transitions, exchange | threads share the object without a lock; cached and lost remote state | never stuck open, half-open or unstamped | CircuitBreaker |
| **Scheduler** (`platform/scheduler/__init__.py`, `leader.py`) | `lock:job:{name}`, process locks, `scheduler_job_runs` | cron and manual firing, records, stop | TTL overrun, Redis faults, restart | mutual exclusion up to overrun, no lock stolen, the job runs again | JobRuns |
| **KB increment sync, vector cleanup** (`platform/scheduler/jobs/kb_increment_sync.py`, `vector_cleanup.py`) | files, docs table, Qdrant points, watermark | scan, index, delete, clean | four stores without a transaction, edits during a run, failure at any call, overlapping runs, a lost collection | the watermark skips only what is indexed; convergence | KbSync |
| **Audit archive** (`platform/scheduler/jobs/audit_archive.py`) | audit_logs, archive tables, batch lock | copy, compare, delete | DDL commits, late commits, overlap without lock | no audit row is lost, no partial archive | AuditArchive |
| Daily brief, nightly evaluation (`daily_brief.py`, `eval_nightly.py`) | brief row and notifications; reports by date and domain | run, repeat | overlap, failure half way, repetition by hand | everybody reached, nobody twice; a success stored its report | DailyBrief, EvalReports |
| **Query cache** (`shared/reliability/cache.py`, `domains/ops/agent/tools/order_tools.py`, `platform/hooks.py`) | Redis and memory level, snapshot | get, set, invalidate | refill races invalidation; levels age apart | bounded staleness | OrderCache |
| Idempotency store (`shared/reliability/idempotency.py`) | RUNNING/SUCCESS/FAILED per key | claim, complete, fail | claim expiry, racing retries, two backends | one execution per key | Idempotency |
| Session context, NL2SQL (`domains/data/session_ctx.py`, `graph.py`, `repair.py`, `service.py`, `schema_linker.py`) | L1 copy (30 s), Redis list, state of the graph | record, recent, generate, validate, execute, repair | instances, Redis outage, repair loop | the last turns in order; only gated SQL runs | SessionCtx, Nl2SqlGraph, DataQuery, Linking |
| KB chat, validator (`domains/kb/router.py`, `agent/answer_validator.py`), warm-up (`cache_warmup.py`) | context and round of a stream | chat, validate, regenerate | rounds with a changing context | a validated answer is supported, streams end | KbChat, AnswerValidator |
| Semantic cache (`shared/rag/semantic_cache.py`) | entries in memory and Redis | lookup, put, sweep, touch | ages that travel between stores | it forgets | SemanticCache |
| Retrieval, shards, router (`shared/rag/hybrid_retriever.py`, `sharding.py`, `semantic_router.py`) | base and shard collections; vectors of samples | retrieve, copy; start, edit | tenants that share a shard, fusion of rankings, two files | own chunks only; vectors of the own samples | Retrieval, Routing |
| Feedback (`domains/kb/feedback/feedback_store.py`) | feedback file, evaluation set | submit, review, flow back | rewrite races append | the evaluation asks each question once | Feedback |
| LLM provider, model pool (`shared/llm/real`) | pointer, saved model | post, switch, degrade | all requests share the pointer | each request tries each model once | LlmCall, PoolPromise |
| API keys, quota, tokens (`platform/apikeys.py`, `platform/auth.py`, `mcp_server/apikey_db.py`) | token buckets, blacklist, key cache | take, refresh, revoke | refused calls, concurrent refresh, stale keys | quota, one live refresh token, a revoked key dies | ApiKeys, Tokens |
| Report queue (`domains/ops/tasks/queue.py`, `report_job.py`) | queue and results | enqueue, poll, make | Redis comes and goes | a report is generated once | ReportQueue |
| Data migration (`src/scripts/migrate_sqlite_to_mysql.py`) | source files, target tables | move, verify | dies anywhere, run again over live tables | arrives once, newest stays | Migration |
| Audit middleware (`platform/audit.py`) | audit_logs | insert | late commits | see audit archive | AuditArchive |
| Distributed lock, Redis client, tool loop, checkpointer | lock keys; steps | SET NX EX, compare-and-delete; run | lost answers | owner check | JobRuns, OpsFlow, Nl2SqlGraph |
| Conversations, MCP tools, admin API, start, observability, schema, front end | – | – | – | thin layers over the above | – |

How they meet: the agent of the ops domain calls the order tools; each tool call passes
the circuit breaker, writes then run the invalidation hook of the query cache and the
audit middleware; `approval_gate` reads through the same query path. The scheduler runs
its jobs under the leader lock, and the archive takes a lock of its own besides. The chat
of the knowledge base goes through the router to retrieval, to NL2SQL or to a fixed reply,
and the warm-up job puts answers into the cache the chat reads.
The components share Redis, which fails open everywhere: every use of it in the models
may find it down, and a command may be carried out although its answer is lost.

`PROJECT.json` lists the components with their status and every hazard with its line and
the properties aimed at it.

## The modules

### OpsFlow: an order is changed with a human's approval

`OpsFlow.tla`, `MCOpsFlow.tla`, proofs in `OpsFlowProofs.tla`. The central module.

A user's message starts the graph `intent -> approval_gate -> execute -> respond`. For a
write the gate reads the order, finds or creates a row of the approvals table and
suspends with the form in the checkpoint; a posted decision resumes the *session*, runs
the gate again from its start, decides the row and executes. A row, a checkpoint and the
order API's idempotency store survive a crash, the worker's own state does not.

| TLA+ | code |
|---|---|
| `approval` | table `approvals` (`approval.py`) |
| `thread` | LangGraph checkpoint, written when a run exits or suspends |
| `idem`, `effects` | idempotency store of the order API, and the writes it applied |
| `req` | a request in a worker: position in the graph and its locals |
| `turns`, `reply`, `posts` | what was asked, what was answered; bounds |
| `Chat`, `Post` | `POST /chat` and `intent_node`; `POST /approval` |
| `GateQuery*`, `GateReuse`, `GateFindNone`, `GateInsert`, `Suspend`, `Decide*` | `approval_gate` with `ApprovalService.create/approve/reject`, one action per database statement |
| `Execute*`, `Apply*` | `execute_node`, the order tools and the order API; the lookup of the key and the application are two steps, since the body is awaited in between |
| `Respond`, `ReadReply`, `Crash` | `respond_node` and the exit checkpoint; the chat's separate read of its answer from the thread (`router.py:166`), which another request of the session may have overwritten; loss of the worker |

The run **ops_flow** lets two sessions of two workers make two chats and two posts about
two orders (1.5 million states up to symmetry), with a crash possible at every step.
Two turns and two posts are what is needed for each race: two forms of one key, two
decisions of one form, a resume after a crashed resume, a message in place of a decision.
Three approval numbers suffice for every row these requests can create in sequence; where
they run out the insertion waits, which only prunes behaviours. The contents of a
change play no part in the checked properties, so one value is enough here. (`ExecutedAsShown` and
`ReportedSuccessIsApplied`, which the code does not keep, need two: see the disagreements.)

It shows:
* `GatedWriteIsAuthorised`: a write that carries an approval row was decided "approve" by
  the request that made it, and the row is a decided one of that session, tool and order;
* `RetryDoesNotRepeatWrite`: a write whose key was already applied when its request
  reached the API is not applied again, so that recovering from a crash repeats the
  answer and not the write; two writes of one key come only from requests that
  overlap inside the API;
* `SuccessMeansTargetWritten`: whoever is told of a success is told of a turn of that
  session whose operation was applied to its order. The turn need not be the one that
  was asked, since the answer of a chat is read from the thread after the run
  (`AnsweredForItsTurn`, refuted, below);
* `FormNamesTheCall`: a waiting thread shows a row of the call that resuming runs;
* `DecisionIsFinal`: no step changes a decided row or the contents of any row.

There is no liveness property: nobody has to decide, and a request that crashes is not
taken up by anyone.

### CircuitBreaker: a breaker shared by threads and processes

`st`, `fails`, `openedAt`, `cache` are the attributes `_state`, `_consecutive_failures`,
`_opened_at`, `_remote_cache` of each process's object, `key` is `cb:{name}` in Redis. An
action is what a thread of `call()`, `_on_success` or `_on_failure` does between two calls
it makes (log, Redis), since the graph's synchronous nodes run in executor threads
and the object has no lock. Durations are abstract: cooldown, TTL and the age of
the cache end in steps of their own, at any moment.

The run **circuit_breaker** has two threads and a threshold of two (the smallest at which
counting and reaching differ), either in one process (the races on the object) or in
two (the exchange through Redis). `Deployment` holds both, and `home` is chosen at the start.

Fairness: a call that has begun proceeds (the HTTP client has a timeout of 10 s, the Redis
client one too), and clocks advance. Nobody has to call, and the order API has to do
nothing.
* `OpenIsStamped`: OPEN without a timestamp, on which every call raises `TypeError`,
  lasts only while the opening thread is on its way to the assignment;
* `ProbeSettles`: HALF_OPEN is always left;
* `RefusalsStop`: when the order API stays healthy, refusals end on every instance.

`reset()` is not modelled.

### JobRuns: one job on every instance

`_run_job`, `leader_lock`, `_record` and shutdown for one job name. `lock` is the Redis
key, `local` the `asyncio.Lock` of the fallback, `row` the table `scheduler_job_runs` by run
id (job, instance, second). `expired` and `stuck` are history.

The run **job_runs** has a cron and a manual firing on one instance and a cron
firing on another, which is every pair that can meet: same instance or not, same lock or not.
A run id contains a second. With the single element of `Second` all firings of an
instance collide in it, the worst case for the rows; the lock does not depend on it. Every
Redis command may raise with or without effect, the lock may expire at any moment,
an instance may stop anywhere.

Fairness: a job ends (weak fairness of each firing's steps), `asyncio.Lock` serves its
waiters in order (strong fairness of `AcquireLocal`), a TTL runs out.
* `ExclusiveUnlessOverrun`: two firings execute together only if one outlived its lock, or
  they hold different kinds of lock, or process locks of different processes;
* `LockIsNotStolen`: until it expires under it, a firing owns its lock, whatever
  releases late;
* `RunningMeansRunning`: a row "running" has a firing at work or an end that was not
  recorded;
* `JobRunsAgain`: after the last crash and lost command, a job that keeps being fired is
  executed again and again.

### KbSync: files, rows, vectors and a watermark

One action per file, database, Qdrant or Redis access of `kb_increment_sync` and of the
orphan part of `vector_cleanup`. A text is its set of chunks and its own hash. `Edit` is
anyone who changes the directory; `FailSync` and `FailClean` end a run at any point.

Nothing keeps two runs apart: each job has a lock of its own, both fire at 03:00, and a lock does
not always exclude a second run (JobRuns). Points are lost in four ways that no run notices, because
rows and watermark stay as they are: a cleanup deletes those of a document whose row was committed after
it read the table (`CleanupSparesActive`, refuted), a document with an equal chunk takes the point
over, two runs of the sync undo each other, and `EnsureCollection` makes a lost collection anew
and empty. The history variable `damaged` holds the documents this may have happened to, until a run
that is alone indexes them again with nothing in between (`disturbed`); only an edit brings that about.
It is in no guard. Both properties say what holds of every other document, and so that these four
are all.

The run **kb_sync** has two documents, one with two versions that share a chunk (an update
that keeps, adds and removes points), the other with that chunk only, two edits, one sync and one
cleanup that overlap, and Redis and Qdrant losing their data. Two edits are enough for an edit
during a run and one after it; equal mtimes do not occur. The inductive invariant and both properties were
checked by hand with two syncs as well (one document and two edits; for the invariant also two documents
and one edit, 12 million states); the proof is for any number.

Fairness: cron starts both jobs for ever and runs end (weak fairness: no run waits for another).
* `WatermarkIsSafe`: a file whose last edit is not after the watermark is registered,
  active, and indexed as it stands;
* `Converges`: when edits, failures and losses of the collection stop, the collection becomes and stays
  what the directory says.

Left out: rebuilding a collection of the old format, the semantic-cache part of the cleanup,
batches of 100 points (a batch of one has every interleaving of larger ones and more),
file systems whose mtime is coarse.

### AuditArchive: a month of audit rows moves to its own table

One action per statement of `_archive_batch`, in which the CREATE TABLE commits and the
deletion is a second transaction. `late` (history) are rows whose transaction began in
their month and committed after it.

The run **audit_archive** has two runs of the job, which may overlap with or without the
lock, raise at every statement and crash, over three months with two, one and one rows:
two rows make a partial copy possible, one later month lets the next batch begin beside an
unfinished one, a second lets it have its own late row.
* `NothingLost`: a row committed in its month is in the main table or in its archive;
* `ArchiveIsTheMonth`: an archive table that exists holds all rows committed in the
  month, so a run that skips the batch because of it is right to.

No liveness: a month that fails is not taken up again (see the disagreements).

### OrderCache: how old an answer can be

`query_order` through Redis, memory level and snapshot, a writer with its hook. Contents are
versions; `until` (history) says when a version was superseded. The clock counts
units of which `TTL` is a number; `Latency` bounds how long a response is under way, since a
value ages from the API's reading of it while the cache counts from its storing.

The run **order_cache**: two instances with a reader each, one write, TTL 2, latency 1, clock
to 4: the smallest numbers at which an entry can be renewed once and then be too old.
* `AtMostTTLOld`: an answer not marked as degraded was true within TTL plus latency. That
  snapshots and levels feed one another never adds up lives.

### LlmCall and PoolPromise: a pool of models behind one pointer

`PoolPromise` is what a caller may rely on: a request calls models it has not given up,
gives one up for good, and fails only when it has given up all of them, or at once when
it is wrong itself. It has no pointer and no order. `LlmCall` is `_post_chat` with the
pointer every request of the process shares (`idx`), the model file (`active`), retries,
the switch on a quota error, and the second post for JSON. `gaveUp` (history) says which models
failed the post. `LlmCall.tla` instantiates `PoolPromise` with `left` and `outcome` computed from
`gaveUp` and `req`: the run **llm_call** checks the refinement `KeepsThePromise` and
* `EveryRequestEnds`: every request ends, answered, degraded or raised.

Two requests over three models with one retry: two requests are needed for one to move the
pointer under the other, three models for a pointer moved twice to skip one. Fairness:
an HTTP call gets an answer or a timeout (30 s, 60 s to read).

### KbChat, AnswerValidator, SemanticCache: a validated answer

`KbChat` is the stream of `POST /api/v1/kb/chat`, per stream `pc`, the question, the context
and round of the generation and the answer it is about to stream as validated. It extends
`AnswerValidator`, which says of a context which answers may be written, which of
them pass the rules and the model's check, and which contexts the next round may have; and
`SemanticCache`, in which Redis and the memory of every instance hold entries that carry
their age. A context has what was retrieved (`hits`) and the first documents of that, which alone are
put before the writer (`shown`): what is supplemented goes behind. The rules accept any of `hits`.
History: `idle`, per memory and question the time since that memory was given or served an answer;
and in an entry or answer its `basis`: it cites only what was retrieved, or the warm-up job put it (which
validates nothing), or neither.

The run **kb_chat** has two streams on two instances with a question each, alike to one another;
memory of one entry, two documents with their short names of which one fits the prompt, one retry, and
a life of no ticks, which still tells fresh, old and older. Two documents are enough for a citation by
name, of a document not in the context, and of one that was retrieved and not shown; with life 0 an
entry is old one tick after it was put. `WarmUpFirst` in the MC module bounds the warm-up to a time when Redis is
empty, and `GenerationFirst` lets a stream that writes and judges go on alone, since it touches only
its own state; the proofs have neither.
* `PassedIsSupported`: what is streamed as validated, new or from the cache, was written for a
  question near enough and cites only documents retrieved for it, answers of the warm-up apart. That
  its writer had read them is refuted (`WriterSawIt`, under "Where code and documentation disagree");
* `CacheForgets` (action property): the memory of an instance answers with an entry only while an answer
  to that question was put into it, taken over from Redis or served within `_MEM_TTL_SECONDS`. Nothing is
  said of hits in Redis, where code and comments disagree (`RedisRemembers`, the same place);
* `EveryChatEnds`: streams end, under weak fairness of a stream's own steps (model calls and
  retrieval have timeouts; clients may leave at any time).

### Platform: thirteen parts that share no data

`Platform` composes components that each keep a state of their own: chat turns that read, the
daily brief, the nightly evaluation, idempotency keys, the migration, retrieval, feedback,
tokens, API keys, reports in the background, routing, schema linking and questions
about data. Its next-state relation lets one of them move while the others stay as they are. They
meet in the code only through Redis, the database and the scheduler, whose failures each part
has by itself: any call may fail, with or without effect.

The run **platform** (`MCPlatform`) goes one step further: a part moves only while all others
are at their initial states, which keeps the state space a sum (1 379 213 states) and not a product.
No state of a part is missed, because the parts share no variable and each property is about
one part. Steps that touch only the mover's own state go first: a graph runs to its end (`GraphsFirst`), a
read that has its answer goes on to the wording (`ExecutedFirst`). `Ranking` has `sorted()`, as `Retrieval` and `Linking` use it. The proofs are of `Platform`'s own `Spec`. Deadlock is not checked: every part may rest.

| Part | State | Bounds of the run | Properties |
|---|---|---|---|
| `OpsTurn` (`CostBudget`, `ReadTool`) | `total` in Redis and per instance, `turn`, `read` | two turns on two instances, budget 2, one outage, one retry | `SpendingIsBounded`: a session overspends by no more than the turns at once each asked for; `OnceServedAlwaysServed`: an instance that gave an answer since it started does not say "unavailable" to a later read |
| `DailyBrief` | key, row, notifications, runs | three runs, two users | `BriefReachesEachOnce`: a brief marked as pushed has reached everyone; nobody twice while every run took the key |
| `EvalReports` | `report`, runs | two runs, one case a domain | `SuccessMeansReport`: a success stored a report itself, and none is of a domain that could not be evaluated |
| `Idempotency` | the record in Redis and in each process's file, calls | three calls on two hosts, one lost answer | `DoneOnce`: of the calls that share a store the function of one at most returns, and no result is invented, until a record in use lapses |
| `Migration` | source, target, checkpoints, the run | three runs, three checkpoints of one channel, two of each row | `ArrivesOnceAndNewest`: however often it dies and is repeated, rows arrive once, an "ok" is true, the newest version stays |
| `Retrieval` | base, shards, the answer | four chunks, two tenants in one shard, depth 3, top 2 | `TenantSeesOwn`; `BothListsAgree`: what both rankings put ahead does not come out behind |
| `Feedback` | file, evaluation set, a review | three corrections, two reviews | `EvalAsksOnce`: no question twice, the base's answers kept, only approved corrections |
| `Tokens` | tokens given and revoked, requests | two logins, two requests, four pairs | `OneLiveRefresh`: of a login at most one refresh token is good |
| `ApiKeys` | keys, buckets, key cache, calls | a key, two clients of it that retry once, one MCP call, times to 3 | `BucketBound`: not more than capacity, refill and what late scripts set the bucket back by; `KeyDiesInTime`: a revoked key works from the cache for less than its life |
| `ReportQueue` | jobs, results, requests | two reports, three changes of Redis's state | `ReportMadeOnce`: generated once, by the queue or by the instance, never by the instance while the queue holds it, unless the answer to its enqueueing got lost |
| `Routing` | sample file, vector file, servers, a question | four samples, two servers, two edits | `VectorsAreOfSamples`: a server that is up has the vectors of its own samples while every edit raises the version, and the model's, if it has the model, while no server without it embedded samples |
| `Linking` | the prompt of version v2 (by default it is v1, which has the whole schema) | four tables, six descriptions, four similarities | `NearestIsInPrompt` |
| `DataQuery` (`SessionCtx`, `Nl2SqlGraph`) | turns in Redis and in each instance, questions with the state of their graph | two questions on two instances, two turns kept, two repairs | `OnlyGatedSqlRuns`: no SQL is executed that did not itself pass the gates; `RedisHoldsTheLastTurns`: no turn is lost to a concurrent append; `ResolvedAgainstRecent` (action property): a question is resolved against what was the last turn no longer ago than `L1_TTL_SECONDS` and one call of Redis: between a script and the copy its answer becomes, another instance may have recorded the next turn. Answers are lost, too; then the instance goes by its own list |

Where numbers matter the bounds are the smallest at which both sides of a comparison occur: a
budget of two calls, a bucket of two tokens, a list of two turns with a third one appended. In `ApiKeys`
the buckets of the REST API and the cache of the MCP server do not meet, and the run moves
one of them at a time (`ToolsRest`, `ClientsRest`).

The run **platform_no_report_of_failure** has the same bounds and ends with a counterexample (see
the disagreements).

No part of `Platform` has a liveness property: each ends by returning from a request nobody
has to repeat.

## Proofs

Eight modules have theorems. Each has an inductive invariant, lemmas that `Init` implies it and
that every action keeps it (mostly one lemma per action), and a last temporal step.
The assumptions are the ASSUMEs of the proved modules, which TLC evaluates in the runs: types of
the constants, and numbers that must not be zero. No theorem depends on the bounds of an MC module.
`PROJECT.json` lists the theorems a reader should know of.

| Module | About | Theorems of runs' properties |
|---|---|---|
| `OpsFlowProofs` | OpsFlow | `GatedWriteIsAuthorised`, `RetryDoesNotRepeatWrite`, `SuccessMeansTargetWritten`, `FormNamesTheCall`, `DecisionIsFinal` |
| `JobRunsProofs` | JobRuns | `LockIsNotStolen`, `ExclusiveUnlessOverrun`, `RunningMeansRunning` |
| `KbSyncProofs` | KbSync | `WatermarkIsSafe` |
| `AuditArchiveProofs` | AuditArchive | `NothingLost`, `ArchiveIsTheMonth` |
| `OrderCacheProofs` | OrderCache | `AtMostTTLOld` |
| `CallProofs` | LlmCall, CircuitBreaker | `KeepsThePromise` (refinement), `OpenIsStamped` |
| `KbChatProofs` | KbChat with SemanticCache and AnswerValidator | `PassedIsSupported`, `CacheForgets` |
| `PlatformProofs` | Platform's parts | `OnceServedAlwaysServed`, `SpendingIsBounded`, `BriefReachesEachOnce`, `SuccessMeansReport`, `DoneOnce`, `ArrivesOnceAndNewest`, `OneLiveRefresh`, `BucketBound`, `KeyDiesInTime`, `ReportMadeOnce`, `VectorsAreOfSamples`, `OnlyGatedSqlRuns`, `RedisHoldsTheLastTurns`, `ResolvedAgainstRecent`, `TenantSeesOwn`, `BothListsAgree`, `NearestIsInPrompt`, `EvalAsksOnce` |

### KbSyncProofs

`TypeCorrect` and `WatermarkSafe` (`WatermarkIsSafe`), for any runs, documents and texts and however
runs overlap. A row *claims* its file if it is active, has its text and is not older. `IInv` says
* `StoresOK`: nothing is later than the clock;
* `ClaimsAreTrue`: what is claimed has exactly its text's vectors;
* `UpToWatermark`: a file not edited since the watermark is claimed;
* `RunsOK`: a run that is alone has no watermark ahead of it; what a run has before it or in work is
  claimed by no row; the points of what it has in hand are those it has upserted; a file
  as old as the run is claimed, before it or in its hand.

All but `StoresOK` speak of documents that are not damaged only, and so a second run beside the first
can be dealt with once (`OthersStay`), and so can whatever is not of the sync (`OutsideKeeps`).
The argument is that a row is written last and with the text that was read, while the
watermark gets the time at which the run began: an edit during the run is later than both.
Why a document may leave `damaged` is the step to see: no watermark is ahead of a run that is alone,
so what it has just committed is claimed if it has to be (`CommitRowKeeps`).

### CallProofs

`PoolPromiseIsKept` shows for any number of requests, models and retries that every step of
`LlmCall` is a step of `PoolPromise` or leaves `left` and `outcome` alone. The invariant is that
what a request has given up are the first `k` models of the order it took when it was posted
(`Accounted`), with the lemma that an order names every model once (`OrderIsPermutation`). The
pointer does not occur in it, which is why no other request can disturb it. `NobodyIsAskedAgain`
follows.

`StampIsNotLost` (`OpenIsStamped`) is about the breaker for any processes, threads and
thresholds. The property is inductive once types hold: the state becomes OPEN only with a thread on
its way to the timestamp, nobody removes a timestamp, and whoever leaves that way has
written one.

### KbChatProofs

For any streams, instances, questions, documents, sizes, any prompt and any warm-up. `StoresInv` says that
every entry anywhere rests on what was retrieved or is marked as the warm-up's, `ChatInv` what a stream knows
at each point (above all that only an answer that passed is put). `PassesSound` is the bridge to the
validator: the rules that let an answer pass ask for citations within what was retrieved. For
`CacheForgets`, `FreshInv` says that no entry of a memory is younger than the time since that memory was
given or served an answer to its question; both grow by the same ticks, and what is taken over from Redis
takes its age along.

### PlatformProofs

The lemma `Apart` gives for each part that a step of `Platform` is a step of the part or
leaves its variables unchanged; after it each part is proved alone.

| Theorem | Invariant, and why it is needed |
|---|---|
| `ServiceStays` | `ServedInv`: the instance of a read under way that began after an answer still has the copy; every answer, also one of the cache, leaves one, and only a restart, which ends the reads too, takes it |
| `SpendingBound` | `SpendingInv`: what is booked plus what the turns that are asking will add at most (`Asking`, `Dearest`) stays below the budget plus the dearest call per turn. The bound alone is not inductive: it does not see what was asked for and not yet booked |
| `BriefReaches` | `BriefInv`: who a run has still to notify, and that without a key-less run one run at most is past the key |
| `SuccessStored` | `EvalInv`: what a run has so far evaluated and stored, and which metrics each step can pass on |
| `KeyDoneOnce` | `IdemInv`, `CallGood`: who holds the record, whether the claim it read is still there, and that a result is written only by the one who has it |
| `Arrives` | `ArrivedInv`, `NewestInv`, `VerdictInv`: what each phase of a run has established, over whatever earlier runs left |
| `RefreshRotates` | `TokensInv`: whoever is about to give a pair has put the token's number into the blacklist, where it is unique |
| `BucketLimits` | `BucketInv`: what was granted and is in the bucket is at most capacity and refill up to the bucket's own stamp and the ticks it was set back by. The stamp is the point: a refused call writes it, too, and a script that runs late writes an earlier one |
| `KeysDie` | `CacheInv`: an entry, and a call that has read the key, is stamped no later than it was valid |
| `ReportsMadeOnce` | `ReportsInv`, `OneMaker`: of queue, worker and instance one at most has the report in hand |
| `VectorsMatch` | `RoutingInv`, `ServerOK`, `VectorsOK`: a version names one content, of the file and of everything servers hold; hashes are made by a server without the model |
| `SqlIsGated` | `GraphInv` of the state record, lifted to all questions by `QueryInv`: at the nodes after the gates the checked SQL is the present one |
| `LastTurnsAreHeld`, `ResolvesRecent` | `ListInv`: Redis's list is the newest of the turns that reached it; `CopyInv`: an instance's copy is no staler than its age and the call that read its list; `CallInv`: the turn a waiting call carries was the last one when its script ran |
| `TenantsApart`, `FusionHonoursBoth` | `RetrievalInv`: collections hold chunks and the answer is as the two properties say; the work is in the lemmas about one query |
| `NearestTables` | none besides itself: `InjectedIs` says of the choice of tables, for any similarities, what the property asks |
| `AskedOnce` | `FeedbackInv`: the file, and what a review holds in hand of it, call approved only what a review approved (`Honest`); the evaluation set is `SoundSet` |

Two of these parts sort, and a third folds over a file. What such definitions compute is an
induction, and the induction theorems of the library cannot be cited here; the proofs take a
least counterexample instead. The subset order on finite sets is well founded (a library theorem
without operator parameters), so a set of numbers has a least element (`HasLeast`), and a
set of bad cases that is not empty has a least bad case, which each proof contradicts.
* `Sortable`: a finite set in a total order can be listed in it; the bad case is a
  set of least size. `InOrderLists`: `InOrder` (module `Ranking`) is that list.
* `Fractions`, `ScoreFalls`, `BeatsOrders`: sums of reciprocal ranks, compared as fractions by
  cross-multiplication, with the chunk id between equals, are a total order, and a chunk that is ahead in
  both rankings beats the other. `FusionAgrees` carries that over the rule reranker: when the
  chunk itself was dropped, an earlier one of its document was kept.
* `RankedIs`, `InjectedIs`: the sorted tables, cut to the recalled ones and to those close to the
  best, still have the table of the nearest description at the front.
* `EvalSetIsSound`: the recursive function over the lines of the file exists for every length
  (least length for which it would not), and each of its values is sound (least line after
  which it would not be).

They assume of the constants that the base set asks nothing twice, that the corpus has each table
once, that chunks and the descriptions of tables are finite, and that a tenant has a shard.

### OpsFlowProofs

It proves, for any sets of sessions, orders, contents, approval
numbers and workers and any bounds, the type invariant and the five properties of
`OpsFlow.cfg`:

| Theorem | Statement |
|---|---|
| `Invariance` | `Spec => []IInv` |
| `TypeCorrect` | `Spec => []TypeOK` |
| `GatedWrites` | `Spec => []GatedWriteIsAuthorised` |
| `RetriesAreSafe` | `Spec => []RetryDoesNotRepeatWrite` |
| `SuccessIsReal` | `Spec => []SuccessMeansTargetWritten` |
| `FormsNameTheirCall` | `Spec => []FormNamesTheCall` |
| `DecisionsAreFinal` | `Spec => DecisionIsFinal` |

They assume `NoRow \notin ApprovalId` and that the bounds are numbers.

The properties are about writes, but what protects a write is what its request
learned steps before. `IInv` adds that:
* `RequestsOK`: each request's turn and call are those of `turns`; its row is of
  its call; past the gate its row is decided and its key is its call's; when it missed in
  the order API no write of its key was among those it saw; a success
  it is about to report was written;
* `ThreadsOK`: a waiting checkpoint is of a write turn of its session and its form is a row
  of that call (this is what a resume starts from);
* `StoreOK`: the idempotency store knows every keyed write, and nothing else.

What is told goes through the thread, so it is an invariant of its own, `SaidOK`, kept
given `IInv`: a success held by a request, a checkpoint or a reply is `Honest` for its
session. `LogsGrow` carries an honest answer over every step, `SaidIsLoaded` says that a
request holds what it loaded from the thread, `AnswerIsHonest` that what a run words is so,
and `ThreadsStayHonest` and `RepliesStayHonest` that it is stored and read as such.

The argument is one of growth. `Grow` says what no step takes back: turns and writes stay in
place, rows stay, keep their contents, and keep a decision. `GrowKeepsRequest` and
`GrowKeepsThread` carry everything a request or a checkpoint knows over any step that grows,
so for each action only the acting request remains (`LocalStep` for the actions
that change nothing else). `DecisionsAreFinal` is `Grow` again.

### JobRunsProofs

For any instances, firings and placement of the firings: `TypeCorrect`, `LocksAreNotStolen`,
`Exclusion` (`ExclusiveUnlessOverrun`) and `RunningRows` (`RunningMeansRunning`). `IInv` adds
that whoever a lock names is executing and holds no other lock (`HoldersExecute`), that
an executing or skipped firing has its run id (`Named`) and that the mark of an overrun ends with
the firing (`Fresh`). Without the first a stale owner could come back to a lock that
somebody else has by then; exclusion then follows from `LockIsNotStolen`, since two
firings that both own one lock are one.

### AuditArchiveProofs

For any number of overlapping runs, months and rows: `TypeCorrect`, `RowsAreKept`
(`NothingLost`), `ArchivesAreWhole` (`ArchiveIsTheMonth`). The argument is that CREATE TABLE AS SELECT
raises where the table exists, so that one run at most is past it in each batch (`OneHolder`); only
that run may drop the table or delete the rows, and it does one of the two; and that until the
comparison has passed the main table still has the month (`MainHasIt`). The lock plays no part in
it: the proof holds for runs that go on without. It also shows that the comparison
of counts is not what keeps the rows (either outcome is covered).

### OrderCacheProofs

For any instances, readers, writers, TTL and latency: `TypeCorrect` and `BoundedAge`
(`AtMostTTLOld`). `IInv` says of every entry that its value was current `TTL + Latency` before it
expires (`EntriesOK`), of every response under way when it was current (`ResponsesOK`), and
of the history that nothing is superseded in the future (`Superseded`).

### What is left to TLC

* Liveness: `ProbeSettles`, `RefusalsStop`, `JobRunsAgain`, `Converges`, `EveryRequestEnds`,
  `EveryChatEnds`. Fairness and ENABLED are out of the prover's reach.

Every invariant and every other property of a passing run is stated by a theorem.

## Where code and documentation disagree

With a run (`PROJECT.json`, "findings"):

| Run | What the repository says | What the code does |
|---|---|---|
| ops_flow_EveryWriteApproved | all high-risk tools wait for a confirmation (`graph.py:96`) | the gate's read fails, it answers not_required, and the write is made |
| ops_flow_RejectedNeverWritten | pending -> approved/rejected, one way (`approval.py:10`) | two racing decisions; the row count of the UPDATE is ignored; the loser executes |
| platform_no_report_of_failure | a domain all of whose cases failed gets no report (`eval_nightly.py:97`) | `_is_failed` asks for `n > 0` first, and `n` is 0 then; the SQL evaluation always says error rate 0 |

Stated in a module and refuted by TLC on the instance named, without a run of its own:

| Definition | What the repository says | What the code does |
|---|---|---|
| `OpsFlow!ExecutedAsShown` (OpsFlow.cfg with two values of a change) | the form shows the change (`approval.py:5`) | a reused pending row shows the older one (`:135`) |
| `OpsFlow!ReportedSuccessIsApplied` (the same) | a decided row is not reused (`approval.py:126`) | its key is, since it leaves out the contents (`:131`): the second approved change is answered with the first one's result |
| `OpsFlow!AnsweredForItsTurn` (OpsFlow.cfg) | the answer is taken from the checkpoint of the run (`ops/router.py:166`) | it is what the thread holds then: with two requests of a session the later run's answer is given for both |
| `KbSync!CleanupSparesActive` (KbSync.cfg) | only vectors without an active row are deleted (`vector_cleanup.py:5`) | rows are read before a sync commits, vectors deleted after (`:157`); nothing indexes the document again before it is edited |
| `OrderCache!ReadAfterWriteIsFresh` (OrderCache.cfg) | a read after a write is fresh (`hooks.py:221`) | the hook deletes the Redis entry only (`:212`); the memory level stays, and a refill may follow |
| `KbChat!WriterSawIt` (KbChat.cfg) | citations are all of the context, against documents cited that the context does not have (`answer_validator.py:6`) | the rules go by all documents retrieved, also supplemented ones (`:260`), of which the prompt holds the first three (`prompts.py:23`, `:67`; `qa_type` is None): a document the writer never read may be cited |
| `KbChat!RedisRemembers` (KbChat.cfg) | entries in Redis have no `stored_at`, never expire in a search and live the 7 days of `_REDIS_TTL` (`semantic_cache.py:162`, `:39`) | `put` writes `stored_at` into them (`:277`, `:283`), so every instance passes them over after 60 s |
| `Routing!ScoreIsOfTheRoute` (Platform.cfg) | the score is that of the winning label's nearest sample (`semantic_router.py:237`) | it is that of the nearest sample of any label |
| `ReportQueue!OkMeansReport` (Platform.cfg) | `ok` is the success of the report (`ops/router.py:327`, `:349`) | a queued job that was refused its report is a finished one and answered `ok=True, ready=True` (`tasks/report_job.py:34`, `tasks/queue.py:114`, `ops/router.py:364`) |
| `OpsTurn!RefusalIsFinal` (Platform.cfg) | 404, 409 and 400 are neither retried nor degraded (`tools/registry.py:215`) | a refusal whose text holds the digits of a fault is (`retry_policy.py:36`): "order PO-0500 not found" is answered with the copy or "unavailable" |
| `ApiKeys!RefilledOnce` (Platform.cfg) | the script is atomic, so that two instances do not let more through (`apikeys.py:183`) | it goes by the time its caller read before it was sent (`:230`) and sets `:ts` to it (`:200`): one that arrives late sets it back, and the ticks are refilled again |
| `Routing!EmbeddedAlike` (Platform.cfg) | samples are embedded the way `route` embeds the question (`semantic_router.py:145`) | a server whose model cannot be loaded degrades to hashes (`embedder.py:37`) and saves them under the version of the samples (`semantic_router.py:176`); later servers with the model take them from the file (`:140`) |

Met while modelling, visible in the models:

*Ops.* A decision names an approval, but resumes whatever the session waits in
(`domains/ops/router.py:255`, `Post`). A message the intent node does not understand is answered
with the tool result of the turn before (`graph.py:235`, `Answer`). Two requests may both find no
pending row and insert one each (`approval.py:134`). A crash after a row is decided leaves a
thread that waits and a table with nothing pending for it (`approval.py:182`). Two writes of one
key are both applied when the second arrives while the first one's body is awaited
(`src/deploy/mock_biz_server/main.py:127`): why `RetryDoesNotRepeatWrite` compares with `mark`.
A refusal at the last attempt is wrapped and no longer recognised. What
is spent while Redis is out is dropped when it answers again (`cost_budget.py`).

*Reports.* The instance that makes a report itself does so inside the running loop, and it never gets
the model's wording. The copy a degraded report comes from is kept by type and not by its
dates (`report_tools.py:76`). A poll says not_found when Redis fails. An enqueueing whose answer got lost makes
the report twice.

*Breaker and scheduler.* On reopening, threads see the old timestamp and probe at once
(`circuit_breaker.py:139`); on the first opening they subtract `None` and raise `TypeError`
(`:110`): stage "broken". A job longer than 300 s loses its lock, which is not renewed
(`leader.py:72`); two Redis faults, one on each side, run it under two kinds of lock
(`:62`). A skipped firing overwrites the row of the running one of the same second and
instance (`platform/scheduler/__init__.py:185`). Two runs of the brief without the key both notify; a run
that overwrites `notified_users` repeats notifications; a SET NX whose answer is lost leaves a date
without a brief.

*Knowledge base.* Overlapping syncs may move the watermark past an edit that neither registered
(`kb_increment_sync.py:358`). Two documents with an equal chunk share one point (`:225`, `:127`). A
collection that is lost is made anew and empty, while the watermark stays. The warm-up puts answers
nobody validated into the cache, which its docstring excludes (`cache_warmup.py:10`, `:92`), and they are
streamed as validated: `WarmUp`. A Redis hit touches an expired entry of the same key in
memory and makes it current again: let an instance take an answer over from Redis, let it expire, let another
instance put the question again, look it up. Ages are readings of a monotonic clock, which means
nothing on another host. The sharding copy keeps payloads without a tenant; a query
without a tenant searches all chunks; BM25 does not follow the incremental sync; sync and cleanup write
the base only, also after the switch to shards; the weighted fusion, which nothing configures,
raises ValueError. A review rewrites the feedback file and loses what was submitted in between.

*Audit.* A month whose job fails for a whole month is never archived (`audit_archive.py:59`). A row
that commits between copy and deletion is deleted without a copy (`:124`): `late`. An archive table left
by a run that failed before the deletion is taken for a finished batch (`:75`). An MCP call is audited under
an identity resolved apart from the one it is permitted by.

*Idempotency, tokens, keys.* Two retries that both read FAILED both run. A claim may expire under its
holder; a claim whose answer is lost stays RUNNING until it expires, and one in the SQLite file for ever.
A refresh revokes the old token before the new pair is signed. A failed read of a key is cached
for 30 s as unknown.

*Migration.* A repeated run reverts decisions made on the platform (`status = VALUES(status)`), adds
feedback without a user again, takes audit lines of one event and time for one, and deletes checkpoint
writes added at run time, which line 413 says it keeps; the newest value of a channel is lost if its
put failed once.

*Persistence.* `_mysql_saver` is set before its `setup()` has run, so a failure there is not
retried (`domains/ops/persistence.py`).

## What is not modelled

`PROJECT.json` has a line for each component. In short: text processing, embeddings, prompts and model
calls (no protocol); metrics, logs, wiring, schema, front end (no state anyone reads back);
conversations (one idempotent upsert). Inside the modelled parts: report tools in OpsFlow,
MySQL failures inside its gate (the route answers 503 and nothing is written), a resume of an
idle thread (does nothing), the order state machine (its refusal is `ApplyRefused`), the breaker's
`reset()`, the weighted fusion, feedback that is no correction, streaming from the model (no caller).

## Plan

1. Abstract specifications with proved step simulations, as for PoolPromise: a lock with overrun
   that JobRuns implements, and an approval ledger (request, decide, apply once) that OpsFlow implements.
2. Properties that say more of a part than its one invariant, with their proofs: of `Feedback` what a
   review keeps of the file it read, of `Retrieval` what a copy into shards has moved.
