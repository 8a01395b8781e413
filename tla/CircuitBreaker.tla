--------------------------- MODULE CircuitBreaker ---------------------------
(***************************************************************************)
(* The circuit breaker of one tool (shared/reliability/circuit_breaker.py) *)
(* in the processes that share its Redis key cb:{name}: the API instances  *)
(* and the MCP server.  The graph's synchronous nodes run in executor      *)
(* threads, so several threads use one breaker object, which has no lock;  *)
(* a thread may be switched out at every call it makes, the log line and   *)
(* the Redis round trip of a transition included.                          *)
(*                                                                         *)
(* Time is abstract: what a clock decides (the cooldown is over, the key   *)
(* has expired, the one-second cache is stale) happens in steps of its     *)
(* own.  Redis fails open: each use of it may find it down.                *)
(***************************************************************************)
EXTENDS Naturals

CONSTANTS
    Instance,     \* processes, each with its breaker object
    Thread,       \* threads that run tool calls
    Deployment,   \* the ways in which the threads may belong to the processes
    Threshold     \* failure_threshold

ASSUME DeploymentAssumption == Deployment \subseteq [Thread -> Instance]
ASSUME ThresholdAssumption == Threshold \in Nat \ {0}

VARIABLES
    st,           \* per instance, _state
    fails,        \* per instance, _consecutive_failures, counted up to Threshold
    openedAt,     \* per instance, _opened_at: unset, or within or past the cooldown
    cache,        \* per instance, _remote_cache: the answer, or none once stale
    key,          \* is cb:{name} set in Redis
    failing,      \* calls of the tool raise at the moment
    pc,           \* what each thread does
    held,         \* what a thread carries over an I/O of its own
    home          \* the process of each thread, given by the deployment

breakerVars == <<st, fails, openedAt, cache, key, failing, pc, held, home>>
breaker == <<st, fails, openedAt>>

Phase == {"idle", "cooling", "probing", "remote", "caching", "calling",
          "succeeded", "closing", "unsharing", "clearing",
          "failed", "opening", "sharing", "stamping", "refused", "broken"}

\* Every variable holds a value of the breaker's own shape, and no thread
\* carries more than one answer over an I/O.
BreakerTypeOK ==
    /\ st \in [Instance -> {"CLOSED", "OPEN", "HALF_OPEN"}]
    /\ fails \in [Instance -> 0 .. Threshold]
    /\ openedAt \in [Instance -> {"none", "fresh", "old"}]
    /\ cache \in [Instance -> {"none", "open", "shut"}]
    /\ key \in BOOLEAN /\ failing \in BOOLEAN
    /\ pc \in [Thread -> Phase]
    /\ held \in [Thread -> BOOLEAN]
    /\ home \in Deployment

BreakerInit ==
    /\ st = [i \in Instance |-> "CLOSED"]
    /\ fails = [i \in Instance |-> 0]
    /\ openedAt = [i \in Instance |-> "none"]
    /\ cache = [i \in Instance |-> "none"]
    /\ key = FALSE /\ failing = FALSE
    /\ pc = [t \in Thread |-> "idle"]
    /\ held = [t \in Thread |-> FALSE]
    /\ home \in Deployment

Least(a, b) == IF a < b THEN a ELSE b
Goto(t, p) == pc' = [pc EXCEPT ![t] = p]

\* A thread drops what it carried when it no longer needs it.
Drop(t) == held' = [held EXCEPT ![t] = FALSE]

(***************************************************************************)
(* call: the gate                                                          *)
(***************************************************************************)
Begin(t) ==
    /\ pc[t] = "idle"
    /\ Goto(t, IF st[home[t]] = "OPEN" THEN "cooling" ELSE "remote")
    /\ UNCHANGED <<breaker, cache, key, failing, held, home>>

\* monotonic() - _opened_at >= cooldown; subtracting None raises.
Cooling(t) ==
    /\ pc[t] = "cooling"
    /\ Goto(t, CASE openedAt[home[t]] = "none" -> "broken"
                 [] openedAt[home[t]] = "fresh" -> "refused"
                 [] openedAt[home[t]] = "old" -> "probing")
    /\ UNCHANGED <<breaker, cache, key, failing, held, home>>

HalfOpen(t) ==
    /\ pc[t] = "probing"
    /\ st' = [st EXCEPT ![home[t]] = "HALF_OPEN"]
    /\ Goto(t, "calling")
    /\ UNCHANGED <<fails, openedAt, cache, key, failing, held, home>>

\* The shared state, from the cache while it is younger than a second.
CacheHit(t) ==
    /\ pc[t] = "remote" /\ cache[home[t]] # "none"
    /\ Goto(t, IF cache[home[t]] = "open" THEN "refused" ELSE "calling")
    /\ UNCHANGED <<breaker, cache, key, failing, held, home>>

\* Else from Redis; an unavailable Redis reads as "not open".
AskRedis(t) ==
    /\ pc[t] = "remote" /\ cache[home[t]] = "none"
    /\ \E answer \in {key, FALSE} : held' = [held EXCEPT ![t] = answer]
    /\ Goto(t, "caching")
    /\ UNCHANGED <<breaker, cache, key, failing, home>>

CacheAnswer(t) ==
    /\ pc[t] = "caching"
    /\ cache' = [cache EXCEPT ![home[t]] = IF held[t] THEN "open" ELSE "shut"]
    /\ Goto(t, IF held[t] THEN "refused" ELSE "calling")
    /\ Drop(t)
    /\ UNCHANGED <<breaker, key, failing, home>>

\* CircuitOpenError or TypeError reaches the caller.
Leave(t) ==
    /\ pc[t] \in {"refused", "broken"}
    /\ Goto(t, "idle")
    /\ UNCHANGED <<breaker, cache, key, failing, held, home>>

\* func returns or raises: a transport fault or, just the same, a 4xx.
Answered(t) ==
    /\ pc[t] = "calling"
    /\ \E p \in IF failing THEN {"succeeded", "failed"} ELSE {"succeeded"} : Goto(t, p)
    /\ UNCHANGED <<breaker, cache, key, failing, held, home>>

(***************************************************************************)
(* _on_success and _on_failure                                             *)
(***************************************************************************)
\* An exchange with Redis that a transition makes: Redis is down and nothing
\* happens, or the command is lost and only the cache is written, or both.
Share(t, present) ==
    \/ UNCHANGED <<key, cache>>
    \/ /\ key' \in {key, present}
       /\ cache' = [cache EXCEPT ![home[t]] = IF present THEN "open" ELSE "shut"]

\* Changed form of OnSuccess: a success only clears the count.
OnSuccessKeepsState(t) ==
    /\ pc[t] = "succeeded"
    /\ Goto(t, "clearing")
    /\ UNCHANGED <<breaker, cache, key, failing, held, home>>

OnSuccess(t) ==
    /\ pc[t] = "succeeded"
    /\ Goto(t, IF st[home[t]] = "HALF_OPEN" THEN "closing" ELSE "clearing")
    /\ UNCHANGED <<breaker, cache, key, failing, held, home>>

Close(t) ==
    /\ pc[t] = "closing"
    /\ st' = [st EXCEPT ![home[t]] = "CLOSED"]
    /\ Goto(t, "unsharing")
    /\ UNCHANGED <<fails, openedAt, cache, key, failing, held, home>>

Unshare(t) ==
    /\ pc[t] = "unsharing"
    /\ Share(t, FALSE)
    /\ Goto(t, "clearing")
    /\ UNCHANGED <<breaker, failing, held, home>>

ClearFailures(t) ==
    /\ pc[t] = "clearing"
    /\ fails' = [fails EXCEPT ![home[t]] = 0]
    /\ Goto(t, "idle")
    /\ UNCHANGED <<st, openedAt, cache, key, failing, held, home>>

\* held: the failure is a probe's, to be counted as the first after reopening.
ProbeFailed(t) ==
    /\ pc[t] = "failed" /\ st[home[t]] = "HALF_OPEN"
    /\ held' = [held EXCEPT ![t] = TRUE]
    /\ Goto(t, "opening")
    /\ UNCHANGED <<breaker, cache, key, failing, home>>

CountFailure(t) ==
    /\ pc[t] = "failed" /\ st[home[t]] # "HALF_OPEN"
    /\ LET n == Least(fails[home[t]] + 1, Threshold)
       IN  /\ fails' = [fails EXCEPT ![home[t]] = n]
           /\ Goto(t, IF n >= Threshold THEN "opening" ELSE "idle")
    /\ UNCHANGED <<st, openedAt, cache, key, failing, held, home>>

Open(t) ==
    /\ pc[t] = "opening"
    /\ st' = [st EXCEPT ![home[t]] = "OPEN"]
    /\ Goto(t, "sharing")
    /\ UNCHANGED <<fails, openedAt, cache, key, failing, held, home>>

ShareOpen(t) ==
    /\ pc[t] = "sharing"
    /\ Share(t, TRUE)
    /\ Goto(t, "stamping")
    /\ UNCHANGED <<breaker, failing, held, home>>

\* Changed form of Stamp: only a failed probe restarts the clock.
StampProbesOnly(t) ==
    /\ pc[t] = "stamping"
    /\ openedAt' = IF held[t] THEN [openedAt EXCEPT ![home[t]] = "fresh"] ELSE openedAt
    /\ fails' = [fails EXCEPT ![home[t]] = IF held[t] THEN 1 ELSE @]
    /\ Goto(t, "idle") /\ Drop(t)
    /\ UNCHANGED <<st, cache, key, failing, home>>

\* _opened_at is written after the transition has come back from Redis.
Stamp(t) ==
    /\ pc[t] = "stamping"
    /\ openedAt' = [openedAt EXCEPT ![home[t]] = "fresh"]
    /\ fails' = [fails EXCEPT ![home[t]] = IF held[t] THEN 1 ELSE @]
    /\ Goto(t, "idle") /\ Drop(t)
    /\ UNCHANGED <<st, cache, key, failing, home>>

(***************************************************************************)
(* Time, and the health of the order API                                   *)
(***************************************************************************)
CooldownEnds(i) ==
    /\ openedAt[i] = "fresh"
    /\ openedAt' = [openedAt EXCEPT ![i] = "old"]
    /\ UNCHANGED <<st, fails, cache, key, failing, pc, held, home>>

KeyExpires ==
    /\ key /\ key' = FALSE
    /\ UNCHANGED <<breaker, cache, failing, pc, held, home>>

\* Changed form of CacheAges: an answer "open" is cached without an age.
CacheOfOpenIsForEver(i) ==
    /\ cache[i] = "shut"
    /\ cache' = [cache EXCEPT ![i] = "none"]
    /\ UNCHANGED <<breaker, key, failing, pc, held, home>>

CacheAges(i) ==
    /\ cache[i] # "none"
    /\ cache' = [cache EXCEPT ![i] = "none"]
    /\ UNCHANGED <<breaker, key, failing, pc, held, home>>

HealthChanges ==
    /\ failing' = ~failing
    /\ UNCHANGED <<breaker, cache, key, pc, held, home>>

-----------------------------------------------------------------------------
\* What a thread that has begun a call does next.
Proceed(t) ==
    \/ Cooling(t) \/ HalfOpen(t) \/ CacheHit(t) \/ AskRedis(t) \/ CacheAnswer(t)
    \/ Leave(t) \/ Answered(t)
    \/ OnSuccess(t) \/ Close(t) \/ Unshare(t) \/ ClearFailures(t)
    \/ ProbeFailed(t) \/ CountFailure(t) \/ Open(t) \/ ShareOpen(t) \/ Stamp(t)

Time == KeyExpires \/ \E i \in Instance : CooldownEnds(i) \/ CacheAges(i)

BreakerNext ==
    \/ \E t \in Thread : Begin(t) \/ Proceed(t)
    \/ Time
    \/ HealthChanges

\* A call in progress ends (the HTTP client times out after 10 s) and clocks
\* advance.  Nobody has to call, and the order API has to do nothing.
BreakerFairness ==
    /\ \A t \in Thread : WF_breakerVars(Proceed(t))
    /\ WF_breakerVars(KeyExpires)
    /\ \A i \in Instance : WF_breakerVars(CooldownEnds(i)) /\ WF_breakerVars(CacheAges(i))

BreakerSpec == BreakerInit /\ [][BreakerNext]_breakerVars /\ BreakerFairness

(***************************************************************************)
(* Properties                                                              *)
(***************************************************************************)
\* An OPEN breaker without a timestamp, on which every call would raise, exists
\* only while the thread that opened it is still on its way to stamp it: the
\* transitions of concurrent threads never lose the timestamp for good.
OpenIsStamped ==
    \A i \in Instance : st[i] = "OPEN" /\ openedAt[i] = "none" =>
        \E t \in Thread : home[t] = i /\ pc[t] \in {"sharing", "stamping"}

\* Once the order API answers for good, calls are no longer refused, on any
\* instance: neither a local cooldown nor the shared key nor a cached copy of
\* it can keep a breaker shut off for ever.
RefusalsStop ==
    <>[](~failing) => \A t \in Thread : <>[](pc[t] \notin {"refused", "broken"})

\* A half-open breaker is decided by the calls it admits: it does not stay
\* half-open, whatever calls of before the outage complete in between.
ProbeSettles ==
    \A i \in Instance : st[i] = "HALF_OPEN" ~> st[i] # "HALF_OPEN"
=============================================================================
