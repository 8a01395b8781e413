----------------------------- MODULE OrderCache -----------------------------
(***************************************************************************)
(* Reading an order through the query cache while it is being written: the *)
(* two-level QueryCache (shared/reliability/cache.py), OrderTools.         *)
(* query_order with its read-only snapshot (domains/ops/agent/tools/       *)
(* order_tools.py) and the hook that invalidates the cache after a write   *)
(* (platform/hooks.py).                                                    *)
(*                                                                         *)
(* One order; its contents are versions.  Redis is shared by the           *)
(* instances and may be unreachable at every use; the memory level and the *)
(* snapshot belong to one process.  The clock counts units in which the    *)
(* TTL is measured; Latency bounds the time from the API's reading of the  *)
(* order to the storing of its response (the HTTP client has a timeout).   *)
(***************************************************************************)
EXTENDS Integers

CONSTANTS
    Instance,     \* processes with an OrderTools object
    Reader,       \* threads that query the order
    Writer,       \* threads that change it
    Home,         \* the process of each reader
    TTL,          \* life of a cache entry
    Latency,      \* longest time a response is under way
    None,         \* no entry, no snapshot
    MaxVersion,   \* bound: changes of the order
    MaxClock      \* bound: units of time

ASSUME HomeAssumption == Home \in [Reader -> Instance]
ASSUME NumberAssumption ==
    TTL \in Nat \ {0} /\ Latency \in Nat /\ MaxVersion \in Nat /\ MaxClock \in Nat

VARIABLES
    clock,        \* now
    db,           \* the order's version in the order API
    until,        \* history: when each version was superseded
    redis,        \* cache:{key} in Redis
    mem,          \* per process, the memory level
    snap,         \* per process, the snapshot
    reader,       \* the queries
    writer,       \* the writes
    acked         \* history: newest version whose write has invalidated the cache

vars == <<clock, db, until, redis, mem, snap, reader, writer, acked>>

Version == 0 .. MaxVersion
Now == 0 .. MaxClock
Entry == [val : Version, exp : 0 .. MaxClock + TTL]
ASSUME NoneAssumption == None \notin Version \cup Now \cup Entry

Query == [pc : {"idle", "look", "fetch", "store", "told"},
          val : Version \cup {None}, from : {"none", "cache", "api", "snapshot"},
          since : Version, at : Now]

\* Every variable holds a value of the program's own shape.
TypeOK ==
    /\ clock \in Now /\ db \in Version /\ acked \in Version
    /\ until \in [Version -> Now \cup {None}]
    /\ redis \in Entry \cup {None}
    /\ mem \in [Instance -> Entry \cup {None}]
    /\ snap \in [Instance -> Version \cup {None}]
    /\ reader \in [Reader -> Query]
    /\ writer \in [Writer -> Version \cup {None}]

NoQuery == [pc |-> "idle", val |-> None, from |-> "none", since |-> 0, at |-> 0]

Init ==
    /\ clock = 0 /\ db = 0 /\ acked = 0
    /\ until = [v \in Version |-> None]
    /\ redis = None
    /\ mem = [i \in Instance |-> None]
    /\ snap = [i \in Instance |-> None]
    /\ reader = [r \in Reader |-> NoQuery]
    /\ writer = [w \in Writer |-> None]

Live(e) == e # None /\ e.exp > clock
Answer(r, v, source) ==
    reader' = [reader EXCEPT ![r].pc = "told", ![r].val = v, ![r].from = source]

(***************************************************************************)
(* query_order                                                             *)
(***************************************************************************)
Ask(r) ==
    /\ reader[r].pc = "idle"
    /\ reader' = [reader EXCEPT ![r] = [NoQuery EXCEPT !.pc = "look", !.since = acked]]
    /\ UNCHANGED <<clock, db, until, redis, mem, snap, writer, acked>>

\* Changed form of Look: a Redis hit is copied to the memory level, with a new
\* life.
LookPromotes(r) ==
    LET i == Home[r]
    IN  /\ reader[r].pc = "look"
        /\ \E reached \in BOOLEAN :
             LET found == IF reached /\ Live(redis) THEN redis
                          ELSE IF Live(mem[i]) THEN mem[i] ELSE None
             IN  IF found # None
                 THEN /\ snap' = [snap EXCEPT ![i] = found.val]
                      /\ mem' = [mem EXCEPT ![i] = [found EXCEPT !.exp = clock + TTL]]
                      /\ Answer(r, found.val, "cache")
                 ELSE /\ reader' = [reader EXCEPT ![r].pc = "fetch"]
                      /\ UNCHANGED <<mem, snap>>
        /\ UNCHANGED <<clock, db, until, redis, writer, acked>>

\* QueryCache.get: Redis if it answers, else the memory level.  A hit also
\* becomes the snapshot.
Look(r) ==
    LET i == Home[r]
    IN  /\ reader[r].pc = "look"
        /\ \E reached \in BOOLEAN :
             LET found == IF reached /\ Live(redis) THEN redis
                          ELSE IF Live(mem[i]) THEN mem[i] ELSE None
             IN  IF found # None
                 THEN /\ snap' = [snap EXCEPT ![i] = found.val]
                      /\ Answer(r, found.val, "cache")
                 ELSE /\ reader' = [reader EXCEPT ![r].pc = "fetch"]
                      /\ UNCHANGED snap
        /\ UNCHANGED <<clock, db, until, redis, mem, writer, acked>>

Fetch(r) ==
    /\ reader[r].pc = "fetch"
    /\ reader' = [reader EXCEPT ![r].pc = "store", ![r].val = db, ![r].at = clock]
    /\ UNCHANGED <<clock, db, until, redis, mem, snap, writer, acked>>

\* The primary source is out, or its breaker is open: the snapshot, marked as
\* degraded, or the fallback text.  Neither is cached.
FetchFails(r) ==
    /\ reader[r].pc = "fetch"
    /\ IF snap[Home[r]] # None THEN Answer(r, snap[Home[r]], "snapshot")
       ELSE reader' = [reader EXCEPT ![r] = NoQuery]
    /\ UNCHANGED <<clock, db, until, redis, mem, snap, writer, acked>>

\* The snapshot and both levels of the cache; a lost SET is not noticed.
Store(r) ==
    LET i == Home[r]
        e == [val |-> reader[r].val, exp |-> clock + TTL]
    IN  /\ reader[r].pc = "store"
        /\ snap' = [snap EXCEPT ![i] = e.val]
        /\ redis' \in {e, redis}
        /\ mem' = [mem EXCEPT ![i] = e]
        /\ Answer(r, e.val, "api")
        /\ UNCHANGED <<clock, db, until, writer, acked>>

Done(r) ==
    /\ reader[r].pc = "told"
    /\ reader' = [reader EXCEPT ![r] = NoQuery]
    /\ UNCHANGED <<clock, db, until, redis, mem, snap, writer, acked>>

(***************************************************************************)
(* A write tool and its PostToolUse hook                                   *)
(***************************************************************************)
\* The API applies the write; the hook runs only if the tool hears of it.
Write(w) ==
    /\ writer[w] = None /\ db < MaxVersion
    /\ db' = db + 1
    /\ until' = [until EXCEPT ![db] = clock]
    /\ writer' \in {writer, [writer EXCEPT ![w] = db']}
    /\ UNCHANGED <<clock, redis, mem, snap, reader, acked>>

\* invalidate_order_query_cache deletes the Redis entry.
Invalidate(w) ==
    /\ writer[w] # None
    /\ redis' = None
    /\ acked' = IF writer[w] > acked THEN writer[w] ELSE acked
    /\ writer' = [writer EXCEPT ![w] = None]
    /\ UNCHANGED <<clock, db, until, mem, snap, reader>>

\* The DELETE is lost: the hook stays silent.
InvalidateFails(w) ==
    /\ writer[w] # None
    /\ writer' = [writer EXCEPT ![w] = None]
    /\ UNCHANGED <<clock, db, until, redis, mem, snap, reader, acked>>

(***************************************************************************)
(* Time and restarts                                                       *)
(***************************************************************************)
Tick ==
    /\ clock < MaxClock
    /\ \A r \in Reader : /\ reader[r].pc # "told"
                         /\ reader[r].pc = "store" => clock < reader[r].at + Latency
    /\ clock' = clock + 1
    /\ UNCHANGED <<db, until, redis, mem, snap, reader, writer, acked>>

Restart(i) ==
    /\ mem' = [mem EXCEPT ![i] = None]
    /\ snap' = [snap EXCEPT ![i] = None]
    /\ reader' = [r \in Reader |-> IF Home[r] = i THEN NoQuery ELSE reader[r]]
    /\ UNCHANGED <<clock, db, until, redis, writer, acked>>

-----------------------------------------------------------------------------
Next ==
    \/ \E r \in Reader :
        Ask(r) \/ Look(r) \/ Fetch(r) \/ FetchFails(r) \/ Store(r) \/ Done(r)
    \/ \E w \in Writer : Write(w) \/ Invalidate(w) \/ InvalidateFails(w)
    \/ \E i \in Instance : Restart(i)
    \/ Tick

Spec == Init /\ [][Next]_vars

(***************************************************************************)
(* Properties                                                              *)
(***************************************************************************)
CurrentSince(v, t) == until[v] = None \/ until[v] >= t

\* "A short TTL keeps the data at most 60 s old": an answer that is not marked
\* as degraded was the order's state at some time within the TTL and the time
\* its response took, although the levels are filled and read independently,
\* Redis comes and goes and snapshots of any age are about.
AtMostTTLOld ==
    \A r \in Reader : reader[r].pc = "told" /\ reader[r].from # "snapshot" =>
        CurrentSince(reader[r].val, clock - TTL - Latency)

(***************************************************************************)
(* What the documentation says, and the hook does not achieve              *)
(***************************************************************************)
\* "The query cache is invalid at once: a read after a write is fresh": the
\* memory level of every process still holds the old contents, and a query that
\* fetched them before the write stores them after the invalidation.  TLC
\* refutes it.
ReadAfterWriteIsFresh ==
    \A r \in Reader : reader[r].pc = "told" /\ reader[r].from # "snapshot" =>
        reader[r].val >= reader[r].since
=============================================================================
