---------------------------- MODULE Idempotency ----------------------------
(***************************************************************************)
(* One idempotency key (shared/reliability/idempotency.py): the calls of   *)
(* execute_idempotent for it.  Its record is a Redis value with a lifetime *)
(* or, for a call of risk "read" that finds Redis out, a row of the SQLite *)
(* file of its process.  A call chooses its store once.                    *)
(***************************************************************************)
EXTENDS Naturals, FiniteSets

CONSTANTS
    Caller,     \* calls of the key
    Host,       \* the processes
    HostOf,     \* of each call: its process
    ReadRisk,   \* the calls of risk "read"; the others are of risk "write"
    MaxLosses   \* bound: outages of Redis and lost answers in a behaviour

ASSUME IdemAssumption ==
    HostOf \in [Caller -> Host] /\ {"nothing", "error", "unavailable"} \cap Caller = {}

VARIABLES
    record,     \* of each store: none, or a status and the call that wrote it
    redisUp,    \* whether Redis answers
    losses,     \* outages and lost answers so far
    cooling,    \* of each process: whether it takes Redis for out without asking
    call,       \* of each call: its step, store, the record it saw, its answer
    returned,   \* history: the calls whose function returned
    lapsed      \* history: whether a record in use has expired, or a claim
                \* was written over a record that was no longer the one seen

idem == <<record, redisUp, losses, cooling, call, returned, lapsed>>

Store == {"redis"} \cup Host
Nothing == [status |-> "NONE"]
Record == {Nothing} \cup [status : {"RUNNING", "FAILED", "SUCCESS"}, by : Caller]
CallState == [pc : {"new", "look", "claim", "reread", "overwrite", "spin", "work", "record",
                    "failed", "end"},
              store : Store, saw : Record, got : {"nothing", "error", "unavailable"} \cup Caller]

IdemTypeOK ==
    /\ record \in [Store -> Record] /\ call \in [Caller -> CallState]
    /\ cooling \in [Host -> BOOLEAN] /\ redisUp \in BOOLEAN /\ losses \in 0 .. MaxLosses
    /\ returned \subseteq Caller /\ lapsed \in BOOLEAN

IdemInit ==
    /\ record = [s \in Store |-> Nothing]
    /\ redisUp = TRUE /\ losses = 0 /\ cooling = [h \in Host |-> FALSE]
    /\ call = [c \in Caller |-> [pc |-> "new", store |-> "redis", saw |-> Nothing, got |-> "nothing"]]
    /\ returned = {} /\ lapsed = FALSE

Is(c, pc) == call[c].pc = pc
GoesTo(c, pc) == call' = [call EXCEPT ![c].pc = pc]
EndsWith(c, got) == call' = [call EXCEPT ![c].pc = "end", ![c].got = got]
Row(c) == record[call[c].store]

\* Whether a command of the call gets its answer.  SQLite always gives one; a
\* command Redis does not answer sets the process cooling.
Answered(c) == call[c].store # "redis" \/ redisUp
Heard(c) == cooling' = IF Answered(c) THEN cooling ELSE [cooling EXCEPT ![HostOf[c]] = TRUE]
\* Redis carried the command out and its answer was lost: the client takes it
\* for a failure.
Unheard(c) ==
    /\ call[c].store = "redis" /\ redisUp /\ losses < MaxLosses
    /\ losses' = losses + 1 /\ cooling' = [cooling EXCEPT ![HostOf[c]] = TRUE]
Writes(c, status) == record' = [record EXCEPT ![call[c].store] = [status |-> status, by |-> c]]

\* resolve_backend: a write is refused when Redis is out, a read goes to SQLite.
Resolves(c) ==
    LET h == HostOf[c]
        available == ~cooling[h] /\ redisUp
    IN  /\ Is(c, "new")
        /\ cooling' = [cooling EXCEPT ![h] = @ \/ ~redisUp]
        /\ \/ available /\ GoesTo(c, "look")
           \/ ~available /\ c \in ReadRisk /\ call' = [call EXCEPT ![c].pc = "look", ![c].store = h]
           \/ ~available /\ c \notin ReadRisk /\ EndsWith(c, "unavailable")
        /\ UNCHANGED <<record, redisUp, losses, returned, lapsed>>

Hit(c) == Answered(c) /\ Row(c).status = "SUCCESS"

LooksUpResult(c) ==
    /\ Is(c, "look") /\ Heard(c)
    /\ IF Hit(c) THEN EndsWith(c, Row(c).by) ELSE GoesTo(c, "claim")
    /\ UNCHANGED <<record, redisUp, losses, returned, lapsed>>

\* SET NX, or the transaction of SQLite, which also takes a failed row.
Claims(c) ==
    /\ Is(c, "claim")
    /\ LET free == Answered(c) /\ \/ Row(c) = Nothing
                                  \/ call[c].store # "redis" /\ Row(c).status = "FAILED"
       IN  IF free
           THEN /\ Writes(c, "RUNNING")
                /\ \/ GoesTo(c, "work") /\ Heard(c) /\ UNCHANGED losses
                   \/ GoesTo(c, "reread") /\ Unheard(c)
           ELSE /\ GoesTo(c, IF call[c].store = "redis" THEN "reread" ELSE "spin")
                /\ Heard(c) /\ UNCHANGED <<record, losses>>
    /\ UNCHANGED <<redisUp, returned, lapsed>>

\* Changed form of MayRetry: a running claim may be taken over as well.
MayRetryRunning(c) == Answered(c) /\ Row(c).status \in {"FAILED", "RUNNING"}

\* Redis has a record: one that failed may be retried.
MayRetry(c) == Answered(c) /\ Row(c).status = "FAILED"

Rereads(c) ==
    /\ Is(c, "reread") /\ Heard(c)
    /\ IF MayRetry(c) THEN call' = [call EXCEPT ![c].pc = "overwrite", ![c].saw = Row(c)]
       ELSE GoesTo(c, "spin")
    /\ UNCHANGED <<record, redisUp, losses, returned, lapsed>>

\* An unconditional SET: nothing says the record is still the one it saw.
Overwrites(c) ==
    /\ Is(c, "overwrite")
    /\ IF Answered(c)
       THEN /\ Writes(c, "RUNNING") /\ lapsed' = (lapsed \/ Row(c) # call[c].saw)
            /\ \/ GoesTo(c, "work") /\ Heard(c) /\ UNCHANGED losses
               \/ GoesTo(c, "spin") /\ Unheard(c)
       ELSE GoesTo(c, "spin") /\ Heard(c) /\ UNCHANGED <<record, losses, lapsed>>
    /\ UNCHANGED <<redisUp, returned>>

\* Twenty looks 10 ms apart, then RuntimeError.
Spins(c) ==
    /\ Is(c, "spin") /\ Heard(c)
    /\ IF Hit(c) THEN EndsWith(c, Row(c).by) ELSE EndsWith(c, "error")
    /\ UNCHANGED <<record, redisUp, losses, returned, lapsed>>

Works(c) ==
    /\ Is(c, "work")
    /\ \/ GoesTo(c, "record") /\ returned' = returned \cup {c}
       \/ GoesTo(c, "failed") /\ UNCHANGED returned
    /\ UNCHANGED <<record, redisUp, losses, cooling, lapsed>>

\* complete and mark_failed set the record whatever it is by now; a Redis that
\* does not answer is not told, and the call ends all the same.
Records(c, status) ==
    /\ IF Answered(c) THEN Writes(c, status) ELSE UNCHANGED record
    /\ Heard(c) /\ UNCHANGED <<redisUp, losses, returned, lapsed>>
Completes(c) == Is(c, "record") /\ Records(c, "SUCCESS") /\ EndsWith(c, c)
MarksFailed(c) == Is(c, "failed") /\ Records(c, "FAILED") /\ EndsWith(c, "error")

\* The lifetime of the value ends; SQLite's rows have none.
Expires ==
    /\ record["redis"] # Nothing /\ record' = [record EXCEPT !["redis"] = Nothing]
    /\ lapsed' = (lapsed \/ record["redis"].status # "FAILED")
    /\ UNCHANGED <<redisUp, losses, cooling, call, returned>>

HostDies(h) ==
    /\ \E c \in Caller : HostOf[c] = h /\ call[c].pc \notin {"new", "end"}
    /\ call' = [c \in Caller |-> IF HostOf[c] = h /\ call[c].pc # "new"
                                 THEN [call[c] EXCEPT !.pc = "end"] ELSE call[c]]
    /\ cooling' = [cooling EXCEPT ![h] = FALSE]
    /\ UNCHANGED <<record, redisUp, losses, returned, lapsed>>

\* Five seconds after the last failure Redis is asked again.
CoolingEnds(h) ==
    /\ cooling[h] /\ cooling' = [cooling EXCEPT ![h] = FALSE]
    /\ UNCHANGED <<record, redisUp, losses, call, returned, lapsed>>

RedisChanges ==
    /\ redisUp' = ~redisUp /\ losses' = IF redisUp THEN losses + 1 ELSE losses
    /\ losses' <= MaxLosses
    /\ UNCHANGED <<record, cooling, call, returned, lapsed>>

IdemNext ==
    \/ \E c \in Caller :
          \/ Resolves(c) \/ LooksUpResult(c) \/ Claims(c) \/ Rereads(c) \/ Overwrites(c)
          \/ Spins(c) \/ Works(c) \/ Completes(c) \/ MarksFailed(c)
    \/ \E h \in Host : HostDies(h) \/ CoolingEnds(h)
    \/ Expires \/ RedisChanges

-----------------------------------------------------------------------------
\* Of the calls that share a store the function of at most one returns, and
\* a call is never answered with a result that no function returned: across
\* crashes, lost answers and outages of Redis, until a record in use lapses.
DoneOnce == \A s \in Store : (s = "redis" => ~lapsed) =>
    /\ Cardinality({c \in returned : call[c].store = s}) <= 1
    /\ \A c \in Caller : call[c].store = s /\ call[c].got \in Caller => call[c].got \in returned
=============================================================================
