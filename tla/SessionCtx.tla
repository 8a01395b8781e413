----------------------------- MODULE SessionCtx -----------------------------
(***************************************************************************)
(* The context of one data conversation (domains/data/session_ctx.py): its *)
(* last turns live in Redis; each instance keeps a copy it may answer from *)
(* for L1Life, and a list of its own for the time Redis cannot be reached. *)
(* Turns are numbered in the order they were recorded.  A reader only ever *)
(* looks at the last turn, so the copies hold that one.                    *)
(*                                                                         *)
(* Redis may fail at any call: the call then goes by the instance's own    *)
(* list, and nothing is merged when Redis is back.  Between the script in  *)
(* Redis and what the instance does with its answer other instances go on, *)
(* and the answer may be lost.                                             *)
(***************************************************************************)
EXTENDS Naturals, Sequences, FiniteSets

CONSTANTS
    Backend,    \* processes of the service
    MaxTurns,    \* DEFAULT_MAX_TURNS: turns Redis keeps
    L1Life,      \* L1_TTL_SECONDS, in ticks
    CallLife,    \* REDIS_SOCKET_TIMEOUT: the longest a caller waits for a script, in ticks
    MaxTurn      \* bound: turns of a behaviour

ASSUME SessionAssumption ==
    MaxTurns \in Nat \ {0} /\ L1Life \in Nat /\ CallLife \in Nat /\ MaxTurn \in Nat

VARIABLES
    sess,       \* nl2sql:sess:{owner}:{session_id}: the turns kept
    l1,          \* _L1 of each instance: last turn and remaining life
    local,       \* _LOCAL_TURNS of each instance: last turn (0: none)
    age,         \* history: the turns ever recorded, with their age
    inRedis,      \* history: the turns that reached Redis
    expired      \* history: the last turn Redis had when the key expired

session == <<sess, l1, local, age, inRedis, expired>>

Turn == 1 .. MaxTurn
Stale == L1Life + CallLife   \* ages above it are not told apart
NoCopy == [turn |-> 0, life |-> 0]
Copy == [turn : Turn, life : 0 .. L1Life] \cup {NoCopy}
LastTurn(turns) == IF turns = <<>> THEN 0 ELSE turns[Len(turns)]

SessionTypeOK ==
    /\ sess \in Seq(Turn) /\ Len(sess) <= MaxTurns
    /\ l1 \in [Backend -> Copy]
    /\ local \in [Backend -> 0 .. MaxTurn]
    /\ age \in Seq(0 .. Stale + 1) /\ Len(age) <= MaxTurn
    /\ inRedis \subseteq Turn
    /\ expired \in 0 .. MaxTurn

SessionInit ==
    /\ sess = <<>> /\ age = <<>> /\ inRedis = {} /\ expired = 0
    /\ l1 = [i \in Backend |-> NoCopy]
    /\ local = [i \in Backend |-> 0]

\* Changed form of AppendTurn: the newest turn is first, as with LPUSH and LTRIM.
AppendAtFront(turns, t) ==
    LET all == <<t>> \o turns
    IN  IF Len(all) > MaxTurns THEN SubSeq(all, 1, MaxTurns) ELSE all

\* The Lua script: append, drop the oldest turns beyond MaxTurns.
AppendTurn(turns, t) ==
    LET all == Append(turns, t)
    IN  IF Len(all) > MaxTurns THEN SubSeq(all, Len(all) - MaxTurns + 1, Len(all)) ELSE all

L1Set(i, t) == l1' = [l1 EXCEPT ![i] = [turn |-> t, life |-> L1Life]]

NewTurn(t) == t = Len(age) + 1 /\ t <= MaxTurn /\ age' = Append(age, 0)

\* SessionContext.record: the script runs in Redis ...
AppendRuns(t) ==
    /\ NewTurn(t)
    /\ sess' = AppendTurn(sess, t) /\ inRedis' = inRedis \cup {t}
    /\ UNCHANGED <<l1, local, expired>>

\* ... and what it returned becomes the copy; ...
AppendAnswered(i, t) == L1Set(i, t) /\ UNCHANGED <<sess, local, age, inRedis, expired>>

\* ... or its answer is lost, and the turn is in the instance's list, too.
AppendLost(i, t) ==
    /\ local' = [local EXCEPT ![i] = t] /\ L1Set(i, t)
    /\ UNCHANGED <<sess, age, inRedis, expired>>

\* The script does not get to Redis.
AppendFails(i, t) ==
    /\ NewTurn(t)
    /\ local' = [local EXCEPT ![i] = t] /\ L1Set(i, t)
    /\ UNCHANGED <<sess, inRedis, expired>>

\* Changed form of RecentFromCopy: a copy that is gone is taken for a first turn.
MissIsFirstTurn(i, t) == t = l1[i].turn /\ UNCHANGED session

\* SessionContext.recent: the last turn is that of the copy, ...
RecentFromCopy(i, t) == l1[i] # NoCopy /\ t = l1[i].turn /\ UNCHANGED session

\* ... or that of Redis, ...
RecentReads(i, t) == l1[i] = NoCopy /\ t = LastTurn(sess) /\ UNCHANGED session

\* ... of whose list a copy is made, if there is one; ...
RecentAnswered(i, t) ==
    /\ IF t = 0 THEN UNCHANGED l1 ELSE L1Set(i, t)
    /\ UNCHANGED <<sess, local, age, inRedis, expired>>

\* ... or, without an answer of Redis, that of the instance's list.
RecentLocal(i, t) == t = local[i] /\ UNCHANGED session

\* Time passes: copies die, turns grow old.
SessionTick ==
    /\ l1' = [i \in Backend |-> IF l1[i].life = 0 THEN NoCopy
                                 ELSE [l1[i] EXCEPT !.life = @ - 1]]
    /\ age' = [t \in 1 .. Len(age) |-> IF age[t] > Stale THEN age[t] ELSE age[t] + 1]
    /\ UNCHANGED <<sess, local, inRedis, expired>>

\* The conversation was idle for DEFAULT_TTL_SECONDS.
Expire ==
    /\ sess # <<>>
    /\ \A t \in 1 .. Len(age) : age[t] > Stale
    /\ sess' = <<>> /\ expired' = LastTurn(sess)
    /\ UNCHANGED <<l1, local, age, inRedis>>

-----------------------------------------------------------------------------
\* Redis holds the last turns that reached it, in order: no turn is lost to
\* another instance that appended at the same time (_APPEND_TURN_LUA).
RedisHoldsTheLastTurns ==
    LET kept == {t \in inRedis : t > expired}
    IN  /\ {sess[n] : n \in 1 .. Len(sess)} =
              {t \in kept : Cardinality({u \in kept : u > t}) < MaxTurns}
        /\ \A m, n \in 1 .. Len(sess) : m < n => sess[m] < sess[n]
=============================================================================
