------------------------------ MODULE JobRuns ------------------------------
(***************************************************************************)
(* One scheduled job on every instance: the entry point _run_job and its   *)
(* rows in scheduler_job_runs (platform/scheduler/__init__.py), under the  *)
(* leader lock (platform/scheduler/leader.py).                             *)
(*                                                                         *)
(* Every instance fires the job at its trigger points, and a manual        *)
(* trigger adds a firing of its own.  A firing takes lock:job:{name} in    *)
(* Redis or, when Redis is unavailable, a lock of its own process.  The    *)
(* Redis lock has a TTL and is never renewed: it may expire under a job    *)
(* that runs on.  A row is named by the second the lock was got or missed. *)
(***************************************************************************)
CONSTANTS
    Instance,     \* processes that run the scheduler
    Firing,       \* firings of the job in flight: a cron and a manual one each
    Home,         \* the instance of each firing
    NoOwner,      \* the lock is free
    NoRun,        \* the firing has no run id yet
    Orphan,       \* the lock is held by an owner that will not release it
    Second        \* bound: seconds that name rows

ASSUME HomeAssumption == Home \in [Firing -> Instance]
ASSUME OwnerAssumption == NoOwner \notin Firing /\ Orphan \notin Firing /\ NoOwner # Orphan
ASSUME SecondAssumption == Second # {}

VARIABLES
    lock,         \* owner of lock:job:{name}
    local,        \* per instance, holder of the asyncio.Lock of the fallback
    row,          \* scheduler_job_runs: status by run id
    pc,           \* stage of each firing
    run,          \* run id of each firing, once it has one
    expired,      \* history: the Redis lock expired while the firing held it
    stuck         \* history: run ids whose final status was never written

vars == <<lock, local, row, pc, run, expired, stuck>>

RunId == Instance \X Second      \* the job is fixed
Stage == {"idle", "start", "queued", "open", "work", "close", "release", "skip"}
Executing == {"open", "work", "close", "release"}

\* Every variable holds a value of the program's own shape.
TypeOK ==
    /\ lock \in Firing \cup {NoOwner, Orphan}
    /\ local \in [Instance -> Firing \cup {NoOwner}]
    /\ row \in [RunId -> {"none", "running", "success", "failed", "skipped"}]
    /\ pc \in [Firing -> Stage]
    /\ run \in [Firing -> RunId \cup {NoRun}]
    /\ expired \in [Firing -> BOOLEAN]
    /\ stuck \subseteq RunId

Init ==
    /\ lock = NoOwner
    /\ local = [i \in Instance |-> NoOwner]
    /\ row = [r \in RunId |-> "none"]
    /\ pc = [f \in Firing |-> "idle"]
    /\ run = [f \in Firing |-> NoRun]
    /\ expired = [f \in Firing |-> FALSE]
    /\ stuck = {}

Goto(f, p) == pc' = [pc EXCEPT ![f] = p]

\* The firing is over, and its locals with it.
End(f) ==
    /\ Goto(f, "idle")
    /\ run' = [run EXCEPT ![f] = NoRun]
    /\ expired' = [expired EXCEPT ![f] = FALSE]

\* The firing holds its process's lock rather than the Redis one.
Local(f) == local[Home[f]] = f

\* _make_run_id, when the firing has got the lock or has missed it.
Name(f) == \E now \in Second : run' = [run EXCEPT ![f] = <<Home[f], now>>]

\* _record: the row is inserted or updated; a failing database is only logged.
Record(f, status) == row' \in {row, [row EXCEPT ![run[f]] = status]}

Fire(f) ==
    /\ pc[f] = "idle"
    /\ Goto(f, "start")
    /\ UNCHANGED <<lock, local, row, run, expired, stuck>>

(***************************************************************************)
(* leader_lock                                                             *)
(***************************************************************************)
\* Changed form of Acquire: SET without NX.
AcquireOverwriting(f) ==
    /\ pc[f] = "start"
    /\ lock' = f
    /\ Goto(f, "open") /\ Name(f)
    /\ UNCHANGED <<local, row, expired, stuck>>

\* SET NX EX answers: the firing owns the lock, or is skipped.
Acquire(f) ==
    /\ pc[f] = "start"
    /\ IF lock = NoOwner
       THEN /\ lock' = f
            /\ Goto(f, "open")
       ELSE /\ Goto(f, "skip")
            /\ UNCHANGED lock
    /\ Name(f)
    /\ UNCHANGED <<local, row, expired, stuck>>

\* SET NX EX raises, and reads as "held by another": the lock may be taken.
AcquireRaises(f) ==
    /\ pc[f] = "start"
    /\ lock' \in {lock} \cup (IF lock = NoOwner THEN {Orphan} ELSE {})
    /\ Goto(f, "skip") /\ Name(f)
    /\ UNCHANGED <<local, row, expired, stuck>>

\* Redis is unavailable: the firings of a process queue for its own lock.
FallBack(f) ==
    /\ pc[f] = "start"
    /\ Goto(f, "queued")
    /\ UNCHANGED <<lock, local, row, run, expired, stuck>>

AcquireLocal(f) ==
    /\ pc[f] = "queued" /\ local[Home[f]] = NoOwner
    /\ local' = [local EXCEPT ![Home[f]] = f]
    /\ Goto(f, "open") /\ Name(f)
    /\ UNCHANGED <<lock, row, expired, stuck>>

\* Changed form of Release: a plain DEL, whoever owns the lock by then.
ReleaseUnchecked(f) ==
    /\ pc[f] = "release"
    /\ IF Local(f)
       THEN local' = [local EXCEPT ![Home[f]] = NoOwner] /\ UNCHANGED lock
       ELSE lock' = NoOwner /\ UNCHANGED local
    /\ End(f)
    /\ UNCHANGED <<row, stuck>>

\* async with ends, or delete_if_equals: only the owner's own lock goes, and
\* not even that when Redis fails.
Release(f) ==
    /\ pc[f] = "release"
    /\ IF Local(f)
       THEN local' = [local EXCEPT ![Home[f]] = NoOwner] /\ UNCHANGED lock
       ELSE lock' \in (IF lock = f THEN {NoOwner, Orphan} ELSE {lock}) /\ UNCHANGED local
    /\ End(f)
    /\ UNCHANGED <<row, stuck>>

\* Changed form of Expire: SET NX without EX.
ExpireNever == FALSE /\ UNCHANGED vars

Expire ==
    /\ lock # NoOwner
    /\ lock' = NoOwner
    /\ expired' = [f \in Firing |-> expired[f] \/ lock = f]
    /\ UNCHANGED <<local, row, pc, run, stuck>>

(***************************************************************************)
(* _run_job under the lock                                                 *)
(***************************************************************************)
RecordRunning(f) ==
    /\ pc[f] = "open"
    /\ Record(f, "running")
    /\ Goto(f, "work")
    /\ UNCHANGED <<lock, local, run, expired, stuck>>

Work(f) ==
    /\ pc[f] = "work"
    /\ Goto(f, "close")
    /\ UNCHANGED <<lock, local, row, run, expired, stuck>>

\* Changed form of RecordOutcome: a job that raises leaves without a record.
RecordSuccessOnly(f) ==
    /\ pc[f] = "close"
    /\ \/ /\ Record(f, "success")
          /\ stuck' = IF row'[run[f]] = "success" THEN stuck ELSE stuck \cup {run[f]}
       \/ UNCHANGED <<row, stuck>>
    /\ Goto(f, "release")
    /\ UNCHANGED <<lock, local, run, expired>>

\* The job has returned, or it has raised or returned status failed.
RecordOutcome(f) ==
    /\ pc[f] = "close"
    /\ \E outcome \in {"success", "failed"} :
        /\ Record(f, outcome)
        /\ stuck' = IF row'[run[f]] = outcome THEN stuck ELSE stuck \cup {run[f]}
    /\ Goto(f, "release")
    /\ UNCHANGED <<lock, local, run, expired>>

RecordSkip(f) ==
    /\ pc[f] = "skip"
    /\ Record(f, "skipped")
    /\ End(f)
    /\ UNCHANGED <<lock, local, stuck>>

(***************************************************************************)
(* The instance stops: shutdown does not wait                              *)
(***************************************************************************)
\* A graceful stop cancels the tasks, whose finally releases the lock; a crash
\* does not.  Neither records an outcome.
Stop(i) ==
    LET gone == {f \in Firing : Home[f] = i}
    IN  /\ \E f \in gone : pc[f] # "idle"
        /\ pc' = [f \in Firing |-> IF f \in gone THEN "idle" ELSE pc[f]]
        /\ lock' \in IF lock \in gone THEN {NoOwner, Orphan} ELSE {lock}
        /\ local' = [local EXCEPT ![i] = NoOwner]
        /\ stuck' = stuck \cup {run[f] : f \in {g \in gone : pc[g] \in {"work", "close"}}}
        /\ run' = [f \in Firing |-> IF f \in gone THEN NoRun ELSE run[f]]
        /\ expired' = [f \in Firing |-> expired[f] /\ f \notin gone]
        /\ UNCHANGED row

-----------------------------------------------------------------------------
Proceed(f) ==
    \/ Acquire(f) \/ AcquireRaises(f) \/ FallBack(f) \/ Release(f)
    \/ RecordRunning(f) \/ Work(f) \/ RecordOutcome(f) \/ RecordSkip(f)

Next ==
    \/ \E f \in Firing : Fire(f) \/ Proceed(f) \/ AcquireLocal(f)
    \/ \E i \in Instance : Stop(i)
    \/ Expire

\* A job ends, an asyncio.Lock serves its waiters in turn, a TTL runs out.
Fairness ==
    /\ \A f \in Firing : WF_vars(Proceed(f)) /\ SF_vars(AcquireLocal(f))
    /\ WF_vars(Expire)

Spec == Init /\ [][Next]_vars /\ Fairness

(***************************************************************************)
(* Properties                                                              *)
(***************************************************************************)
\* What the leader lock does guarantee: two firings execute at the same time
\* only if one of them outlived its Redis lock, or one of them ran under a
\* process's own lock while Redis was unavailable to it -- and never two under
\* the same lock.
ExclusiveUnlessOverrun ==
    \A f, g \in Firing :
        f # g /\ pc[f] \in Executing /\ pc[g] \in Executing =>
            \/ Local(f) # Local(g)
            \/ Local(f) /\ Local(g) /\ Home[f] # Home[g]
            \/ ~Local(f) /\ ~Local(g) /\ (expired[f] \/ expired[g])

\* A firing under the Redis lock that has not outlived it still owns it: no
\* other firing's late release has taken it away (the owner check).
LockIsNotStolen ==
    \A f \in Firing : pc[f] \in Executing /\ ~Local(f) /\ ~expired[f] => lock = f

\* A row that says "running" has a firing at work on it, or belongs to a run
\* whose end could not be recorded (the instance stopped, the database failed).
RunningMeansRunning ==
    \A r \in RunId : row[r] = "running" =>
        r \in stuck \/ \E f \in Firing : run[f] = r /\ pc[f] \in {"work", "close"}

\* The job cannot be locked out for good: whatever crashes and lost commands
\* came before, once they stop, a job that is fired again
\* and again (by any firing) is executed again and again.
Fault ==
    \/ lock = NoOwner /\ \E f \in Firing : AcquireRaises(f)
    \/ \E i \in Instance :
        /\ Stop(i)
        /\ \E f \in Firing : Home[f] = i /\ pc[f] \notin {"idle", "release", "skip"}
JobRunsAgain ==
    <>[][~Fault]_vars /\ (\E f \in Firing : []<>(pc[f] = "start")) =>
        []<>(\E f \in Firing : pc[f] = "work")
=============================================================================
