---------------------------- MODULE AuditArchive ----------------------------
(***************************************************************************)
(* The monthly job audit_archive (platform/scheduler/jobs/                 *)
(* audit_archive.py): it copies last month's audit_logs to a table         *)
(* audit_logs_YYYYmm, compares the counts, and deletes the rows from the   *)
(* main table.  CREATE TABLE commits by itself, the deletion is a second   *)
(* transaction, and the batch lock is only taken while Redis is available. *)
(*                                                                         *)
(* Rows are written all month long; a transaction that spans midnight      *)
(* commits a row of the month before.                                      *)
(***************************************************************************)
EXTENDS Naturals, FiniteSets

CONSTANTS
    Run,          \* runs of the job that may overlap
    Free, Orphan, \* a batch lock that is free, or that nobody will release
    None,         \* no archive table
    MaxMonth,     \* bound: months of a behaviour
    MaxRows       \* bound: audit rows of each month

ASSUME OwnerAssumption == Free \notin Run /\ Orphan \notin Run /\ Free # Orphan
ASSUME BoundAssumption == MaxMonth \in Nat /\ MaxRows \in [0 .. MaxMonth -> Nat]

VARIABLES
    month,        \* the current month
    written,      \* history: the audit rows ever committed
    late,         \* history: those that were committed after their month
    main,         \* audit_logs
    archive,      \* the archive table of each month
    lock,         \* archive:batch:{batch} in Redis
    run           \* the runs: stage, batch, result of the comparison, outcome

vars == <<month, written, late, main, archive, lock, run>>

Month == 0 .. MaxMonth
Row == UNION {[month : {b}, n : 1 .. MaxRows[b]] : b \in Month}
RunState == [pc : {"idle", "check", "lock", "create", "count", "delete", "unlock"},
             batch : Month, outcome : {"none", "success", "skipped", "failed"}]

ASSUME NoneAssumption == \A rows \in SUBSET Row : rows # None

\* Every variable holds a value of the program's own shape.
TypeOK ==
    /\ month \in Month
    /\ written \subseteq Row /\ late \subseteq Row /\ main \subseteq Row
    /\ archive \in [Month -> {None} \cup SUBSET Row]
    /\ lock \in [Month -> Run \cup {Free, Orphan}]
    /\ run \in [Run -> RunState]

Init ==
    /\ month = 0
    /\ written = {} /\ late = {} /\ main = {}
    /\ archive = [b \in Month |-> None]
    /\ lock = [b \in Month |-> Free]
    /\ run = [r \in Run |-> [pc |-> "idle", batch |-> 0, outcome |-> "none"]]

Of(rows, b) == {x \in rows : x.month = b}
Goto(r, p) == run' = [run EXCEPT ![r].pc = p]
Finish(r, o) == run' = [run EXCEPT ![r].pc = "unlock", ![r].outcome = o]

(***************************************************************************)
(* The platform writes audit rows                                          *)
(***************************************************************************)
\* A row of this month, or one of the last month that commits only now.
Write ==
    /\ \E x \in Row \ written :
        /\ x.month = month \/ x.month + 1 = month
        /\ written' = written \cup {x} /\ main' = main \cup {x}
        /\ late' = IF x.month = month THEN late ELSE late \cup {x}
    /\ UNCHANGED <<month, archive, lock, run>>

MonthEnds ==
    /\ month < MaxMonth
    /\ month' = month + 1
    /\ UNCHANGED <<written, late, main, archive, lock, run>>

(***************************************************************************)
(* _archive_batch                                                          *)
(***************************************************************************)
\* The batch is the month before the day the run starts.
Start(r) ==
    /\ run[r].pc = "idle" /\ month > 0
    /\ run' = [run EXCEPT ![r] = [pc |-> "check", batch |-> month - 1, outcome |-> "none"]]
    /\ UNCHANGED <<month, written, late, main, archive, lock>>

\* Changed form of Create: CREATE TABLE IF NOT EXISTS.
CreateIfNotExists(r) ==
    LET b == run[r].batch
    IN  /\ run[r].pc = "create"
        /\ archive' = [archive EXCEPT ![b] = IF @ = None THEN Of(main, b) ELSE @]
        /\ Goto(r, "count")
        /\ UNCHANGED <<month, written, late, main, lock>>

\* Changed form of Create: the table is created empty and filled afterwards.
CreateThenInsert(r) ==
    LET b == run[r].batch
    IN  /\ run[r].pc = "create"
        /\ IF archive[b] = None
           THEN archive' = [archive EXCEPT ![b] = {}] /\ UNCHANGED run
           ELSE archive' = [archive EXCEPT ![b] = Of(main, b)] /\ Goto(r, "count")
        /\ UNCHANGED <<month, written, late, main, lock>>

\* An existing table means that the batch has been archived.
Check(r) ==
    /\ run[r].pc = "check"
    /\ IF archive[run[r].batch] # None
       THEN run' = [run EXCEPT ![r].pc = "idle", ![r].outcome = "skipped"]
       ELSE Goto(r, "lock")
    /\ UNCHANGED <<month, written, late, main, archive, lock>>

TakeLock(r) ==
    /\ run[r].pc = "lock"
    /\ IF lock[run[r].batch] = Free
       THEN lock' = [lock EXCEPT ![run[r].batch] = r] /\ Goto(r, "create")
       ELSE /\ run' = [run EXCEPT ![r].pc = "idle", ![r].outcome = "skipped"]
            /\ UNCHANGED lock
    /\ UNCHANGED <<month, written, late, main, archive>>

\* Redis is not available: the batch goes on without a lock.
GoUnlocked(r) ==
    /\ run[r].pc = "lock"
    /\ Goto(r, "create")
    /\ UNCHANGED <<month, written, late, main, archive, lock>>

\* CREATE TABLE AS SELECT raises when the table exists.
Create(r) ==
    LET b == run[r].batch
    IN  /\ run[r].pc = "create"
        /\ IF archive[b] = None
           THEN archive' = [archive EXCEPT ![b] = Of(main, b)] /\ Goto(r, "count")
           ELSE Finish(r, "failed") /\ UNCHANGED archive
        /\ UNCHANGED <<month, written, late, main, lock>>

\* The counts of the two tables, in one snapshot; a mismatch drops the copy.
Count(r) ==
    LET b == run[r].batch
        archived == IF archive[b] = None THEN {} ELSE archive[b]
    IN  /\ run[r].pc = "count"
        /\ IF Cardinality(archived) = Cardinality(Of(main, b))
           THEN Goto(r, "delete") /\ UNCHANGED archive
           ELSE archive' = [archive EXCEPT ![b] = None] /\ Finish(r, "failed")
        /\ UNCHANGED <<month, written, late, main, lock>>

Delete(r) ==
    /\ run[r].pc = "delete"
    /\ main' = main \ Of(main, run[r].batch)
    /\ Finish(r, "success")
    /\ UNCHANGED <<month, written, late, archive, lock>>

\* finally: the lock is released if it is still the run's and Redis answers.
Unlock(r) ==
    LET b == run[r].batch
    IN  /\ run[r].pc = "unlock"
        /\ lock' \in {lock, [lock EXCEPT ![b] = IF @ = r THEN Free ELSE @]}
        /\ Goto(r, "idle")
        /\ UNCHANGED <<month, written, late, main, archive>>

\* A statement raises, and the finally clause runs.
Raise(r) ==
    /\ run[r].pc \in {"create", "count", "delete"}
    /\ Finish(r, "failed")
    /\ UNCHANGED <<month, written, late, main, archive, lock>>

\* The process stops.
Crash(r) ==
    /\ run[r].pc # "idle"
    /\ run' = [run EXCEPT ![r].pc = "idle", ![r].outcome = "none"]
    /\ lock' = [b \in Month |-> IF lock[b] = r THEN Orphan ELSE lock[b]]
    /\ UNCHANGED <<month, written, late, main, archive>>

\* The lock's 600 seconds are over, whether or not its run is.
ExpireLock ==
    /\ \E b \in Month : lock[b] # Free /\ lock' = [lock EXCEPT ![b] = Free]
    /\ UNCHANGED <<month, written, late, main, archive, run>>

-----------------------------------------------------------------------------
Step(r) ==
    \/ Start(r) \/ Check(r) \/ TakeLock(r) \/ GoUnlocked(r) \/ Create(r)
    \/ Count(r) \/ Delete(r) \/ Unlock(r) \/ Raise(r) \/ Crash(r)

Next == Write \/ MonthEnds \/ ExpireLock \/ \E r \in Run : Step(r)

Spec == Init /\ [][Next]_vars

(***************************************************************************)
(* Properties                                                              *)
(***************************************************************************)
Archived(x) == archive[x.month] # None /\ x \in archive[x.month]

\* No audit record that was committed in its month is lost: whatever overlaps,
\* raises or stops, with or without the lock, it is in the main table or in its
\* archive table.  (A row that commits after the month can be: the deletion sees
\* it, the copy and the comparison may not have.)
NothingLost == \A x \in written \ late : x \in main \/ Archived(x)

\* An archive table is the whole month, also when a second run of the batch
\* meets it half-way: nobody skips a batch on account of a partial copy.
ArchiveIsTheMonth ==
    \A b \in Month : archive[b] # None =>
        Of(written \ late, b) \subseteq archive[b] /\ archive[b] \subseteq Of(written, b)
=============================================================================
