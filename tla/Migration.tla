----------------------------- MODULE Migration -----------------------------
(***************************************************************************)
(* The move of an older project's files into the platform's database       *)
(* (scripts/migrate_sqlite_to_mysql.py): approvals, feedback, audit lines  *)
(* and the checkpoints of conversations.  It is run by hand, may die       *)
(* anywhere, and is run again, while the platform already works on what    *)
(* has arrived.                                                            *)
(***************************************************************************)
EXTENDS Naturals, Sequences, FiniteSets, SequencesExt

CONSTANTS
    StatusOf,               \* of each approval of the old project: its status there
    FeedbackRow, WithUser,  \* rows of the feedback file; those that name a user
    AuditFile,              \* lines: [stamp, actor]; stamp: event and time
    NoActor,                \* a line without an actor
    Newest,                 \* checkpoints of a thread are 1 .. Newest, in order
    Blobs,                  \* of each checkpoint: the channel versions it holds
    WritesOf,               \* of each checkpoint: its pending writes
    MaxMoves, MaxWarnings   \* bounds: runs, checkpoints that could not be put

ASSUME MigrationAssumption == Newest \in Nat \ {0} /\ WithUser \subseteq FeedbackRow

VARIABLES
    approvals,  \* of each approval: its status in the target, or absent
    rows,       \* of each feedback row: its copies in the target
    lines,      \* of each audit line: its copies in the target
    puts,       \* the checkpoints in the target; Newest + 1 is the platform's own
    blobs,      \* of each channel version: the checkpoint whose value it is, or 0
    writes,     \* pending writes in the target
    move,       \* the run: its step, the checkpoint it is at, its verdict
    warnings,   \* checkpoints that could not be put so far
    moves       \* runs so far

migration == <<approvals, rows, lines, puts, blobs, writes, move, warnings, moves>>

Approvals == DOMAIN StatusOf
SourceCheckpoint == 1 .. Newest
Versions == UNION {Blobs[c] : c \in SourceCheckpoint}
SourceWrites == UNION {{c} \X WritesOf[c] : c \in SourceCheckpoint}

MigrationTypeOK ==
    /\ approvals \in [Approvals -> {"absent", "pending", "approved", "rejected"}]
    /\ rows \in [FeedbackRow -> 0 .. MaxMoves] /\ lines \in [Range(AuditFile) -> 0 .. MaxMoves]
    /\ puts \subseteq 1 .. Newest + 1 /\ blobs \in [Versions -> 0 .. Newest]
    /\ writes \subseteq SourceWrites \cup {<<Newest, "platform">>}
    /\ move \in [pc : {"rest", "approvals", "feedback", "audit", "put", "delete", "write", "verify"},
                 at : 0 .. Newest, verdict : {"none", "ok", "fail"}]
    /\ warnings \in 0 .. MaxWarnings /\ moves \in 0 .. MaxMoves

MigrationInit ==
    /\ approvals = [a \in Approvals |-> "absent"] /\ rows = [r \in FeedbackRow |-> 0]
    /\ lines = [l \in Range(AuditFile) |-> 0]
    /\ puts = {} /\ blobs = [v \in Versions |-> 0] /\ writes = {}
    /\ move = [pc |-> "rest", at |-> 0, verdict |-> "none"]
    /\ warnings = 0 /\ moves = 0

MoveBegins ==
    /\ move.pc = "rest" /\ moves < MaxMoves /\ moves' = moves + 1
    /\ move' = [pc |-> "approvals", at |-> 0, verdict |-> "none"]
    /\ UNCHANGED <<approvals, rows, lines, puts, blobs, writes, warnings>>

\* ON DUPLICATE KEY UPDATE status = VALUES(status): whatever the target said.
Upserted(a) == StatusOf[a]

\* One transaction for all of them.
MigratesApprovals ==
    /\ move.pc = "approvals" /\ move' = [move EXCEPT !.pc = "feedback"]
    /\ approvals' = [a \in Approvals |-> Upserted(a)]
    /\ UNCHANGED <<rows, lines, puts, blobs, writes, warnings, moves>>

\* What the SELECT before an insert finds: "created_by = NULL" holds of no row.
HasRow(r) == r \in WithUser /\ rows[r] > 0

\* One transaction for all rows.
MigratesFeedback ==
    /\ move.pc = "feedback" /\ move' = [move EXCEPT !.pc = "audit"]
    /\ rows' = [r \in FeedbackRow |-> IF HasRow(r) THEN rows[r] ELSE rows[r] + 1]
    /\ UNCHANGED <<approvals, lines, puts, blobs, writes, warnings, moves>>

\* Of the lines with one event and time only the first is read.
Loaded == {AuditFile[i] : i \in {k \in DOMAIN AuditFile :
              \A j \in 1 .. k - 1 : AuditFile[j].stamp # AuditFile[k].stamp}}

HasLine(l) == lines[l] > 0

MigratesAudit ==
    /\ move.pc = "audit" /\ move' = [move EXCEPT !.pc = "put", !.at = Newest]
    /\ lines' = [l \in Range(AuditFile) |->
          IF l \in Loaded /\ ~HasLine(l) THEN lines[l] + 1 ELSE lines[l]]
    /\ UNCHANGED <<approvals, rows, puts, blobs, writes, warnings, moves>>

\* Changed form of Order: the oldest checkpoint first.
OldestFirst(at) == Newest + 1 - at

\* The checkpoint put at each place: the newest first.
Order(at) == at

\* INSERT IGNORE of its channel versions, upsert of the checkpoint, one
\* transaction; an error is a warning.
PutsCheckpoint ==
    LET c == Order(move.at)
    IN  /\ move.pc = "put" /\ move.at > 0 /\ move' = [move EXCEPT !.at = @ - 1]
        /\ \/ /\ puts' = puts \cup {c} /\ UNCHANGED warnings
              /\ blobs' = [v \in Versions |->
                    IF v \in Blobs[c] /\ blobs[v] = 0 THEN c ELSE blobs[v]]
           \/ warnings < MaxWarnings /\ warnings' = warnings + 1 /\ UNCHANGED <<puts, blobs>>
        /\ UNCHANGED <<approvals, rows, lines, writes, moves>>

PutsDone ==
    /\ move.pc = "put" /\ move.at = 0 /\ move' = [move EXCEPT !.pc = "delete"]
    /\ UNCHANGED <<approvals, rows, lines, puts, blobs, writes, warnings, moves>>

\* All writes of the checkpoints that have writes in the source, the platform's
\* too; no transaction holds the deletion and the insertions together.
DeletesWrites ==
    /\ move.pc = "delete" /\ move' = [move EXCEPT !.pc = "write"]
    /\ writes' = {w \in writes : WritesOf[w[1]] = {}}
    /\ UNCHANGED <<approvals, rows, lines, puts, blobs, warnings, moves>>

InsertsWrite ==
    /\ move.pc = "write"
    /\ IF SourceWrites \subseteq writes
       THEN move' = [move EXCEPT !.pc = "verify"] /\ UNCHANGED writes
       ELSE \E w \in SourceWrites \ writes : writes' = writes \cup {w} /\ UNCHANGED move
    /\ UNCHANGED <<approvals, rows, lines, puts, blobs, warnings, moves>>

\* Of each row read from the source there is one in the target.
RowsFound ==
    /\ \A a \in Approvals : approvals[a] # "absent"
    /\ \A r \in FeedbackRow : rows[r] > 0
    /\ \A l \in Loaded : lines[l] > 0

\* And each checkpoint and write, whatever else the platform has.
CheckpointsFound == SourceCheckpoint \subseteq puts /\ SourceWrites \subseteq writes

Verifies ==
    /\ move.pc = "verify"
    /\ move' = [pc |-> "rest", at |-> 0,
                verdict |-> IF RowsFound /\ CheckpointsFound THEN "ok" ELSE "fail"]
    /\ UNCHANGED <<approvals, rows, lines, puts, blobs, writes, warnings, moves>>

\* The connection or the script fails: an open transaction is rolled back.
MoveDies ==
    /\ move.pc # "rest" /\ move' = [pc |-> "rest", at |-> 0, verdict |-> "none"]
    /\ UNCHANGED <<approvals, rows, lines, puts, blobs, writes, warnings, moves>>

\* The platform goes on with the thread from its newest checkpoint.
PlatformResumes ==
    /\ Newest \in puts /\ Newest + 1 \notin puts
    /\ puts' = puts \cup {Newest + 1} /\ writes' = writes \cup {<<Newest, "platform">>}
    /\ UNCHANGED <<approvals, rows, lines, blobs, move, warnings, moves>>

\* And people decide on the platform what is open there.
PlatformDecides(a) ==
    /\ approvals[a] = "pending"
    /\ \E decision \in {"approved", "rejected"} : approvals' = [approvals EXCEPT ![a] = decision]
    /\ UNCHANGED <<rows, lines, puts, blobs, writes, move, warnings, moves>>

MigrationNext ==
    \/ \E a \in Approvals : PlatformDecides(a)
    \/ MoveBegins \/ MigratesApprovals \/ MigratesFeedback \/ MigratesAudit \/ PutsCheckpoint \/ PutsDone
    \/ DeletesWrites \/ InsertsWrite \/ Verifies \/ MoveDies \/ PlatformResumes

-----------------------------------------------------------------------------
\* However often the move is run and wherever a run died: a feedback row that
\* names a user and an audit line are in the target at most once, and no approval
\* is open that was decided before the move; after a run that says all agrees
\* every approval, row, line read, checkpoint and pending write is there, whatever
\* the platform has added meanwhile; and, unless a checkpoint could not be put, a
\* channel version has the value of the newest checkpoint that holds it.
ArrivesOnceAndNewest ==
    /\ \A r \in WithUser : rows[r] <= 1
    /\ \A l \in Range(AuditFile) : lines[l] <= 1
    /\ \A a \in Approvals : approvals[a] = "pending" => StatusOf[a] = "pending"
    /\ move.verdict = "ok" =>
          /\ \A a \in Approvals : approvals[a] # "absent"
          /\ \A r \in FeedbackRow : rows[r] >= 1
          /\ \A l \in Loaded : lines[l] = 1
          /\ SourceCheckpoint \subseteq puts
          /\ \A c \in SourceCheckpoint : {c} \X WritesOf[c] \subseteq writes
    /\ warnings = 0 => \A v \in Versions : blobs[v] # 0 =>
          \A c \in SourceCheckpoint : v \in Blobs[c] => c <= blobs[v]
=============================================================================
