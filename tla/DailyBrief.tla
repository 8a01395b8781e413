----------------------------- MODULE DailyBrief -----------------------------
(***************************************************************************)
(* The daily brief (platform/scheduler/jobs/daily_brief.py) of one date:   *)
(* runs of the job, by cron or by hand, on any instance, one after another *)
(* or at once.  The key in Redis keeps a second run out, until the first   *)
(* fails and gives it up; without Redis a run goes on without it.  Every   *)
(* call can fail, before or after it took effect, and a process can die.   *)
(***************************************************************************)
EXTENDS Naturals

CONSTANTS
    Run,
    User        \* the subscribers: analysts and administrators

VARIABLES
    key,        \* brief:{date}; its 26 h outlast the date
    brief,      \* the row of the date: absent, or its status
    notes,      \* of each user: notifications of the date's title
    run,        \* of each run: its step, whether it took the key, whom it notifies
    keyless     \* history: whether a run has gone on without the key

briefs == <<key, brief, notes, run, keyless>>

RunState == [pc : {"rest", "query", "insert", "push", "notify", "mark"},
             keyed : BOOLEAN, users : SUBSET User]

BriefTypeOK ==
    /\ key \in BOOLEAN /\ keyless \in BOOLEAN
    /\ brief \in {"absent", "generated", "pushed"}
    /\ notes \in [User -> Nat] /\ run \in [Run -> RunState]

BriefInit ==
    /\ key = FALSE /\ brief = "absent" /\ keyless = FALSE
    /\ notes = [u \in User |-> 0]
    /\ run = [r \in Run |-> [pc |-> "rest", keyed |-> FALSE, users |-> {}]]

At(r, pc) == run[r].pc = pc
To(r, pc) == run' = [run EXCEPT ![r].pc = pc]
Begun(r, keyed) == run' = [run EXCEPT ![r] = [pc |-> "query", keyed |-> keyed, users |-> {}]]

\* A run takes the key, or goes on without it because Redis is out.
RunBegins(r) ==
    /\ At(r, "rest") /\ ~key
    /\ key' = TRUE /\ Begun(r, TRUE)
    /\ UNCHANGED <<brief, notes, keyless>>

RunBeginsKeyless(r) ==
    /\ At(r, "rest")
    /\ Begun(r, FALSE) /\ keyless' = TRUE
    /\ UNCHANGED <<key, brief, notes>>

\* SET NX whose answer is lost: "already generated", and nobody has the key.
RunSkips(r) ==
    /\ At(r, "rest")
    /\ key' = TRUE
    /\ UNCHANGED <<brief, notes, run, keyless>>

\* The three questions are answered and the row is looked for.
Queries(r) ==
    /\ At(r, "query")
    /\ To(r, IF brief = "absent" THEN "insert" ELSE "push")
    /\ UNCHANGED <<key, brief, notes, keyless>>

\* brief_date is unique: the insert fails when another run was faster.
Inserts(r) ==
    /\ At(r, "insert") /\ brief = "absent"
    /\ brief' = "generated" /\ To(r, "push")
    /\ UNCHANGED <<key, notes, keyless>>

\* Changed form of Owed: whoever subscribes is notified.
OwedAll == User

\* Whom no run has notified of this title yet.
Owed == {u \in User : notes[u] = 0}

Looks(r) ==
    /\ At(r, "push")
    /\ run' = [run EXCEPT ![r].pc = "notify", ![r].users = Owed]
    /\ UNCHANGED <<key, brief, notes, keyless>>

\* One commit for all of them.
Notifies(r) ==
    /\ At(r, "notify")
    /\ notes' = [u \in User |-> notes[u] + (IF u \in run[r].users THEN 1 ELSE 0)]
    /\ To(r, "mark")
    /\ UNCHANGED <<key, brief, keyless>>

Marks(r) ==
    /\ At(r, "mark")
    /\ brief' = "pushed" /\ To(r, "rest")
    /\ UNCHANGED <<key, notes, keyless>>

\* An exception: a run that took the key gives it up, if Redis answers.
Fails(r) ==
    /\ ~At(r, "rest") /\ To(r, "rest")
    /\ key' \in IF run[r].keyed THEN {FALSE, key} ELSE {key}
    /\ UNCHANGED <<brief, notes, keyless>>

\* The process dies; the key stays.
Dies(r) ==
    /\ ~At(r, "rest") /\ To(r, "rest")
    /\ UNCHANGED <<key, brief, notes, keyless>>

BriefNext == \E r \in Run :
    \/ RunBegins(r) \/ RunBeginsKeyless(r) \/ RunSkips(r)
    \/ Queries(r) \/ Inserts(r) \/ Looks(r) \/ Notifies(r) \/ Marks(r)
    \/ Fails(r) \/ Dies(r)

-----------------------------------------------------------------------------
\* A brief that is marked as pushed has reached every subscriber, whichever run
\* of the date marked it and whichever failed before; and while every run of the
\* date took the key first nobody is notified twice, however often runs failed
\* half way and were repeated.
BriefReachesEachOnce ==
    /\ brief = "pushed" => \A u \in User : notes[u] > 0
    /\ ~keyless => \A u \in User : notes[u] <= 1
=============================================================================
