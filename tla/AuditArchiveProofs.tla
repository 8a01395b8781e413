-------------------------- MODULE AuditArchiveProofs --------------------------
(***************************************************************************)
(* Proofs about AuditArchive for any number of overlapping runs, months    *)
(* and rows.  The argument: CREATE TABLE AS SELECT raises when the table   *)
(* exists, so at most one run of a batch is past it; that run is the only  *)
(* one that drops the table or deletes the rows, and it never does both.   *)
(***************************************************************************)
EXTENDS AuditArchive, TLAPS

Timely(b) == Of(written \ late, b)
Holds(r, b) == run[r].batch = b /\ run[r].pc \in {"count", "delete"}

\* Rows are in the main table and in the archives because they were committed; a
\* batch is a month that is over, so no more of its rows are timely.
Sources ==
    /\ main \subseteq written
    /\ late \subseteq written
    /\ \A x \in written \ late : x.month <= month
    /\ \A r \in Run : run[r].pc # "idle" => run[r].batch < month
    /\ \A b \in Month : archive[b] # None => b < month

\* A run past the creation of its table is the only one of its batch.
OneHolder ==
    \A r \in Run, b \in Month : Holds(r, b) =>
        /\ archive[b] # None
        /\ \A q \in Run : Holds(q, b) => q = r

\* Without an archive table, and until the comparison has passed, the main table
\* still has the month.
MainHasIt ==
    \A b \in Month :
        archive[b] = None \/ (\E r \in Run : Holds(r, b) /\ run[r].pc = "count") =>
            Timely(b) \subseteq main

IInv == TypeOK /\ Sources /\ OneHolder /\ MainHasIt /\ ArchiveIsTheMonth

LEMMA RowMonth == \A x \in Row : x.month \in Month
BY DEF Row

LEMMA InitIInv == Init => IInv
BY OwnerAssumption, BoundAssumption, NoneAssumption
   DEF Init, IInv, TypeOK, Sources, OneHolder, MainHasIt, ArchiveIsTheMonth, Holds,
       Timely, Of, Month, RunState

LEMMA WriteStep ==
    ASSUME IInv, Write
    PROVE  IInv'
<1> USE BoundAssumption, NoneAssumption DEF Write
<1>1. TypeOK'
    BY DEF IInv, TypeOK
<1>2. Sources'
    BY RowMonth DEF IInv, TypeOK, Sources, Month
<1>3. OneHolder'
    BY DEF IInv, OneHolder, Holds
<1>4. MainHasIt'
    BY DEF IInv, MainHasIt, Holds, Timely, Of
<1>5. ArchiveIsTheMonth'
    BY RowMonth DEF IInv, TypeOK, Sources, ArchiveIsTheMonth, Of, Month
<1> QED
    BY <1>1, <1>2, <1>3, <1>4, <1>5 DEF IInv

LEMMA MonthEndsStep ==
    ASSUME IInv, MonthEnds
    PROVE  IInv'
<1> USE BoundAssumption, NoneAssumption DEF MonthEnds
<1>1. TypeOK'
    BY DEF IInv, TypeOK, Month
<1>2. Sources'
    BY RowMonth DEF IInv, TypeOK, Sources, Month, RunState
<1>3. OneHolder' /\ MainHasIt' /\ ArchiveIsTheMonth'
    BY DEF IInv, OneHolder, MainHasIt, ArchiveIsTheMonth, Holds, Timely, Of
<1> QED
    BY <1>1, <1>2, <1>3 DEF IInv

LEMMA ExpireLockStep ==
    ASSUME IInv, ExpireLock
    PROVE  IInv'
BY DEF ExpireLock, IInv, TypeOK, Sources, OneHolder, MainHasIt, ArchiveIsTheMonth, Holds,
       Timely, Of

\* A step of one run that leaves the rows and tables alone, and takes it neither
\* past the creation of its table nor back from the deletion.
Quietly(r) ==
    /\ run' = [run EXCEPT ![r] = run'[r]]
    /\ run'[r] \in RunState
    /\ run'[r].pc # "idle" => run'[r].batch < month
    /\ run'[r].pc \in {"count", "delete"} => run'[r] = run[r]
    /\ lock' \in [Month -> Run \cup {Free, Orphan}]
    /\ UNCHANGED <<month, written, late, main, archive>>

LEMMA QuietStep ==
    ASSUME IInv, NEW r \in Run, Quietly(r)
    PROVE  IInv'
<1>1. TypeOK'
    BY DEF IInv, TypeOK, Quietly
<1>2. Sources'
    BY DEF IInv, TypeOK, Sources, Quietly
<1>3. \A q \in Run, b \in Month : Holds(q, b)' => Holds(q, b) /\ run'[q] = run[q]
    BY DEF IInv, TypeOK, Quietly, Holds
<1>4. OneHolder'
    BY <1>3 DEF IInv, OneHolder, Quietly
<1>5. MainHasIt'
    BY <1>3 DEF IInv, MainHasIt, Quietly, Timely, Of
<1>6. ArchiveIsTheMonth'
    BY DEF IInv, ArchiveIsTheMonth, Quietly, Of
<1> QED
    BY <1>1, <1>2, <1>4, <1>5, <1>6 DEF IInv

LEMMA QuietActions ==
    ASSUME IInv, NEW r \in Run,
           \/ Start(r) \/ Check(r) \/ TakeLock(r) \/ GoUnlocked(r) \/ Unlock(r)
           \/ Raise(r) \/ Crash(r)
    PROVE  Quietly(r)
<1> USE BoundAssumption DEF IInv, TypeOK, Quietly, RunState
<1>1. CASE Start(r)
    BY <1>1 DEF Start, Month
<1>2. CASE Check(r)
    BY <1>2 DEF Check, Goto, Sources
<1>3. CASE TakeLock(r)
    BY <1>3, SMTT(30) DEF TakeLock, Goto, Sources
<1>4. CASE GoUnlocked(r)
    BY <1>4 DEF GoUnlocked, Goto, Sources
<1>5. CASE Unlock(r)
    BY <1>5 DEF Unlock, Goto, Sources
<1>6. CASE Raise(r)
    BY <1>6 DEF Raise, Finish, Sources
<1>7. CASE Crash(r)
    <2>1. lock' \in [Month -> Run \cup {Free, Orphan}]
        BY <1>7 DEF Crash
    <2>2. /\ run' = [run EXCEPT ![r].pc = "idle", ![r].outcome = "none"]
          /\ UNCHANGED <<month, written, late, main, archive>>
        BY <1>7 DEF Crash
    <2>3. /\ run' = [run EXCEPT ![r] = run'[r]]
          /\ run'[r] \in RunState
          /\ run'[r].pc = "idle"
        BY <2>2
    <2> QED
        BY <2>1, <2>2, <2>3
<1> QED
    BY <1>1, <1>2, <1>3, <1>4, <1>5, <1>6, <1>7

LEMMA CreateStep ==
    ASSUME IInv, NEW r \in Run, Create(r)
    PROVE  IInv'
<1> DEFINE b == run[r].batch
<1>1. b \in Month /\ b < month /\ run[r] \in RunState /\ run[r].pc = "create"
    BY DEF IInv, TypeOK, Sources, RunState, Create
<1>2. CASE archive[b] # None
    <2>1. Quietly(r)
        BY <1>1, <1>2 DEF IInv, TypeOK, Quietly, RunState, Create, Finish
    <2> QED
        BY <2>1, QuietStep
<1>3. CASE archive[b] = None
    <2>1. /\ archive' = [archive EXCEPT ![b] = Of(main, b)]
          /\ run' = [run EXCEPT ![r].pc = "count"]
          /\ UNCHANGED <<month, written, late, main, lock>>
        BY <1>3 DEF Create, Goto
    <2>2. Of(main, b) \in SUBSET Row
        BY DEF IInv, TypeOK, Of
    <2>3. TypeOK'
        BY <1>1, <2>1, <2>2 DEF IInv, TypeOK, RunState
    <2>4. Sources'
        BY <1>1, <2>1 DEF IInv, TypeOK, Sources, RunState
    <2>5. \A q \in Run, c \in Month :
             Holds(q, c)' => IF q = r THEN c = b ELSE c # b /\ Holds(q, c)
        <3>1. ASSUME NEW q \in Run, NEW c \in Month, q # r, Holds(q, c)'
              PROVE  Holds(q, c) /\ c # b
            <4>1. run'[q] = run[q]
                BY <2>1, <3>1 DEF IInv, TypeOK
            <4>2. Holds(q, c)
                BY <3>1, <4>1 DEF Holds
            <4> QED
                BY <1>3, <4>2 DEF IInv, OneHolder
        <3>2. ASSUME NEW c \in Month, Holds(r, c)'
              PROVE  c = b
            BY <1>1, <2>1, <3>2 DEF IInv, TypeOK, RunState, Holds
        <3> QED
            BY <3>1, <3>2
    <2>6. archive'[b] # None /\ \A c \in Month \ {b} : archive'[c] = archive[c]
        BY <1>1, <2>1, <2>2, NoneAssumption DEF IInv, TypeOK
    <2>7. OneHolder'
        BY <2>5, <2>6 DEF IInv, OneHolder
    <2>8. Timely(b) \subseteq main
        BY <1>1, <1>3 DEF IInv, MainHasIt
    <2>9. MainHasIt'
        <3>1. \A q \in Run : q # r => run'[q] = run[q]
            BY <2>1 DEF IInv, TypeOK
        <3>2. \A c \in Month : Timely(c)' = Timely(c)
            BY <2>1 DEF Timely, Of
        <3>3. ASSUME NEW c \in Month, c # b,
                     archive'[c] = None \/ \E q \in Run : Holds(q, c)' /\ run'[q].pc = "count"
              PROVE  Timely(c) \subseteq main
            BY <2>5, <2>6, <3>1, <3>3 DEF IInv, MainHasIt
        <3> QED
            BY <2>1, <2>8, <3>2, <3>3 DEF MainHasIt
    <2>10. ArchiveIsTheMonth'
        BY <1>1, <2>1, <2>6, <2>8 DEF IInv, TypeOK, Sources, ArchiveIsTheMonth, Timely, Of
    <2> QED
        BY <2>3, <2>4, <2>7, <2>9, <2>10 DEF IInv
<1> QED
    BY <1>2, <1>3

LEMMA CountStep ==
    ASSUME IInv, NEW r \in Run, Count(r)
    PROVE  IInv'
<1> DEFINE b == run[r].batch
<1>1. b \in Month /\ b < month /\ run[r] \in RunState /\ run[r].pc = "count" /\ Holds(r, b)
    BY DEF IInv, TypeOK, Sources, RunState, Count, Holds
<1>2. Timely(b) \subseteq main
    BY <1>1 DEF IInv, MainHasIt
<1>3. \A q \in Run : Holds(q, b) => q = r
    BY <1>1 DEF IInv, OneHolder
<1>4. UNCHANGED <<month, written, late, main, lock>>
    BY DEF Count
<1>5. CASE run' = [run EXCEPT ![r].pc = "delete"] /\ archive' = archive
    <2>1. TypeOK'
        BY <1>1, <1>4, <1>5 DEF IInv, TypeOK, RunState
    <2>2. Sources'
        BY <1>1, <1>4, <1>5 DEF IInv, TypeOK, Sources, RunState
    <2>3. \A q \in Run, c \in Month :
             /\ Holds(q, c)' => Holds(q, c)
             /\ run'[q].pc = "count" => run[q].pc = "count"
        BY <1>1, <1>5 DEF IInv, TypeOK, Holds, RunState
    <2>4. OneHolder'
        BY <1>5, <2>3 DEF IInv, OneHolder
    <2>5. MainHasIt'
        BY <1>4, <1>5, <2>3 DEF IInv, MainHasIt, Timely, Of
    <2>6. ArchiveIsTheMonth'
        BY <1>4, <1>5 DEF IInv, ArchiveIsTheMonth, Of
    <2> QED
        BY <2>1, <2>2, <2>4, <2>5, <2>6 DEF IInv
<1>6. CASE /\ run' = [run EXCEPT ![r].pc = "unlock", ![r].outcome = "failed"]
           /\ archive' = [archive EXCEPT ![b] = None]
    <2>1. TypeOK'
        BY <1>1, <1>4, <1>6 DEF IInv, TypeOK, RunState
    <2>2. archive'[b] = None /\ \A c \in Month \ {b} : archive'[c] = archive[c]
        BY <1>1, <1>6 DEF IInv, TypeOK
    <2>3. Sources'
        BY <1>1, <1>4, <1>6, <2>2 DEF IInv, TypeOK, Sources, RunState
    <2>4. \A q \in Run, c \in Month :
             Holds(q, c)' => q # r /\ c # b /\ Holds(q, c) /\ run'[q] = run[q]
        BY <1>1, <1>3, <1>6 DEF IInv, TypeOK, Holds, RunState
    <2>5. OneHolder'
        BY <2>2, <2>4 DEF IInv, OneHolder
    <2>6. MainHasIt'
        BY <1>2, <1>4, <2>2, <2>4 DEF IInv, MainHasIt, Timely, Of
    <2>7. ArchiveIsTheMonth'
        BY <1>4, <2>2 DEF IInv, ArchiveIsTheMonth, Of
    <2> QED
        BY <2>1, <2>3, <2>5, <2>6, <2>7 DEF IInv
<1> QED
    BY <1>5, <1>6 DEF Count, Goto, Finish

LEMMA DeleteStep ==
    ASSUME IInv, NEW r \in Run, Delete(r)
    PROVE  IInv'
<1> DEFINE b == run[r].batch
<1>1. b \in Month /\ b < month /\ run[r] \in RunState /\ run[r].pc = "delete" /\ Holds(r, b)
    BY DEF IInv, TypeOK, Sources, RunState, Delete, Holds
<1>2. archive[b] # None /\ \A q \in Run : Holds(q, b) => q = r
    BY <1>1 DEF IInv, OneHolder
<1>3. /\ main' = main \ Of(main, b)
      /\ run' = [run EXCEPT ![r].pc = "unlock", ![r].outcome = "success"]
      /\ UNCHANGED <<month, written, late, archive, lock>>
    BY DEF Delete, Finish
<1>4. TypeOK'
    BY <1>1, <1>3 DEF IInv, TypeOK, RunState
<1>5. Sources'
    BY <1>1, <1>3 DEF IInv, TypeOK, Sources, RunState
<1>6. \A q \in Run, c \in Month :
         Holds(q, c)' => q # r /\ c # b /\ Holds(q, c) /\ run'[q] = run[q]
    BY <1>1, <1>2, <1>3 DEF IInv, TypeOK, Holds, RunState
<1>7. OneHolder'
    BY <1>3, <1>6 DEF IInv, OneHolder
<1>8. \A c \in Month \ {b} : Timely(c) \subseteq main => Timely(c) \subseteq main'
    BY <1>3 DEF Timely, Of
<1>9. MainHasIt'
    <2>1. \A c \in Month : Timely(c)' = Timely(c)
        BY <1>3 DEF Timely, Of
    <2>2. ASSUME NEW c \in Month,
                 archive'[c] = None \/ \E q \in Run : Holds(q, c)' /\ run'[q].pc = "count"
          PROVE  c # b /\ Timely(c) \subseteq main
        BY <1>2, <1>3, <1>6, <2>2 DEF IInv, MainHasIt
    <2> QED
        BY <1>8, <2>1, <2>2 DEF MainHasIt
<1>10. ArchiveIsTheMonth'
    BY <1>3 DEF IInv, ArchiveIsTheMonth, Of
<1> QED
    BY <1>4, <1>5, <1>7, <1>9, <1>10 DEF IInv

LEMMA NextIInv == IInv /\ [Next]_vars => IInv'
<1> SUFFICES ASSUME IInv, [Next]_vars
             PROVE  IInv'
    OBVIOUS
<1>1. ASSUME NEW r \in Run, Step(r)
      PROVE  IInv'
    BY <1>1, QuietActions, QuietStep, CreateStep, CountStep, DeleteStep DEF Step
<1>2. CASE UNCHANGED vars
    BY <1>2 DEF vars, IInv, TypeOK, Sources, OneHolder, MainHasIt, ArchiveIsTheMonth,
       Holds, Timely, Of
<1> QED
    BY <1>1, <1>2, WriteStep, MonthEndsStep, ExpireLockStep DEF Next

\* The invariant holds in every reachable state.
THEOREM Invariance == Spec => []IInv
<1> QED
    BY InitIInv, NextIInv, PTL DEF Spec

\* Every reachable state of tables, locks and runs is well typed.
THEOREM TypeCorrect == Spec => []TypeOK
<1>1. IInv => TypeOK
    BY DEF IInv
<1> QED
    BY <1>1, Invariance, PTL

\* A committed row of the month is never lost, however many runs of _archive_batch
\* overlap and wherever they raise or stop.
THEOREM RowsAreKept == Spec => []NothingLost
<1>1. IInv => NothingLost
    BY RowMonth DEF IInv, TypeOK, MainHasIt, ArchiveIsTheMonth, NothingLost, Archived, Timely, Of
<1> QED
    BY <1>1, Invariance, PTL

\* An archive table is never partial: nobody skips a batch on account of a table
\* that lacks a timely row.
THEOREM ArchivesAreWhole == Spec => []ArchiveIsTheMonth
<1>1. IInv => ArchiveIsTheMonth
    BY DEF IInv
<1> QED
    BY <1>1, Invariance, PTL
=============================================================================
