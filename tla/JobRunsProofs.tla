--------------------------- MODULE JobRunsProofs ---------------------------
(***************************************************************************)
(* Proofs about JobRuns for any instances and firings, and any placement   *)
(* of the firings on the instances.                                        *)
(***************************************************************************)
EXTENDS JobRuns, TLAPS

\* Whoever holds a lock, of its process or in Redis, executes; a firing that
\* executes holds one of the two or has outlived the Redis one; and it has named
\* its row.  Only executing firings are marked as having outlived their lock.
HoldersExecute ==
    /\ \A i \in Instance : local[i] # NoOwner =>
          /\ Home[local[i]] = i
          /\ pc[local[i]] \in Executing
    /\ \A f \in Firing : lock = f => pc[f] \in Executing /\ ~Local(f) /\ ~expired[f]

Named == \A f \in Firing : pc[f] \in Executing \cup {"skip"} => run[f] \in RunId

Fresh == \A f \in Firing : expired[f] => pc[f] \in Executing

IInv ==
    /\ TypeOK
    /\ HoldersExecute
    /\ Named
    /\ Fresh
    /\ LockIsNotStolen
    /\ RunningMeansRunning

(***************************************************************************)
(* Every action keeps the invariant.                                       *)
(***************************************************************************)
LEMMA InitIInv == Init => IInv
BY HomeAssumption, OwnerAssumption
   DEF Init, IInv, TypeOK, HoldersExecute, Named, Fresh, LockIsNotStolen,
       RunningMeansRunning, Stage, Executing, Local

\* A firing that gets its name gets a run id, and no other firing's changes.
LEMMA NameFacts ==
    ASSUME TypeOK, NEW f \in Firing, Name(f)
    PROVE  /\ run' \in [Firing -> RunId \cup {NoRun}]
           /\ run'[f] \in RunId
           /\ \A g \in Firing \ {f} : run'[g] = run[g]
<1>1. PICK now \in Second : run' = [run EXCEPT ![f] = <<Home[f], now>>]
    BY DEF Name
<1>2. <<Home[f], now>> \in RunId
    BY HomeAssumption DEF RunId
<1> QED
    BY <1>1, <1>2 DEF TypeOK

LEMMA FireStep ==
    ASSUME IInv, NEW f \in Firing, Fire(f)
    PROVE  IInv'
<1> USE HomeAssumption, OwnerAssumption DEF Fire, Goto
<1>1. TypeOK'
    BY DEF IInv, TypeOK, Named, RunId, Stage, Executing
<1>2. HoldersExecute'
    BY DEF IInv, TypeOK, HoldersExecute, Fresh, Executing, Local
<1>3. Named'
    BY DEF IInv, TypeOK, Named, RunId, Executing
<1>4. Fresh'
    BY DEF IInv, TypeOK, Fresh, Executing
<1>5. LockIsNotStolen'
    BY DEF IInv, TypeOK, HoldersExecute, LockIsNotStolen, Executing, Local
<1>6. RunningMeansRunning'
    BY DEF IInv, TypeOK, Named, RunningMeansRunning, Executing
<1> QED
    BY <1>1, <1>2, <1>3, <1>4, <1>5, <1>6 DEF IInv

LEMMA AcquireStep ==
    ASSUME IInv, NEW f \in Firing, Acquire(f)
    PROVE  IInv'
<1> USE HomeAssumption, OwnerAssumption DEF Acquire, Goto
<1>1. TypeOK'
    BY NameFacts DEF IInv, TypeOK, Stage, Executing
<1>2. HoldersExecute'
    BY DEF IInv, TypeOK, HoldersExecute, Fresh, Executing, Local
<1>3. Named'
    BY NameFacts DEF IInv, TypeOK, Named, Executing
<1>4. Fresh'
    BY DEF IInv, TypeOK, Fresh, Executing
<1>5. LockIsNotStolen'
    BY DEF IInv, TypeOK, HoldersExecute, LockIsNotStolen, Executing, Local
<1>6. RunningMeansRunning'
    BY NameFacts DEF IInv, TypeOK, RunningMeansRunning, Executing
<1> QED
    BY <1>1, <1>2, <1>3, <1>4, <1>5, <1>6 DEF IInv

LEMMA AcquireRaisesStep ==
    ASSUME IInv, NEW f \in Firing, AcquireRaises(f)
    PROVE  IInv'
<1> USE HomeAssumption, OwnerAssumption DEF AcquireRaises, Goto
<1>1. TypeOK'
    BY NameFacts DEF IInv, TypeOK, Stage, Executing
<1>2. HoldersExecute'
    BY DEF IInv, TypeOK, HoldersExecute, Fresh, Executing, Local
<1>3. Named'
    BY NameFacts DEF IInv, TypeOK, Named, Executing
<1>4. Fresh'
    BY DEF IInv, TypeOK, Fresh, Executing
<1>5. LockIsNotStolen'
    BY DEF IInv, TypeOK, HoldersExecute, LockIsNotStolen, Executing, Local
<1>6. RunningMeansRunning'
    BY NameFacts DEF IInv, TypeOK, RunningMeansRunning, Executing
<1> QED
    BY <1>1, <1>2, <1>3, <1>4, <1>5, <1>6 DEF IInv

LEMMA FallBackStep ==
    ASSUME IInv, NEW f \in Firing, FallBack(f)
    PROVE  IInv'
<1> USE HomeAssumption, OwnerAssumption DEF FallBack, Goto
<1>1. TypeOK'
    BY DEF IInv, TypeOK, Named, RunId, Stage, Executing
<1>2. HoldersExecute'
    BY DEF IInv, TypeOK, HoldersExecute, Fresh, Executing, Local
<1>3. Named'
    BY DEF IInv, TypeOK, Named, RunId, Executing
<1>4. Fresh'
    BY DEF IInv, TypeOK, Fresh, Executing
<1>5. LockIsNotStolen'
    BY DEF IInv, TypeOK, HoldersExecute, LockIsNotStolen, Executing, Local
<1>6. RunningMeansRunning'
    BY DEF IInv, TypeOK, Named, RunningMeansRunning, Executing
<1> QED
    BY <1>1, <1>2, <1>3, <1>4, <1>5, <1>6 DEF IInv

LEMMA AcquireLocalStep ==
    ASSUME IInv, NEW f \in Firing, AcquireLocal(f)
    PROVE  IInv'
<1> USE HomeAssumption, OwnerAssumption DEF AcquireLocal, Goto
<1>1. TypeOK'
    BY NameFacts DEF IInv, TypeOK, Stage, Executing
<1>2. HoldersExecute'
    BY DEF IInv, TypeOK, HoldersExecute, Fresh, Executing, Local
<1>3. Named'
    BY NameFacts DEF IInv, TypeOK, Named, Executing
<1>4. Fresh'
    BY DEF IInv, TypeOK, Fresh, Executing
<1>5. LockIsNotStolen'
    <2> SUFFICES ASSUME NEW g \in Firing, pc'[g] \in Executing, ~Local(g)', ~expired'[g]
                 PROVE  lock' = g
        BY DEF LockIsNotStolen
    <2>1. local'[Home[f]] = f
        BY DEF IInv, TypeOK
    <2>2. g # f
        BY <2>1 DEF Local
    <2>3. pc[g] = pc'[g] /\ ~Local(g)
        BY <2>2 DEF IInv, TypeOK, Local
    <2> QED
        BY <2>3 DEF IInv, LockIsNotStolen
<1>6. RunningMeansRunning'
    BY NameFacts DEF IInv, TypeOK, RunningMeansRunning, Executing
<1> QED
    BY <1>1, <1>2, <1>3, <1>4, <1>5, <1>6 DEF IInv

LEMMA ReleaseStep ==
    ASSUME IInv, NEW f \in Firing, Release(f)
    PROVE  IInv'
<1> USE HomeAssumption, OwnerAssumption DEF Release, Goto, End, Local
<1>1. TypeOK'
    BY DEF IInv, TypeOK, Named, RunId, Stage, Executing
<1>2. HoldersExecute'
    <2>1. ASSUME NEW i \in Instance, local'[i] # NoOwner
          PROVE  Home[local'[i]] = i /\ pc'[local'[i]] \in Executing
        <3>1. local'[i] = local[i] /\ local[i] # NoOwner
            BY <2>1 DEF IInv, TypeOK
        <3>2. local[i] # f
            BY <2>1, <3>1 DEF IInv, TypeOK, HoldersExecute
        <3> QED
            BY <3>1, <3>2 DEF IInv, TypeOK, HoldersExecute
    <2>2. ASSUME NEW g \in Firing, lock' = g
          PROVE  pc'[g] \in Executing /\ ~Local(g)' /\ ~expired'[g]
        <3>1. lock = g /\ g # f
            BY <2>2 DEF IInv, TypeOK, HoldersExecute
        <3>2. pc'[g] = pc[g] /\ expired'[g] = expired[g]
            BY <3>1 DEF IInv, TypeOK
        <3>3. local[Home[g]] # g
            BY <3>1 DEF IInv, HoldersExecute
        <3>4. local'[Home[g]] # g
            BY <3>3 DEF IInv, TypeOK
        <3> QED
            BY <3>1, <3>2, <3>4 DEF IInv, HoldersExecute
    <2> QED
        BY <2>1, <2>2 DEF HoldersExecute
<1>3. Named'
    BY DEF IInv, TypeOK, Named, RunId, Executing
<1>4. Fresh'
    BY DEF IInv, TypeOK, Fresh, Executing
<1>5. LockIsNotStolen'
    <2> SUFFICES ASSUME NEW g \in Firing, pc'[g] \in Executing, ~Local(g)', ~expired'[g]
                 PROVE  lock' = g
        BY DEF LockIsNotStolen
    <2>1. g # f /\ pc[g] = pc'[g] /\ expired[g] = expired'[g]
        BY DEF IInv, TypeOK, Executing
    <2>2. ~Local(g)
        BY <2>1 DEF IInv, TypeOK
    <2>3. lock = g
        BY <2>1, <2>2 DEF IInv, LockIsNotStolen
    <2> QED
        BY <2>1, <2>3
<1>6. RunningMeansRunning'
    BY DEF IInv, TypeOK, Named, RunningMeansRunning, Executing
<1> QED
    BY <1>1, <1>2, <1>3, <1>4, <1>5, <1>6 DEF IInv

LEMMA RecordRunningStep ==
    ASSUME IInv, NEW f \in Firing, RecordRunning(f)
    PROVE  IInv'
<1> USE HomeAssumption, OwnerAssumption DEF RecordRunning, Goto, Record
<1>1. TypeOK'
    BY DEF IInv, TypeOK, Named, RunId, Stage, Executing
<1>2. HoldersExecute'
    BY DEF IInv, TypeOK, HoldersExecute, Fresh, Executing, Local
<1>3. Named'
    BY DEF IInv, TypeOK, Named, RunId, Executing
<1>4. Fresh'
    BY DEF IInv, TypeOK, Fresh, Executing
<1>5. LockIsNotStolen'
    BY DEF IInv, TypeOK, HoldersExecute, LockIsNotStolen, Executing, Local
<1>6. RunningMeansRunning'
    BY DEF IInv, TypeOK, Named, RunningMeansRunning, Executing
<1> QED
    BY <1>1, <1>2, <1>3, <1>4, <1>5, <1>6 DEF IInv

LEMMA WorkStep ==
    ASSUME IInv, NEW f \in Firing, Work(f)
    PROVE  IInv'
<1> USE HomeAssumption, OwnerAssumption DEF Work, Goto
<1>1. TypeOK'
    BY DEF IInv, TypeOK, Named, RunId, Stage, Executing
<1>2. HoldersExecute'
    BY DEF IInv, TypeOK, HoldersExecute, Fresh, Executing, Local
<1>3. Named'
    BY DEF IInv, TypeOK, Named, RunId, Executing
<1>4. Fresh'
    BY DEF IInv, TypeOK, Fresh, Executing
<1>5. LockIsNotStolen'
    BY DEF IInv, TypeOK, HoldersExecute, LockIsNotStolen, Executing, Local
<1>6. RunningMeansRunning'
    BY DEF IInv, TypeOK, Named, RunningMeansRunning, Executing
<1> QED
    BY <1>1, <1>2, <1>3, <1>4, <1>5, <1>6 DEF IInv

LEMMA RecordOutcomeStep ==
    ASSUME IInv, NEW f \in Firing, RecordOutcome(f)
    PROVE  IInv'
<1> USE HomeAssumption, OwnerAssumption DEF RecordOutcome, Goto, Record
<1>1. TypeOK'
    BY DEF IInv, TypeOK, Named, RunId, Stage, Executing
<1>2. HoldersExecute'
    BY DEF IInv, TypeOK, HoldersExecute, Fresh, Executing, Local
<1>3. Named'
    BY DEF IInv, TypeOK, Named, RunId, Executing
<1>4. Fresh'
    BY DEF IInv, TypeOK, Fresh, Executing
<1>5. LockIsNotStolen'
    BY DEF IInv, TypeOK, HoldersExecute, LockIsNotStolen, Executing, Local
<1>6. RunningMeansRunning'
    BY DEF IInv, TypeOK, Named, RunningMeansRunning, Executing
<1> QED
    BY <1>1, <1>2, <1>3, <1>4, <1>5, <1>6 DEF IInv

LEMMA RecordSkipStep ==
    ASSUME IInv, NEW f \in Firing, RecordSkip(f)
    PROVE  IInv'
<1> USE HomeAssumption, OwnerAssumption DEF RecordSkip, Goto, End, Record
<1>1. TypeOK'
    BY DEF IInv, TypeOK, Named, RunId, Stage, Executing
<1>2. HoldersExecute'
    BY DEF IInv, TypeOK, HoldersExecute, Fresh, Executing, Local
<1>3. Named'
    BY DEF IInv, TypeOK, Named, RunId, Executing
<1>4. Fresh'
    BY DEF IInv, TypeOK, Fresh, Executing
<1>5. LockIsNotStolen'
    BY DEF IInv, TypeOK, HoldersExecute, LockIsNotStolen, Executing, Local
<1>6. RunningMeansRunning'
    BY DEF IInv, TypeOK, Named, RunningMeansRunning, Executing
<1> QED
    BY <1>1, <1>2, <1>3, <1>4, <1>5, <1>6 DEF IInv

LEMMA StopStep ==
    ASSUME IInv, NEW i \in Instance, Stop(i)
    PROVE  IInv'
<1> USE HomeAssumption, OwnerAssumption DEF Stop
<1>1. TypeOK'
    BY DEF IInv, TypeOK, Named, RunId, Stage, Executing
<1>2. HoldersExecute'
    BY DEF IInv, TypeOK, HoldersExecute, Fresh, Executing, Local
<1>3. Named'
    BY DEF IInv, TypeOK, Named, RunId, Executing
<1>4. Fresh'
    BY DEF IInv, TypeOK, HoldersExecute, Fresh, Executing
<1>5. LockIsNotStolen'
    BY DEF IInv, TypeOK, HoldersExecute, LockIsNotStolen, Executing, Local
<1>6. RunningMeansRunning'
    BY DEF IInv, TypeOK, Named, RunningMeansRunning, Executing
<1> QED
    BY <1>1, <1>2, <1>3, <1>4, <1>5, <1>6 DEF IInv

LEMMA ExpireStep ==
    ASSUME IInv, Expire
    PROVE  IInv'
<1> USE HomeAssumption, OwnerAssumption DEF Expire
<1>1. TypeOK'
    BY DEF IInv, TypeOK, Named, RunId, Stage, Executing
<1>2. HoldersExecute'
    BY DEF IInv, TypeOK, HoldersExecute, Fresh, Executing, Local
<1>3. Named'
    BY DEF IInv, TypeOK, Named, RunId, Executing
<1>4. Fresh'
    BY DEF IInv, TypeOK, HoldersExecute, Fresh, Executing
<1>5. LockIsNotStolen'
    BY DEF IInv, TypeOK, HoldersExecute, LockIsNotStolen, Executing, Local
<1>6. RunningMeansRunning'
    BY DEF IInv, TypeOK, Named, RunningMeansRunning, Executing
<1> QED
    BY <1>1, <1>2, <1>3, <1>4, <1>5, <1>6 DEF IInv

(***************************************************************************)
(* Results                                                                 *)
(***************************************************************************)
LEMMA NextIInv == IInv /\ [Next]_vars => IInv'
<1> SUFFICES ASSUME IInv, [Next]_vars
             PROVE  IInv'
    OBVIOUS
<1>1. ASSUME NEW f \in Firing, Fire(f) \/ Proceed(f) \/ AcquireLocal(f)
      PROVE  IInv'
    BY <1>1, FireStep, AcquireStep, AcquireRaisesStep, FallBackStep, AcquireLocalStep,
       ReleaseStep, RecordRunningStep, WorkStep, RecordOutcomeStep, RecordSkipStep
       DEF Proceed
<1>2. ASSUME NEW i \in Instance, Stop(i)
      PROVE  IInv'
    BY <1>2, StopStep
<1>3. CASE Expire
    BY <1>3, ExpireStep
<1>4. CASE UNCHANGED vars
    BY <1>4 DEF vars, IInv, TypeOK, HoldersExecute, Named, Fresh, LockIsNotStolen,
       RunningMeansRunning, Local
<1> QED
    BY <1>1, <1>2, <1>3, <1>4 DEF Next

\* The invariant holds in every reachable state.
THEOREM Invariance == Spec => []IInv
<1>1. Init => IInv
    BY InitIInv
<1>2. IInv /\ [Next]_vars => IInv'
    BY NextIInv
<1> QED
    BY <1>1, <1>2, PTL DEF Spec

\* Every reachable state of lock, fallback, rows and firings is well typed.
THEOREM TypeCorrect == Spec => []TypeOK
<1>1. IInv => TypeOK
    BY DEF IInv
<1> QED
    BY <1>1, Invariance, PTL

\* Nobody takes a firing's Redis lock from it before its TTL does (the owner check
\* of delete_if_equals).
THEOREM LocksAreNotStolen == Spec => []LockIsNotStolen
<1>1. IInv => LockIsNotStolen
    BY DEF IInv
<1> QED
    BY <1>1, Invariance, PTL

\* Two firings execute together only after an overrun, or under different locks:
\* whoever executes within its TTL is the one owner of its lock.
THEOREM Exclusion == Spec => []ExclusiveUnlessOverrun
<1>1. IInv => ExclusiveUnlessOverrun
    BY DEF IInv, ExclusiveUnlessOverrun, LockIsNotStolen, Local
<1> QED
    BY <1>1, Invariance, PTL

\* A row that says "running" is being worked on, or its end was never recorded
\* (_record swallows errors, shutdown does not wait).
THEOREM RunningRows == Spec => []RunningMeansRunning
<1>1. IInv => RunningMeansRunning
    BY DEF IInv
<1> QED
    BY <1>1, Invariance, PTL
=============================================================================
