--------------------------- MODULE OpsFlowProofs ---------------------------
(***************************************************************************)
(* Proofs about OpsFlow for every value of its constants.  The invariants  *)
(* of the write path are not inductive on their own: they depend on what   *)
(* each request carries from one step to the next, which RequestOK says.   *)
(***************************************************************************)
EXTENDS OpsFlow, TLAPS

GateStep == {"query", "find", "insert", "suspend", "decide", "commit"}

\* What a request in flight knows: its turn, that a gate step is about a write,
\* that its row names its call, that past the gate the row is decided, what its
\* miss in the order API saw, and that a success it is about to report is real.
RequestOK(r) ==
    r # Idle =>
        /\ r.turn \in 1 .. Len(turns)
        /\ turns[r.turn] = [session |-> r.session, call |-> r.call]
        /\ r.pc \in GateStep \cup {"apply"} => IsWrite(r.call)
        /\ r.pc \in {"query", "find", "insert"} => r.row = NoRow
        /\ r.pc \in {"query", "find", "insert"} => r.key = FreshKey
        /\ r.pc \in {"suspend", "decide", "commit"} => r.row # NoRow
        /\ r.row # NoRow => RowNames(r.row, r.session, r.call)
        /\ r.pc \in {"execute", "apply"} /\ r.row # NoRow =>
              /\ r.decision = "approve"
              /\ ~Pending(r.row)
              /\ r.key = IdemKey(r.session, r.call)
        /\ r.pc \in {"execute", "apply"} /\ r.row = NoRow => r.key = FreshKey
        /\ r.pc = "apply" =>
              /\ r.mark \in 0 .. Len(effects)
              /\ r.key # FreshKey => \A i \in 1 .. r.mark : effects[i].key # r.key
        /\ r.pc = "respond" /\ IsWrite(r.call) /\ r.result = "ok" =>
              TargetWritten(r.session, r.call)

RequestsOK == \A p \in Proc : RequestOK(req[p])

\* A thread waits in the gate of a write turn of its own session.
ThreadsOK ==
    \A s \in Session : thread[s].stage = "interrupted" =>
        /\ thread[s].turn \in 1 .. Len(turns)
        /\ turns[thread[s].turn].session = s
        /\ IsWrite(turns[thread[s].turn].call)
        /\ thread[s].form # NoRow
        /\ RowNames(thread[s].form, s, turns[thread[s].turn].call)

\* The idempotency store knows every keyed write, and only writes that were made.
StoreOK ==
    /\ \A i \in Keyed : idem[effects[i].key] # Unclear
    /\ \A k \in Key : idem[k] # Unclear =>
          \E i \in DOMAIN effects :
              /\ effects[i].session = k[1]
              /\ effects[i].call.tool = k[2]
              /\ effects[i].call.order = k[3]

IInv ==
    /\ TypeOK
    /\ RequestsOK
    /\ ThreadsOK
    /\ StoreOK
    /\ GatedWriteIsAuthorised
    /\ RetryDoesNotRepeatWrite

(***************************************************************************)
(* Constants                                                               *)
(***************************************************************************)
LEMMA KeyFacts ==
    /\ FreshKey \notin Key
    /\ Unclear \notin Call
    /\ Idle \notin Request
    /\ Free \notin Row
    /\ \A s \in Session, c \in Call : IsWrite(c) => IdemKey(s, c) \in Key
    /\ ~IsWrite(Unclear)
BY DEF FreshKey, Key, Unclear, Call, Tool, WriteTool, Idle, Request, Step, Free, Row,
       IdemKey, IsWrite

LEMMA SeqFacts ==
    ASSUME NEW S, NEW s \in Seq(S)
    PROVE  /\ Len(s) \in Nat
           /\ DOMAIN s = 1 .. Len(s)
           /\ \A i \in 1 .. Len(s) : s[i] \in S
OBVIOUS

LEMMA AppendFacts ==
    ASSUME NEW S, NEW s \in Seq(S), NEW e \in S
    PROVE  /\ Append(s, e) \in Seq(S)
           /\ Len(Append(s, e)) = Len(s) + 1
           /\ Len(s) \in Nat
           /\ DOMAIN s = 1 .. Len(s)
           /\ DOMAIN Append(s, e) = 1 .. Len(s) + 1
           /\ \A i \in 1 .. Len(s) : Append(s, e)[i] = s[i] /\ s[i] \in S
           /\ Append(s, e)[Len(s) + 1] = e
OBVIOUS

(***************************************************************************)
(* What no step takes back: turns and applied writes stay where they are,  *)
(* rows stay in the table, keep their contents and keep a decision.        *)
(***************************************************************************)
Grow ==
    /\ Len(turns) <= Len(turns')
    /\ \A n \in 1 .. Len(turns) : turns'[n] = turns[n]
    /\ Len(effects) <= Len(effects')
    /\ \A i \in 1 .. Len(effects) : effects'[i] = effects[i]
    /\ \A id \in ApprovalId : approval[id] # Free =>
          /\ approval'[id] # Free
          /\ approval'[id].session = approval[id].session
          /\ approval'[id].call = approval[id].call
          /\ ~Pending(id) => approval'[id] = approval[id]

LEMMA GrowKeepsRow ==
    ASSUME Grow, NEW id \in ApprovalId, NEW s, NEW c, RowNames(id, s, c)
    PROVE  /\ RowNames(id, s, c)'
           /\ ~Pending(id) => ~Pending(id)'
BY DEF Grow, RowNames, Pending, IdemKey

\* A request that is not served in a step keeps what it knows.
LEMMA GrowKeepsRequest ==
    ASSUME TypeOK, Grow, NEW p \in Proc, req'[p] = req[p], RequestOK(req[p])
    PROVE  RequestOK(req[p])'
<1> DEFINE r == req[p]
<1> SUFFICES ASSUME r # Idle
             PROVE  RequestOK(req[p])'
    BY DEF RequestOK
<1>1. /\ r \in Request
      /\ Len(turns) \in Nat /\ Len(turns') >= Len(turns)
      /\ Len(effects) \in Nat
      /\ DOMAIN effects = 1 .. Len(effects)
    BY DEF TypeOK, Grow
<1>2. r.turn \in 1 .. Len(turns') /\ turns'[r.turn] = turns[r.turn]
    BY <1>1 DEF RequestOK, Grow
<1>3. r.row # NoRow =>
        /\ RowNames(r.row, r.session, r.call)'
        /\ ~Pending(r.row) => ~Pending(r.row)'
    BY <1>1 DEF RequestOK, Request, Grow, RowNames, Pending, IdemKey
<1>4. r.pc = "apply" =>
        /\ r.mark \in 0 .. Len(effects')
        /\ r.key # FreshKey => \A i \in 1 .. r.mark : effects'[i].key # r.key
    BY <1>1 DEF RequestOK, Grow
<1>5. TargetWritten(r.session, r.call) => TargetWritten(r.session, r.call)'
    BY <1>1 DEF TargetWritten, Grow
<1> QED
    BY <1>1, <1>2, <1>3, <1>4, <1>5 DEF RequestOK

\* A thread that is not written in a step keeps its form.
LEMMA GrowKeepsThread ==
    ASSUME TypeOK, Grow, NEW s \in Session, thread'[s] = thread[s],
           thread[s].stage = "interrupted" =>
               /\ thread[s].turn \in 1 .. Len(turns)
               /\ turns[thread[s].turn].session = s
               /\ IsWrite(turns[thread[s].turn].call)
               /\ thread[s].form # NoRow
               /\ RowNames(thread[s].form, s, turns[thread[s].turn].call)
    PROVE  thread'[s].stage = "interrupted" =>
               /\ thread'[s].turn \in 1 .. Len(turns')
               /\ turns'[thread'[s].turn].session = s
               /\ IsWrite(turns'[thread'[s].turn].call)
               /\ thread'[s].form # NoRow
               /\ RowNames(thread[s].form, s, turns[thread[s].turn].call)'
<1>1. thread[s] \in Checkpoint /\ Len(turns) \in Nat /\ Len(turns') >= Len(turns)
    BY DEF TypeOK, Grow
<1> SUFFICES ASSUME thread[s].stage = "interrupted"
             PROVE  /\ thread[s].turn \in 1 .. Len(turns')
                    /\ turns'[thread[s].turn].session = s
                    /\ IsWrite(turns'[thread[s].turn].call)
                    /\ thread[s].form # NoRow
                    /\ RowNames(thread[s].form, s, turns[thread[s].turn].call)'
    OBVIOUS
<1>2. thread[s].turn \in 1 .. Len(turns') /\ turns'[thread[s].turn] = turns[thread[s].turn]
    BY <1>1 DEF Grow
<1>3. thread[s].form \in ApprovalId
    BY <1>1 DEF Checkpoint
<1>4. RowNames(thread[s].form, s, turns[thread[s].turn].call)'
    BY <1>2, <1>3, GrowKeepsRow DEF RowNames
<1> QED BY <1>2, <1>4

\* Most steps only move one request on.
LEMMA LocalStep ==
    ASSUME IInv, TypeOK', NEW p \in Proc,
           \A q \in Proc \ {p} : req'[q] = req[q],
           RequestOK(req[p])',
           UNCHANGED <<turns, thread, approval, idem, effects>>
    PROVE  IInv'
<1>1. Grow
    BY DEF IInv, TypeOK, Grow, Pending
<1>2. RequestsOK'
    <2> SUFFICES ASSUME NEW q \in Proc
                 PROVE  RequestOK(req[q])'
        BY DEF RequestsOK
    <2>1. CASE q = p
        BY <2>1
    <2>2. CASE q # p
        BY <2>2, <1>1, GrowKeepsRequest DEF IInv, RequestsOK
    <2> QED
        BY <2>1, <2>2
<1>3. ThreadsOK' /\ StoreOK'
    BY DEF IInv, ThreadsOK, StoreOK, RowNames, Keyed
<1>4. GatedWriteIsAuthorised' /\ RetryDoesNotRepeatWrite'
    BY DEF IInv, GatedWriteIsAuthorised, RetryDoesNotRepeatWrite, RowNames, Gated, Keyed, Pending
<1> QED
    BY <1>2, <1>3, <1>4 DEF IInv

\* A request of which some fields change is still a request.
LEMMA RequestFields ==
    ASSUME NEW r \in Request
    PROVE  /\ \A pc \in Step : [r EXCEPT !.pc = pc] \in Request
           /\ \A row \in ApprovalId : [r EXCEPT !.row = row] \in Request
           /\ \A key \in Key : [r EXCEPT !.key = key] \in Request
           /\ \A mark \in Nat : [r EXCEPT !.mark = mark] \in Request
           /\ \A result \in {"none", "ok", "failed"} : [r EXCEPT !.result = result] \in Request
BY DEF Request

LEMMA GotoTypes ==
    ASSUME TypeOK, NEW p \in Proc, NEW pc \in Step, Active(p), Goto(p, pc),
           UNCHANGED <<turns, reply, thread, approval, idem, effects, posts>>
    PROVE  TypeOK'
<1>1. req[p] \in Request
    BY DEF TypeOK, Active, Idle
<1>2. req' = [req EXCEPT ![p] = [req[p] EXCEPT !.pc = pc]]
    BY <1>1 DEF Goto, TypeOK
<1>3. [req[p] EXCEPT !.pc = pc] \in Request
    BY <1>1, RequestFields
<1> QED
    BY <1>2, <1>3 DEF TypeOK

LEMMA EndExecuteTypes ==
    ASSUME TypeOK, NEW p \in Proc, NEW result \in {"ok", "failed"}, Active(p),
           EndExecute(p, result),
           UNCHANGED <<turns, reply, thread, approval, idem, effects, posts>>
    PROVE  TypeOK'
<1>1. req[p] \in Request
    BY DEF TypeOK, Active, Idle
<1> DEFINE r == [[req[p] EXCEPT !.pc = "respond"] EXCEPT !.result = result]
<1>2. req' = [req EXCEPT ![p] = r]
    BY <1>1 DEF EndExecute, TypeOK
<1>3. r \in Request
    BY <1>1, RequestFields DEF Step
<1> QED
    BY <1>2, <1>3 DEF TypeOK

LEMMA InitIInv == Init => IInv
<1> SUFFICES ASSUME Init
             PROVE  IInv
    OBVIOUS
<1>1. TypeOK
    BY NoRowAssumption, BoundAssumption
       DEF Init, TypeOK, Turn, Checkpoint, Said, Silent
<1>2. RequestsOK /\ ThreadsOK
    BY DEF Init, RequestsOK, RequestOK, ThreadsOK
<1>3. StoreOK /\ GatedWriteIsAuthorised /\ RetryDoesNotRepeatWrite
    BY DEF Init, StoreOK, Keyed, Gated, GatedWriteIsAuthorised, RetryDoesNotRepeatWrite
<1> QED
    BY <1>1, <1>2, <1>3 DEF IInv

(***************************************************************************)
(* One lemma per action.                                                   *)
(***************************************************************************)
LEMMA PostStep ==
    ASSUME IInv, NEW p \in Proc, NEW s \in Session, NEW d \in Decision, Post(p, s, d)
    PROVE  IInv'
<1>0. /\ thread[s].turn \in 1 .. Len(turns)
      /\ turns[thread[s].turn].session = s
      /\ IsWrite(turns[thread[s].turn].call)
      /\ turns \in Seq([session : Session, call : Intent])
      /\ Len(turns) <= MaxTurns
      /\ thread[s] \in Checkpoint
    BY DEF IInv, ThreadsOK, Post, TypeOK
<1>1. /\ turns[thread[s].turn] \in [session : Session, call : Intent]
      /\ Len(turns) \in Nat
    BY <1>0, SeqFacts
<1>2. thread[s].turn \in Turn
    BY <1>0, <1>1, BoundAssumption DEF Turn
<1>3. TypeOK'
    BY <1>0, <1>1, <1>2, BoundAssumption
       DEF IInv, TypeOK, Post, Request, Step, Checkpoint, Active
<1>4. RequestOK(req[p])'
    BY <1>0, <1>1, KeyFacts DEF Post, RequestOK, IInv, TypeOK, GateStep
<1> QED
    BY <1>3, <1>4, LocalStep DEF Post, IInv, TypeOK

LEMMA GateQueryStep ==
    ASSUME IInv, NEW p \in Proc, GateQueryOk(p) \/ GateQueryFails(p)
    PROVE  IInv'
<1>1. TypeOK'
    <2>1. CASE GateQueryOk(p)
        BY <2>1, GotoTypes DEF IInv, GateQueryOk, Active, Step
    <2>2. CASE GateQueryFails(p)
        BY <2>2, GotoTypes DEF IInv, GateQueryFails, Active, Step
    <2> QED
        BY <2>1, <2>2
<1>2. RequestOK(req[p])'
    <2>1. CASE GateQueryOk(p)
        BY <2>1 DEF IInv, TypeOK, RequestsOK, RequestOK, GateQueryOk, Goto, GateStep,
                    Request, Idle, RowNames, IsWrite
    <2>2. CASE GateQueryFails(p)
        BY <2>2 DEF IInv, TypeOK, RequestsOK, RequestOK, GateQueryFails, Goto, GateStep,
                    Request, Idle, RowNames, IsWrite
    <2> QED
        BY <2>1, <2>2
<1> QED
    BY <1>1, <1>2, LocalStep DEF GateQueryOk, GateQueryFails, Goto, IInv, TypeOK

LEMMA GateFindNoneStep ==
    ASSUME IInv, NEW p \in Proc, GateFindNone(p)
    PROVE  IInv'
<1>1. TypeOK'
    BY GotoTypes DEF IInv, GateFindNone, Active, Step
<1>2. RequestOK(req[p])'
    BY DEF IInv, TypeOK, RequestsOK, RequestOK, GateFindNone, Goto, GateStep, Request,
           Idle, RowNames, IsWrite
<1> QED
    BY <1>1, <1>2, LocalStep DEF GateFindNone, Goto, IInv, TypeOK

LEMMA GateReuseStep ==
    ASSUME IInv, NEW p \in Proc, GateReuse(p)
    PROVE  IInv'
<1>1. PICK id \in PendingOf(req[p].session, req[p].call) :
          req' = [req EXCEPT ![p].row = id, ![p].pc = AfterCreate(p)]
    BY DEF GateReuse
<1>2. /\ req[p] \in Request
      /\ RequestOK(req[p])
      /\ id \in ApprovalId
      /\ AfterCreate(p) \in {"suspend", "decide"}
    BY DEF IInv, RequestsOK, TypeOK, GateReuse, Idle, PendingOf, AfterCreate
<1> DEFINE r == [[req[p] EXCEPT !.row = id] EXCEPT !.pc = AfterCreate(p)]
<1>3. req' = [req EXCEPT ![p] = r]
    BY <1>1, <1>2 DEF IInv, TypeOK
<1>4. r \in Request
    BY <1>2, RequestFields DEF Step
<1>5. TypeOK'
    BY <1>3, <1>4 DEF IInv, TypeOK, GateReuse
<1>6. RowNames(id, req[p].session, req[p].call)
    BY <1>1, <1>2 DEF PendingOf, Pending, RowNames, Free
<1>7. RequestOK(req[p])'
    <2>1. /\ req'[p].turn = req[p].turn
          /\ req'[p].session = req[p].session
          /\ req'[p].call = req[p].call
          /\ req'[p].row = id
          /\ req'[p].pc \in {"suspend", "decide"}
        BY <1>2, <1>3 DEF Request, IInv, TypeOK
    <2>2. /\ req[p].turn \in 1 .. Len(turns)
          /\ turns[req[p].turn] = [session |-> req[p].session, call |-> req[p].call]
          /\ IsWrite(req[p].call)
        BY <1>2 DEF RequestOK, GateReuse, GateStep, Idle
    <2>3. RowNames(id, req[p].session, req[p].call)'
        BY <1>6, <2>1 DEF RowNames, GateReuse
    <2> QED
        BY <2>1, <2>2, <2>3, <1>2, NoRowAssumption
           DEF RequestOK, GateReuse, GateStep, IsWrite
<1> QED
    BY <1>3, <1>5, <1>7, LocalStep DEF GateReuse, IInv, TypeOK

LEMMA DecideReadStep ==
    ASSUME IInv, NEW p \in Proc, DecideRead(p)
    PROVE  IInv'
<1>1. TypeOK'
    BY GotoTypes DEF IInv, DecideRead, Active, Step
<1>2. RequestOK(req[p])'
    BY DEF IInv, TypeOK, RequestsOK, RequestOK, DecideRead, Goto, GateStep, Request,
           Idle, RowNames, IsWrite
<1> QED
    BY <1>1, <1>2, LocalStep DEF DecideRead, Goto, IInv, TypeOK

\* A refused decision and a crash give the worker up.
LEMMA ReleaseStep ==
    ASSUME IInv, NEW p \in Proc, DecideRefused(p) \/ Crash(p)
    PROVE  IInv'
<1>1. TypeOK'
    BY DEF IInv, TypeOK, DecideRefused, Crash
<1>2. RequestOK(req[p])'
    BY DEF IInv, TypeOK, RequestOK, DecideRefused, Crash
<1> QED
    BY <1>1, <1>2, LocalStep DEF DecideRefused, Crash, IInv, TypeOK

LEMMA ExecuteFailsStep ==
    ASSUME IInv, NEW p \in Proc, ExecuteFails(p) \/ ApplyRefused(p)
    PROVE  IInv'
<1>1. TypeOK'
    BY EndExecuteTypes DEF IInv, ExecuteFails, ApplyRefused, Active
<1>2. RequestOK(req[p])'
    BY DEF IInv, TypeOK, RequestsOK, RequestOK, ExecuteFails, ApplyRefused, EndExecute,
           GateStep, Request, Idle, RowNames
<1> QED
    BY <1>1, <1>2, LocalStep DEF ExecuteFails, ApplyRefused, EndExecute, IInv, TypeOK

LEMMA ExecuteReadStep ==
    ASSUME IInv, NEW p \in Proc, ExecuteRead(p)
    PROVE  IInv'
<1>1. TypeOK'
    BY EndExecuteTypes DEF IInv, ExecuteRead, Active
<1>2. RequestOK(req[p])'
    BY DEF IInv, TypeOK, RequestsOK, RequestOK, ExecuteRead, EndExecute,
           GateStep, Request, Idle, RowNames, IsWrite
<1> QED
    BY <1>1, <1>2, LocalStep DEF ExecuteRead, EndExecute, IInv, TypeOK

\* A replayed answer stands for a write that the store's entry stands for.
LEMMA ExecuteReplayStep ==
    ASSUME IInv, NEW p \in Proc, ExecuteReplay(p)
    PROVE  IInv'
<1>1. TypeOK'
    BY EndExecuteTypes DEF IInv, ExecuteReplay, Active
<1>2. /\ req[p] \in Request
      /\ RequestOK(req[p])
      /\ IsWrite(req[p].call)
      /\ req[p].pc = "execute"
      /\ Hit(req[p].key)
    BY DEF IInv, TypeOK, RequestsOK, ExecuteReplay, Idle
<1>3. /\ req[p].key = IdemKey(req[p].session, req[p].call)
      /\ req[p].row # NoRow
      /\ RowNames(req[p].row, req[p].session, req[p].call)
      /\ ~Pending(req[p].row)
      /\ req[p].turn \in 1 .. Len(turns)
      /\ turns[req[p].turn] = [session |-> req[p].session, call |-> req[p].call]
    BY <1>2 DEF RequestOK, Hit, Idle
<1>4. req[p].key \in Key
    BY <1>2 DEF Request, Hit
<1>5. TargetWritten(req[p].session, req[p].call)
    <2>1. PICK i \in DOMAIN effects :
              /\ effects[i].session = req[p].key[1]
              /\ effects[i].call.tool = req[p].key[2]
              /\ effects[i].call.order = req[p].key[3]
        BY <1>2, <1>4 DEF IInv, StoreOK, Hit
    <2> QED
        BY <2>1, <1>3 DEF IdemKey, TargetWritten
<1>6. /\ req'[p].turn = req[p].turn /\ req'[p].session = req[p].session
      /\ req'[p].call = req[p].call /\ req'[p].row = req[p].row
      /\ req'[p].pc = "respond"
    BY <1>2 DEF ExecuteReplay, EndExecute, IInv, TypeOK, Request
<1>7. RowNames(req[p].row, req[p].session, req[p].call)'
    BY <1>3, <1>6 DEF RowNames, ExecuteReplay
<1>8. TargetWritten(req[p].session, req[p].call)'
    BY <1>5, <1>6 DEF TargetWritten, ExecuteReplay
<1>9. RequestOK(req[p])'
    BY <1>3, <1>6, <1>7, <1>8 DEF RequestOK, ExecuteReplay, GateStep
<1> QED
    BY <1>1, <1>9, LocalStep DEF ExecuteReplay, EndExecute, IInv, TypeOK

\* A miss sees no earlier write of its key.
LEMMA ExecuteMissStep ==
    ASSUME IInv, NEW p \in Proc, ExecuteMiss(p)
    PROVE  IInv'
<1>1. /\ req[p] \in Request
      /\ RequestOK(req[p])
      /\ IsWrite(req[p].call)
      /\ req[p].pc = "execute"
      /\ Len(effects) \in Nat /\ DOMAIN effects = 1 .. Len(effects)
    BY SeqFacts DEF IInv, TypeOK, RequestsOK, ExecuteMiss, Idle
<1> DEFINE r == [[req[p] EXCEPT !.pc = "apply"] EXCEPT !.mark = Len(effects)]
<1>2. req' = [req EXCEPT ![p] = r]
    BY <1>1 DEF ExecuteMiss, IInv, TypeOK
<1>3. r \in Request
    BY <1>1, RequestFields DEF Step
<1>4. TypeOK'
    BY <1>2, <1>3 DEF IInv, TypeOK, ExecuteMiss
<1>5. /\ req'[p].turn = req[p].turn /\ req'[p].session = req[p].session
      /\ req'[p].call = req[p].call /\ req'[p].row = req[p].row
      /\ req'[p].key = req[p].key /\ req'[p].decision = req[p].decision
      /\ req'[p].pc = "apply" /\ req'[p].mark = Len(effects)
    BY <1>1, <1>2 DEF IInv, TypeOK, Request
<1>6. req[p].key # FreshKey => \A i \in 1 .. Len(effects) : effects[i].key # req[p].key
    BY <1>1 DEF ExecuteMiss, Hit, IInv, StoreOK, Keyed
<1>7. req[p].row # NoRow =>
        /\ RowNames(req[p].row, req[p].session, req[p].call)'
        /\ ~Pending(req[p].row)'
    BY <1>1, <1>5 DEF RequestOK, RowNames, Pending, ExecuteMiss, Idle
<1>8. /\ req[p].turn \in 1 .. Len(turns)
      /\ turns[req[p].turn] = [session |-> req[p].session, call |-> req[p].call]
      /\ req[p].row # NoRow => /\ req[p].decision = "approve"
                               /\ req[p].key = IdemKey(req[p].session, req[p].call)
      /\ req[p].row = NoRow => req[p].key = FreshKey
    BY <1>1 DEF RequestOK, Idle
<1>9. RequestOK(req[p])'
    <2>1. UNCHANGED <<turns, effects>> /\ Len(effects) \in 0 .. Len(effects)
        BY <1>1 DEF ExecuteMiss
    <2> QED
        BY <2>1, <1>1, <1>5, <1>6, <1>7, <1>8 DEF RequestOK, GateStep, IsWrite, IdemKey
<1> QED
    BY <1>2, <1>4, <1>9, LocalStep DEF ExecuteMiss, IInv, TypeOK

\* A step that adds to the turns, the rows or the writes.
LEMMA GrowRequests ==
    ASSUME IInv, Grow, NEW p \in Proc,
           \A q \in Proc \ {p} : req'[q] = req[q],
           RequestOK(req[p])'
    PROVE  RequestsOK'
<1> SUFFICES ASSUME NEW q \in Proc
             PROVE  RequestOK(req[q])'
    BY DEF RequestsOK
<1>1. CASE q = p
    BY <1>1
<1>2. CASE q # p
    BY <1>2, GrowKeepsRequest DEF IInv, RequestsOK
<1> QED
    BY <1>1, <1>2

LEMMA GrowThreads ==
    ASSUME IInv, Grow, UNCHANGED thread
    PROVE  ThreadsOK'
BY GrowKeepsThread DEF IInv, ThreadsOK

LEMMA GrowGated ==
    ASSUME IInv, Grow, UNCHANGED effects
    PROVE  GatedWriteIsAuthorised'
<1> SUFFICES ASSUME NEW i \in DOMAIN effects, effects[i].row # NoRow
             PROVE  /\ effects[i].decision = "approve"
                    /\ ~Pending(effects[i].row)'
                    /\ RowNames(effects[i].row, effects[i].session, effects[i].call)'
    BY DEF GatedWriteIsAuthorised, Gated, RowNames, Pending, IdemKey
<1>1. effects[i] \in Effect
    BY SeqFacts DEF IInv, TypeOK
<1>2. /\ effects[i].row \in ApprovalId
      /\ effects[i].decision = "approve"
      /\ ~Pending(effects[i].row)
      /\ RowNames(effects[i].row, effects[i].session, effects[i].call)
    BY <1>1 DEF IInv, GatedWriteIsAuthorised, Gated, Effect
<1> QED
    BY <1>2 DEF Grow, RowNames, Pending, IdemKey

LEMMA ChatStep ==
    ASSUME IInv, NEW p \in Proc, NEW s \in Session, NEW c \in Intent, Chat(p, s, c)
    PROVE  IInv'
<1> DEFINE t == [session |-> s, call |-> c]
<1>1. /\ turns \in Seq([session : Session, call : Intent])
      /\ t \in [session : Session, call : Intent]
      /\ turns' = Append(turns, t)
      /\ Len(turns) < MaxTurns
      /\ thread[s].result \in {"none", "ok", "failed"} /\ thread[s].said \in Said
    BY DEF IInv, TypeOK, Chat, Checkpoint
<1>2. /\ Len(turns) \in Nat
      /\ Len(turns') = Len(turns) + 1
      /\ DOMAIN turns = 1 .. Len(turns)
      /\ DOMAIN turns' = 1 .. Len(turns) + 1
      /\ \A n \in 1 .. Len(turns) : turns'[n] = turns[n]
      /\ turns'[Len(turns) + 1] = t
      /\ turns' \in Seq([session : Session, call : Intent])
    BY <1>1, AppendFacts
<1>3. Len(turns) + 1 \in Turn /\ Len(turns') <= MaxTurns
    BY <1>1, <1>2, BoundAssumption DEF Turn
<1>4. req'[p] = [pc |-> IF c = Unclear THEN "respond"
                        ELSE IF IsWrite(c) THEN "query" ELSE "execute",
                 kind |-> "chat", turn |-> Len(turns) + 1, session |-> s, call |-> c,
                 decision |-> "none", row |-> NoRow,
                 key |-> FreshKey, mark |-> 0, result |-> thread[s].result,
                 said |-> thread[s].said]
      /\ req' = [req EXCEPT ![p] = req'[p]]
    BY DEF Chat, IInv, TypeOK
<1>5. req'[p] \in Request
    BY <1>1, <1>3, <1>4 DEF Request, Step
<1>6. TypeOK'
    BY <1>2, <1>3, <1>4, <1>5 DEF IInv, TypeOK, Chat
<1>7. Grow
    <2>1. Len(effects) \in Nat
        BY SeqFacts DEF IInv, TypeOK
    <2> QED
        BY <1>2, <2>1 DEF Chat, Grow, Pending
<1>8. RequestOK(req[p])'
    BY <1>2, <1>4, KeyFacts DEF RequestOK, GateStep, IsWrite
<1>9. RequestsOK'
    BY <1>4, <1>7, <1>8, GrowRequests DEF IInv, TypeOK
<1>10. ThreadsOK' /\ GatedWriteIsAuthorised'
    BY <1>7, GrowThreads, GrowGated DEF Chat
<1>11. StoreOK' /\ RetryDoesNotRepeatWrite'
    BY DEF IInv, StoreOK, RetryDoesNotRepeatWrite, Keyed, Chat
<1> QED
    BY <1>6, <1>9, <1>10, <1>11 DEF IInv

LEMMA GateInsertStep ==
    ASSUME IInv, NEW p \in Proc, GateInsert(p)
    PROVE  IInv'
<1>1. PICK id \in ApprovalId :
          /\ approval[id] = Free
          /\ approval' = [approval EXCEPT ![id] =
                [status |-> "pending", session |-> req[p].session, call |-> req[p].call]]
          /\ req' = [req EXCEPT ![p].row = id, ![p].pc = AfterCreate(p)]
    BY DEF GateInsert
<1>2. /\ req[p] \in Request
      /\ RequestOK(req[p])
      /\ req[p].pc = "insert"
      /\ AfterCreate(p) \in {"suspend", "decide"}
      /\ Len(turns) \in Nat /\ Len(effects) \in Nat
    BY SeqFacts DEF IInv, RequestsOK, TypeOK, GateInsert, Idle, AfterCreate
<1>3. /\ req[p].turn \in 1 .. Len(turns)
      /\ turns[req[p].turn] = [session |-> req[p].session, call |-> req[p].call]
      /\ IsWrite(req[p].call)
    BY <1>2 DEF RequestOK, GateStep, Idle
<1> DEFINE row == [status |-> "pending", session |-> req[p].session, call |-> req[p].call]
           r == [[req[p] EXCEPT !.row = id] EXCEPT !.pc = AfterCreate(p)]
<1>4. row \in Row /\ row # Free
    BY <1>2, <1>3 DEF Row, Request, Intent, Unclear, IsWrite, WriteTool, Free
<1>5. req' = [req EXCEPT ![p] = r]
    BY <1>1, <1>2 DEF IInv, TypeOK
<1>6. r \in Request
    BY <1>2, RequestFields DEF Step
<1>7. TypeOK'
    <2>1. approval' \in [ApprovalId -> Row \cup {Free}]
        BY <1>1, <1>4 DEF IInv, TypeOK
    <2>2. req' \in [Proc -> Request \cup {Idle}]
        BY <1>5, <1>6 DEF IInv, TypeOK
    <2> QED
        BY <2>1, <2>2 DEF IInv, TypeOK, GateInsert
<1>8. Grow
    BY <1>1, <1>2, <1>4 DEF IInv, TypeOK, Grow, GateInsert, Pending
<1>9. /\ req'[p].turn = req[p].turn /\ req'[p].session = req[p].session
      /\ req'[p].call = req[p].call /\ req'[p].row = id
      /\ req'[p].pc \in {"suspend", "decide"}
    BY <1>2, <1>5 DEF IInv, TypeOK, Request
<1>10. RowNames(id, req[p].session, req[p].call)'
    <2>1. approval'[id] = row
        BY <1>1 DEF IInv, TypeOK
    <2> QED
        BY <2>1, <1>4, <1>9 DEF RowNames, IdemKey
<1>11. RequestOK(req[p])'
    BY <1>3, <1>9, <1>10, NoRowAssumption DEF RequestOK, GateInsert, GateStep, IsWrite
<1>12. RequestsOK'
    BY <1>5, <1>8, <1>11, GrowRequests DEF IInv, TypeOK
<1>13. ThreadsOK' /\ GatedWriteIsAuthorised'
    BY <1>8, GrowThreads, GrowGated DEF GateInsert
<1>14. StoreOK' /\ RetryDoesNotRepeatWrite'
    BY DEF IInv, StoreOK, RetryDoesNotRepeatWrite, Keyed, GateInsert
<1> QED
    BY <1>7, <1>12, <1>13, <1>14 DEF IInv

\* The suspended run leaves its row and its call to the thread.
LEMMA SuspendStep ==
    ASSUME IInv, NEW p \in Proc, Suspend(p)
    PROVE  IInv'
<1>1. /\ req[p] \in Request
      /\ RequestOK(req[p])
      /\ req[p].session \in Session
    BY DEF IInv, RequestsOK, TypeOK, Suspend, Idle, Request
<1>2. /\ req[p].turn \in 1 .. Len(turns)
      /\ turns[req[p].turn] = [session |-> req[p].session, call |-> req[p].call]
      /\ IsWrite(req[p].call)
      /\ req[p].row # NoRow
      /\ RowNames(req[p].row, req[p].session, req[p].call)
    BY <1>1 DEF RequestOK, Suspend, GateStep, Idle
<1> DEFINE c == [stage |-> "interrupted", turn |-> req[p].turn,
                 form |-> req[p].row, result |-> req[p].result, said |-> req[p].said]
<1>3. c \in Checkpoint
    BY <1>1, BoundAssumption DEF Request, Checkpoint, Turn
<1>4. TypeOK'
    BY <1>1, <1>3 DEF IInv, TypeOK, Suspend
<1>5. Grow
    BY SeqFacts DEF IInv, TypeOK, Grow, Suspend, Pending
<1>6. RequestsOK'
    <2>1. RequestOK(req[p])'
        BY DEF RequestOK, Suspend, IInv, TypeOK
    <2> QED
        BY <2>1, <1>5, GrowRequests DEF Suspend, IInv, TypeOK
<1>7. ThreadsOK'
    <2> SUFFICES ASSUME NEW s \in Session, thread'[s].stage = "interrupted"
                 PROVE  /\ thread'[s].turn \in 1 .. Len(turns)
                        /\ turns[thread'[s].turn].session = s
                        /\ IsWrite(turns[thread'[s].turn].call)
                        /\ thread'[s].form # NoRow
                        /\ RowNames(thread[s].form, s, turns[thread[s].turn].call)'
        BY DEF ThreadsOK, IsWrite, Suspend
    <2>1. CASE s = req[p].session
        <3>1. thread'[s] = c /\ UNCHANGED <<turns, approval>>
            BY <2>1, <1>1 DEF Suspend, IInv, TypeOK
        <3>2. /\ thread'[s].turn = req[p].turn /\ thread'[s].form = req[p].row
              /\ turns[req[p].turn].session = s /\ turns[req[p].turn].call = req[p].call
            BY <3>1, <2>1, <1>2
        <3>3. LET row == approval'[req[p].row] IN
                row # Free /\ IdemKey(row.session, row.call) = IdemKey(s, req[p].call)
            BY <3>1, <2>1, <1>2 DEF RowNames
        <3>4. turns'[thread'[s].turn].call = req[p].call
            BY <3>1, <3>2
        <3>5. RowNames(thread[s].form, s, turns[thread[s].turn].call)'
            BY <3>2, <3>3, <3>4 DEF RowNames, IdemKey
        <3> HIDE DEF c
        <3> QED
            BY <3>2, <3>5, <1>2
    <2>2. CASE s # req[p].session
        <3>1. thread'[s] = thread[s]
            BY <2>2 DEF Suspend, IInv, TypeOK
        <3> QED
            BY <3>1 DEF IInv, ThreadsOK, RowNames, Suspend
    <2> QED
        BY <2>1, <2>2
<1>8. GatedWriteIsAuthorised'
    BY <1>5, GrowGated DEF Suspend
<1>9. StoreOK' /\ RetryDoesNotRepeatWrite'
    BY DEF IInv, StoreOK, RetryDoesNotRepeatWrite, Keyed, Suspend
<1> QED
    BY <1>4, <1>6, <1>7, <1>8, <1>9 DEF IInv

\* After the UPDATE the row is decided, by this request or by another one.
LEMMA DecideCommitStep ==
    ASSUME IInv, NEW p \in Proc, DecideCommit(p)
    PROVE  IInv'
<1> DEFINE id == req[p].row
           status == IF req[p].decision = "approve" THEN "approved" ELSE "rejected"
<1>1. /\ req[p] \in Request
      /\ RequestOK(req[p])
      /\ Len(turns) \in Nat /\ Len(effects) \in Nat
    BY SeqFacts DEF IInv, RequestsOK, TypeOK, DecideCommit, Idle
<1>2. /\ req[p].turn \in 1 .. Len(turns)
      /\ turns[req[p].turn] = [session |-> req[p].session, call |-> req[p].call]
      /\ IsWrite(req[p].call)
      /\ id \in ApprovalId
      /\ RowNames(id, req[p].session, req[p].call)
    BY <1>1 DEF RequestOK, DecideCommit, GateStep, Idle, Request
<1>3. IdemKey(req[p].session, req[p].call) \in Key
    BY <1>1, <1>2, KeyFacts DEF Request, Intent
<1>4. /\ Pending(id) => approval' = [approval EXCEPT ![id].status = status]
      /\ ~Pending(id) => approval' = approval
    BY DEF DecideCommit, DecidedTable
<1>5. approval[id] \in Row
    BY <1>2 DEF IInv, TypeOK, RowNames
<1>6. /\ approval' \in [ApprovalId -> Row \cup {Free}]
      /\ approval'[id].status # "pending"
      /\ \A i \in ApprovalId : approval[i] # Free =>
            /\ approval'[i] # Free
            /\ approval'[i].session = approval[i].session
            /\ approval'[i].call = approval[i].call
            /\ ~Pending(i) => approval'[i] = approval[i]
    <2>1. CASE ~Pending(id)
        BY <2>1, <1>4 DEF Pending, IInv, TypeOK, DecideCommit
    <2>2. CASE Pending(id)
        <3> DEFINE new == [approval[id] EXCEPT !.status = status]
        <3>1. approval' = [approval EXCEPT ![id] = new]
            BY <2>2, <1>4 DEF IInv, TypeOK
        <3>2. /\ new \in Row /\ new.session = approval[id].session
              /\ new.call = approval[id].call /\ new.status = status
            BY <1>5 DEF Row
        <3>3. new # Free
            BY <3>2, KeyFacts
        <3>4. status # "pending"
            OBVIOUS
        <3> QED
            BY <3>1, <3>2, <3>3, <3>4, <1>2, <2>2 DEF Pending, IInv, TypeOK
    <2> QED
        BY <2>1, <2>2
<1>7. Grow
    BY <1>1, <1>6 DEF Grow, DecideCommit
<1>8. /\ req'[p] \in Request
      /\ \A q \in Proc \ {p} : req'[q] = req[q]
      /\ DOMAIN req' = Proc
      /\ req'[p].turn = req[p].turn /\ req'[p].session = req[p].session
      /\ req'[p].call = req[p].call /\ req'[p].row = id
      /\ req'[p].decision = req[p].decision
      /\ req[p].decision = "approve" =>
            /\ req'[p].pc = "execute"
            /\ req'[p].key = IdemKey(req[p].session, req[p].call)
      /\ req[p].decision # "approve" => req'[p].pc = "respond" /\ req'[p].result = "failed"
    <2>1. CASE req[p].decision = "approve"
        <3> DEFINE r == [[req[p] EXCEPT !.pc = "execute"] EXCEPT
                            !.key = IdemKey(req[p].session, req[p].call)]
        <3>1. req' = [req EXCEPT ![p] = r]
            BY <2>1, <1>1 DEF DecideCommit, IInv, TypeOK
        <3>2. r \in Request
            BY <1>1, <1>3, RequestFields DEF Step
        <3> QED
            BY <2>1, <3>1, <3>2, <1>1 DEF IInv, TypeOK, Request
    <2>2. CASE req[p].decision # "approve"
        <3> DEFINE r == [[req[p] EXCEPT !.pc = "respond"] EXCEPT !.result = "failed"]
        <3>1. req' = [req EXCEPT ![p] = r]
            BY <2>2, <1>1 DEF DecideCommit, EndExecute, IInv, TypeOK
        <3>2. r \in Request
            BY <1>1, RequestFields DEF Step
        <3> QED
            BY <2>2, <3>1, <3>2, <1>1 DEF IInv, TypeOK, Request
    <2> QED
        BY <2>1, <2>2
<1>9. TypeOK'
    <2>1. req' \in [Proc -> Request \cup {Idle}]
        BY <1>8 DEF DecideCommit, EndExecute, IInv, TypeOK
    <2> QED
        BY <2>1, <1>6 DEF IInv, TypeOK, DecideCommit
<1>10. RowNames(id, req[p].session, req[p].call)' /\ ~Pending(req[p].row)'
    BY <1>2, <1>6, <1>8 DEF RowNames, IdemKey, Pending
<1>11. RequestOK(req[p])'
    <2>1. UNCHANGED <<turns, effects>>
        BY DEF DecideCommit
    <2>2. req'[p].row # NoRow
        BY <1>2, <1>8, NoRowAssumption
    <2> QED
        BY <2>1, <2>2, <1>2, <1>8, <1>10 DEF RequestOK, GateStep, IsWrite, IdemKey
<1>12. RequestsOK'
    BY <1>7, <1>8, <1>11, GrowRequests
<1>13. ThreadsOK' /\ GatedWriteIsAuthorised'
    BY <1>7, GrowThreads, GrowGated DEF DecideCommit
<1>14. StoreOK' /\ RetryDoesNotRepeatWrite'
    BY DEF IInv, StoreOK, RetryDoesNotRepeatWrite, Keyed, DecideCommit
<1> QED
    BY <1>9, <1>12, <1>13, <1>14 DEF IInv

\* The new write is authorised, is in the store, and every earlier write of its
\* key was applied after its own miss.
LEMMA ApplyStep ==
    ASSUME IInv, NEW p \in Proc, Apply(p)
    PROVE  IInv'
<1> DEFINE e == [turn |-> req[p].turn, session |-> req[p].session, call |-> req[p].call,
                 key |-> req[p].key, row |-> req[p].row,
                 decision |-> req[p].decision, mark |-> req[p].mark]
<1>1. PICK result \in {"ok", "failed"} : EndExecute(p, result)
    BY DEF Apply
<1>2. /\ req[p] \in Request
      /\ RequestOK(req[p])
      /\ effects \in Seq(Effect)
      /\ Len(turns) \in Nat
    BY SeqFacts DEF IInv, RequestsOK, TypeOK, Apply, Idle
<1>3. /\ req[p].turn \in 1 .. Len(turns)
      /\ turns[req[p].turn] = [session |-> req[p].session, call |-> req[p].call]
      /\ IsWrite(req[p].call)
      /\ req[p].row # NoRow =>
            /\ RowNames(req[p].row, req[p].session, req[p].call)
            /\ req[p].decision = "approve"
            /\ ~Pending(req[p].row)
            /\ req[p].key = IdemKey(req[p].session, req[p].call)
      /\ req[p].row = NoRow => req[p].key = FreshKey
      /\ req[p].mark \in 0 .. Len(effects)
      /\ req[p].key # FreshKey =>
            \A i \in 1 .. req[p].mark : effects[i].key # req[p].key
    BY <1>2 DEF RequestOK, Apply, Idle
<1>4. e \in Effect
    BY <1>2, <1>3 DEF Request, Effect, Intent, Unclear, IsWrite, WriteTool
<1>5. /\ effects' = Append(effects, e)
      /\ effects' \in Seq(Effect)
      /\ Len(effects) \in Nat
      /\ Len(effects') = Len(effects) + 1
      /\ DOMAIN effects = 1 .. Len(effects)
      /\ DOMAIN effects' = 1 .. Len(effects) + 1
      /\ \A i \in 1 .. Len(effects) : effects'[i] = effects[i] /\ effects[i] \in Effect
      /\ effects'[Len(effects) + 1] = e
    BY <1>2, <1>4, AppendFacts DEF Apply
<1> HIDE DEF e
<1>6. /\ e.session = req[p].session /\ e.call = req[p].call /\ e.key = req[p].key
      /\ e.row = req[p].row /\ e.decision = req[p].decision /\ e.mark = req[p].mark
    BY DEF e
<1>7. /\ req'[p].turn = req[p].turn /\ req'[p].session = req[p].session
      /\ req'[p].call = req[p].call /\ req'[p].row = req[p].row
      /\ req'[p].pc = "respond"
      /\ req' \in [Proc -> Request \cup {Idle}]
      /\ \A q \in Proc \ {p} : req'[q] = req[q]
    <2> DEFINE r == [[req[p] EXCEPT !.pc = "respond"] EXCEPT !.result = result]
    <2>1. req' = [req EXCEPT ![p] = r]
        BY <1>1, <1>2 DEF EndExecute, IInv, TypeOK
    <2>2. r \in Request
        BY <1>2, RequestFields DEF Step
    <2> QED
        BY <2>1, <2>2, <1>2 DEF IInv, TypeOK, Request
<1>8. /\ idem' \in [Key -> Call \cup {Unclear}]
      /\ \A k \in Key : k # req[p].key => idem'[k] = idem[k]
      /\ req[p].key # FreshKey => /\ req[p].key \in Key
                                 /\ idem'[req[p].key] = req[p].call
    BY <1>2, <1>4, <1>6 DEF Apply, IInv, TypeOK, Request, Effect
<1>9. TypeOK'
    BY <1>5, <1>7, <1>8 DEF IInv, TypeOK, Apply
<1>10. Grow
    BY <1>2, <1>5 DEF Grow, Apply, Pending
<1>11. TargetWritten(req[p].session, req[p].call)'
    BY <1>5, <1>6, <1>7 DEF TargetWritten
<1>12. RequestOK(req[p])'
    <2>1. req[p].row # NoRow => RowNames(req[p].row, req[p].session, req[p].call)'
        BY <1>3, <1>7 DEF RowNames, Apply, IdemKey
    <2> QED
        BY <2>1, <1>3, <1>7, <1>11 DEF RequestOK, Apply, GateStep
<1>13. RequestsOK'
    BY <1>7, <1>10, <1>12, GrowRequests
<1>14. ThreadsOK'
    BY <1>10, GrowThreads DEF Apply
<1>15. StoreOK'
    <2>1. \A i \in Keyed' : idem'[effects'[i].key] # Unclear
        <3> SUFFICES ASSUME NEW i \in DOMAIN effects', effects'[i].key # FreshKey
                     PROVE  idem'[effects'[i].key] # Unclear
            BY DEF Keyed
        <3>1. req[p].call # Unclear
            BY <1>4, <1>6, KeyFacts DEF Effect
        <3>2. CASE i = Len(effects) + 1
            BY <3>1, <3>2, <1>5, <1>6, <1>8
        <3>3. CASE i \in 1 .. Len(effects)
            <4>1. effects[i].key \in Key /\ idem[effects[i].key] # Unclear
                BY <3>3, <1>5 DEF IInv, StoreOK, Keyed, Effect
            <4> QED
                BY <4>1, <3>1, <3>3, <1>5, <1>8, KeyFacts
        <3> QED
            BY <3>2, <3>3, <1>5
    <2>2. ASSUME NEW k \in Key, idem'[k] # Unclear
          PROVE  \E i \in DOMAIN effects' : /\ effects'[i].session = k[1]
                                            /\ effects'[i].call.tool = k[2]
                                            /\ effects'[i].call.order = k[3]
        <3>1. CASE k = req[p].key
            <4>1. k = IdemKey(e.session, e.call)
                BY <3>1, <1>3, <1>6, KeyFacts
            <4>2. k[1] = e.session /\ k[2] = e.call.tool /\ k[3] = e.call.order
                BY <4>1 DEF IdemKey
            <4>3. Len(effects) + 1 \in DOMAIN effects' /\ effects'[Len(effects) + 1] = e
                BY <1>5
            <4> QED
                BY <4>2, <4>3
        <3>2. CASE k # req[p].key
            <4>1. PICK i \in DOMAIN effects : /\ effects[i].session = k[1]
                                              /\ effects[i].call.tool = k[2]
                                              /\ effects[i].call.order = k[3]
                BY <3>2, <2>2, <1>8 DEF IInv, StoreOK
            <4> QED
                BY <4>1, <1>5
        <3> QED
            BY <3>1, <3>2
    <2> QED
        BY <2>1, <2>2 DEF StoreOK
<1>16. GatedWriteIsAuthorised'
    <2> SUFFICES ASSUME NEW i \in DOMAIN effects', effects'[i].row # NoRow
                 PROVE  /\ effects'[i].decision = "approve"
                        /\ approval[effects'[i].row].status # "pending"
                        /\ approval[effects'[i].row] # Free
                        /\ IdemKey(approval[effects'[i].row].session,
                                   approval[effects'[i].row].call)
                             = IdemKey(effects'[i].session, effects'[i].call)
        BY DEF GatedWriteIsAuthorised, Gated, Pending, RowNames, Apply, IdemKey
    <2>1. CASE i = Len(effects) + 1
        BY <2>1, <1>3, <1>5, <1>6 DEF RowNames, Pending
    <2>2. CASE i \in 1 .. Len(effects)
        BY <2>2, <1>5 DEF IInv, GatedWriteIsAuthorised, Gated, RowNames, Pending
    <2> QED
        BY <2>1, <2>2, <1>5
<1>17. RetryDoesNotRepeatWrite'
    <2> SUFFICES ASSUME NEW i \in DOMAIN effects', NEW j \in DOMAIN effects',
                        effects'[i].key # FreshKey, i < j,
                        effects'[i].key = effects'[j].key
                 PROVE  effects'[j].mark < i
        BY DEF RetryDoesNotRepeatWrite, Keyed
    <2>1. i \in 1 .. Len(effects)
        BY <1>5
    <2>2. CASE j \in 1 .. Len(effects)
        BY <2>1, <2>2, <1>5 DEF IInv, RetryDoesNotRepeatWrite, Keyed
    <2>3. CASE j = Len(effects) + 1
        <3>1. /\ effects[i].key = req[p].key
              /\ req[p].key # FreshKey
              /\ effects'[j].mark = req[p].mark
            BY <2>1, <2>3, <1>5, <1>6
        <3> QED
            BY <3>1, <2>1, <1>3, <1>5
    <2> QED
        BY <2>2, <2>3, <1>5
<1> QED
    BY <1>9, <1>13, <1>14, <1>15, <1>16, <1>17 DEF IInv

\* The run leaves its answer to the thread.
LEMMA RespondStep ==
    ASSUME IInv, NEW p \in Proc, Respond(p)
    PROVE  IInv'
<1> DEFINE t == req[p].turn
           said == [of |-> t, text |-> Answer(req[p].call, req[p].result)]
           c == [stage |-> "idle", turn |-> t, form |-> NoRow, result |-> req[p].result, said |-> said]
           r == [req[p] EXCEPT !.pc = "reply"]
<1>1. /\ req[p] \in Request
      /\ RequestOK(req[p])
      /\ req[p].session \in Session
      /\ t \in Turn
    BY DEF IInv, RequestsOK, TypeOK, Respond, Idle, Request
<1>2. said \in Said /\ c \in Checkpoint
    BY <1>1, BoundAssumption DEF Request, Checkpoint, Turn, Said, Answer
<1>3. /\ thread' = [thread EXCEPT ![req[p].session] = c]
      /\ \/ reply' = [reply EXCEPT ![t] = said] /\ req' = [req EXCEPT ![p] = Idle]
         \/ UNCHANGED reply /\ req' = [req EXCEPT ![p] = r]
      /\ UNCHANGED <<turns, approval, idem, effects, posts>>
    BY DEF Respond, Goto
<1>4. r \in Request /\ r.pc = "reply"
    BY <1>1 DEF Request, Step
<1> HIDE DEF c
<1>5. TypeOK'
    <2>1. req' \in [Proc -> Request \cup {Idle}]
        BY <1>3, <1>4 DEF IInv, TypeOK
    <2>2. reply' \in [Turn -> Said] /\ thread' \in [Session -> Checkpoint]
        BY <1>1, <1>2, <1>3 DEF IInv, TypeOK
    <2> QED
        BY <2>1, <2>2, <1>3 DEF IInv, TypeOK
<1>6. Grow
    BY <1>3, SeqFacts DEF IInv, TypeOK, Grow, Pending
<1>7. RequestsOK'
    <2>1. \A q \in Proc \ {p} : req'[q] = req[q]
        BY <1>3 DEF IInv, TypeOK
    <2>2. RequestOK(req[p])'
        <3>1. CASE req'[p] = Idle
            BY <3>1 DEF RequestOK
        <3>2. CASE req'[p] = r
            BY <3>2, <1>1, <1>3 DEF RequestOK, Respond, GateStep, Request, Idle, RowNames
        <3> QED
            BY <1>3, <3>1, <3>2 DEF IInv, TypeOK
    <2> QED
        BY <2>1, <2>2, <1>6, GrowRequests
<1>8. ThreadsOK'
    <2> SUFFICES ASSUME NEW s \in Session, thread'[s].stage = "interrupted"
                 PROVE  /\ thread'[s].turn \in 1 .. Len(turns)
                        /\ turns[thread'[s].turn].session = s
                        /\ IsWrite(turns[thread'[s].turn].call)
                        /\ thread'[s].form # NoRow
                        /\ RowNames(thread[s].form, s, turns[thread[s].turn].call)'
        BY <1>3 DEF ThreadsOK, IsWrite
    <2>1. s # req[p].session
        BY <1>1, <1>3 DEF IInv, TypeOK, c
    <2>2. thread'[s] = thread[s]
        BY <2>1, <1>3 DEF IInv, TypeOK
    <2> QED
        BY <2>2, <1>3 DEF IInv, ThreadsOK, RowNames
<1>9. GatedWriteIsAuthorised'
    BY <1>3, <1>6, GrowGated
<1>10. StoreOK' /\ RetryDoesNotRepeatWrite'
    BY <1>3 DEF IInv, StoreOK, RetryDoesNotRepeatWrite, Keyed
<1> QED
    BY <1>5, <1>7, <1>8, <1>9, <1>10 DEF IInv

\* The answer of a chat is read.
LEMMA ReadReplyStep ==
    ASSUME IInv, NEW p \in Proc, ReadReply(p)
    PROVE  IInv'
<1>1. TypeOK'
    <2>1. req[p] \in Request
        BY DEF IInv, TypeOK, ReadReply, Idle
    <2>2. thread[req[p].session].said \in Said
        BY <2>1 DEF IInv, TypeOK, Request, Checkpoint
    <2> QED
        BY <2>2 DEF IInv, TypeOK, ReadReply
<1>2. RequestOK(req[p])'
    BY DEF IInv, TypeOK, RequestOK, ReadReply
<1> QED
    BY <1>1, <1>2, LocalStep DEF ReadReply, IInv, TypeOK

(***************************************************************************)
(* The invariant is inductive, and what follows from it.                   *)
(***************************************************************************)
LEMMA NextIInv == IInv /\ [Next]_vars => IInv'
<1> SUFFICES ASSUME IInv, [Next]_vars
             PROVE  IInv'
    OBVIOUS
<1>1. CASE UNCHANGED vars
    BY <1>1 DEF vars, IInv, TypeOK, RequestsOK, RequestOK, ThreadsOK, StoreOK,
        GatedWriteIsAuthorised, RetryDoesNotRepeatWrite, Gated, Keyed, RowNames, Pending, TargetWritten
<1>2. ASSUME NEW p \in Proc,
             Receive(p) \/ Gate(p) \/ Execute(p) \/ Respond(p) \/ ReadReply(p) \/ Crash(p)
      PROVE  IInv'
    <2>1. CASE Receive(p)
        BY <2>1, ChatStep, PostStep DEF Receive
    <2>2. CASE Gate(p)
        BY <2>2, GateQueryStep, GateReuseStep, GateFindNoneStep, GateInsertStep,
           SuspendStep, DecideReadStep, ReleaseStep, DecideCommitStep DEF Gate
    <2>3. CASE Execute(p)
        BY <2>3, ExecuteFailsStep, ExecuteReadStep, ExecuteReplayStep, ExecuteMissStep,
           ApplyStep DEF Execute
    <2>4. CASE Respond(p)
        BY <2>4, RespondStep
    <2>5. CASE ReadReply(p)
        BY <2>5, ReadReplyStep
    <2>6. CASE Crash(p)
        BY <2>6, ReleaseStep
    <2> QED
        BY <1>2, <2>1, <2>2, <2>3, <2>4, <2>5, <2>6
<1> QED
    BY <1>1, <1>2 DEF Next

THEOREM Invariance == Spec => []IInv
BY InitIInv, NextIInv, PTL DEF Spec

\* Every reachable state is well typed, for any number of sessions, orders,
\* workers, approvals, turns and posts.
THEOREM TypeCorrect == Spec => []TypeOK
<1>1. IInv => TypeOK
    BY DEF IInv
<1> QED
    BY <1>1, Invariance, PTL

\* A write behind an approval was decided "approve" by its own request on a row
\* of the same session, tool and order, whatever the interleaving.
THEOREM GatedWrites == Spec => []GatedWriteIsAuthorised
<1>1. IInv => GatedWriteIsAuthorised
    BY DEF IInv
<1> QED
    BY <1>1, Invariance, PTL

\* A request that reaches the order API after a write of its key was applied
\* repeats the answer and not the write, across crashes and resumed threads.
THEOREM RetriesAreSafe == Spec => []RetryDoesNotRepeatWrite
<1>1. IInv => RetryDoesNotRepeatWrite
    BY DEF IInv
<1> QED
    BY <1>1, Invariance, PTL

(***************************************************************************)
(* Answers.  What a chat is told passes through the thread, so what is     *)
(* said in a thread, and what a run loaded from it, must be honest as well. *)
(***************************************************************************)
SaidOK ==
    /\ \A p \in Proc : req[p] # Idle => Honest(req[p].said, req[p].session)
    /\ \A s \in Session : Honest(thread[s].said, s)
    /\ \A n \in Turn : reply[n] # Silent => n \in DOMAIN turns /\ Honest(reply[n], turns[n].session)

\* Turns and writes are only added.
LEMMA LogsGrow ==
    ASSUME IInv, [Next]_vars
    PROVE  /\ DOMAIN turns \subseteq DOMAIN turns'
           /\ \A n \in DOMAIN turns : turns'[n] = turns[n]
           /\ DOMAIN effects \subseteq DOMAIN effects'
           /\ \A i \in DOMAIN effects : effects'[i] = effects[i]
<1>1. turns \in Seq([session : Session, call : Intent]) /\ effects \in Seq(Effect)
    BY DEF IInv, TypeOK
<1>2. ASSUME NEW p \in Proc, NEW s \in Session, NEW c \in Intent, Chat(p, s, c)
      PROVE  UNCHANGED effects /\ \E t \in [session : Session, call : Intent] : turns' = Append(turns, t)
    BY <1>2 DEF Chat
<1>3. ASSUME NEW p \in Proc, Apply(p)
      PROVE  UNCHANGED turns /\ \E e : effects' = Append(effects, e)
    BY <1>3 DEF Apply
<1>4. \/ UNCHANGED <<turns, effects>>
      \/ UNCHANGED effects /\ \E t \in [session : Session, call : Intent] : turns' = Append(turns, t)
      \/ UNCHANGED turns /\ \E e : effects' = Append(effects, e)
    BY <1>2, <1>3
       DEF Next, Receive, Gate, Execute, Post, GateQueryOk, GateQueryFails, GateReuse,
           GateFindNone, GateInsert, Suspend, DecideRead, DecideRefused, DecideCommit, ExecuteFails,
           ExecuteRead, ExecuteReplay, ExecuteMiss, ApplyRefused, Respond, ReadReply, Crash, vars
<1>5. ASSUME NEW S, NEW q \in Seq(S), NEW e
      PROVE  DOMAIN q \subseteq DOMAIN Append(q, e) /\ \A n \in DOMAIN q : Append(q, e)[n] = q[n]
    OBVIOUS
<1> QED
    BY <1>1, <1>4, <1>5

\* What was honest stays so: Honest of what is said after the step.
StaysHonest(said, s) ==
    said.text = "done" =>
        /\ said.of \in DOMAIN turns' /\ turns'[said.of].session = s
        /\ IsWrite(turns'[said.of].call) =>
              \E i \in DOMAIN effects' : /\ effects'[i].session = s
                                         /\ effects'[i].call.tool = turns'[said.of].call.tool
                                         /\ effects'[i].call.order = turns'[said.of].call.order

LEMMA HonestStays ==
    ASSUME IInv, [Next]_vars
    PROVE  \A said, s : Honest(said, s) => StaysHonest(said, s)
BY LogsGrow DEF Honest, StaysHonest, TargetWritten, IsWrite

\* A request keeps the answer it loaded, from the thread of its session.
LEMMA SaidIsLoaded ==
    ASSUME IInv, [Next]_vars, NEW q \in Proc, req'[q] # Idle
    PROVE  \/ /\ req[q] # Idle
              /\ req'[q].said = req[q].said /\ req'[q].session = req[q].session
           \/ \E s \in Session : req'[q].said = thread[s].said /\ req'[q].session = s
<1>1. req[q] \in Request \cup {Idle} /\ req \in [Proc -> Request \cup {Idle}]
    BY DEF IInv, TypeOK
<1>2. CASE req'[q] = req[q]
    BY <1>2
<1>3. ASSUME NEW s \in Session, (\E c \in Intent : Chat(q, s, c)) \/ (\E d \in Decision : Post(q, s, d))
      PROVE  req'[q].said = thread[s].said /\ req'[q].session = s
    <2>1. ASSUME NEW c \in Intent, Chat(q, s, c)
          PROVE  req'[q].said = thread[s].said /\ req'[q].session = s
        <3> DEFINE r == [pc |-> IF c = Unclear THEN "respond"
                                ELSE IF IsWrite(c) THEN "query" ELSE "execute",
                         kind |-> "chat", turn |-> Len(turns) + 1, session |-> s, call |-> c,
                         decision |-> "none", row |-> NoRow,
                         key |-> FreshKey, mark |-> 0, result |-> thread[s].result,
                         said |-> thread[s].said]
        <3>1. req' = [req EXCEPT ![q] = r]
            BY <2>1 DEF Chat
        <3>2. r.said = thread[s].said /\ r.session = s
            OBVIOUS
        <3> HIDE DEF r
        <3> QED
            BY <1>1, <3>1, <3>2
    <2>2. ASSUME NEW d \in Decision, Post(q, s, d)
          PROVE  req'[q].said = thread[s].said /\ req'[q].session = s
        <3> DEFINE r == [pc |-> "query", kind |-> "resume", turn |-> thread[s].turn,
                         session |-> s, call |-> turns[thread[s].turn].call,
                         decision |-> d, row |-> NoRow,
                         key |-> FreshKey, mark |-> 0, result |-> thread[s].result,
                         said |-> thread[s].said]
        <3>1. req' = [req EXCEPT ![q] = r]
            BY <2>2 DEF Post
        <3>2. r.said = thread[s].said /\ r.session = s
            OBVIOUS
        <3> HIDE DEF r
        <3> QED
            BY <1>1, <3>1, <3>2
    <2> QED
        BY <1>3, <2>1, <2>2
<1>4. ASSUME Gate(q) \/ Execute(q) \/ Respond(q), req[q].pc # "idle"
      PROVE  req'[q].said = req[q].said /\ req'[q].session = req[q].session
    <2>1. req[q] \in Request /\ req'[q] # Idle
        BY <1>1, <1>4 DEF Idle
    <2>2. CASE Gate(q)
        <3>1. CASE GateQueryOk(q) \/ GateQueryFails(q) \/ GateFindNone(q) \/ DecideRead(q)
            BY <1>1, <2>1, <3>1 DEF GateQueryOk, GateQueryFails, GateFindNone, DecideRead, Goto, Request
        <3>2. CASE GateReuse(q) \/ GateInsert(q)
            <4>1. ASSUME NEW id \in ApprovalId,
                         req' = [req EXCEPT ![q].row = id, ![q].pc = AfterCreate(q)]
                  PROVE  req'[q].said = req[q].said /\ req'[q].session = req[q].session
                BY <1>1, <2>1, <4>1 DEF Request
            <4>2. CASE GateReuse(q)
                BY <4>1, <4>2 DEF GateReuse, PendingOf
            <4>3. CASE GateInsert(q)
                BY <4>1, <4>3 DEF GateInsert
            <4> QED
                BY <3>2, <4>2, <4>3
        <3>3. CASE DecideCommit(q)
            <4>1. CASE req[q].decision = "approve"
                <5>1. req' = [req EXCEPT ![q].pc = "execute",
                                         ![q].key = IdemKey(req[q].session, req[q].call)]
                    BY <3>3, <4>1 DEF DecideCommit
                <5> QED
                    BY <1>1, <2>1, <5>1 DEF Request
            <4>2. CASE req[q].decision # "approve"
                BY <1>1, <2>1, <3>3, <4>2 DEF DecideCommit, EndExecute, Request
            <4> QED
                BY <4>1, <4>2
        <3>4. ~Suspend(q) /\ ~DecideRefused(q)
            BY <1>1, <2>1 DEF Suspend, DecideRefused
        <3> QED
            BY <2>2, <3>1, <3>2, <3>3, <3>4 DEF Gate
    <2>3. CASE Execute(q)
        BY <1>1, <2>1, <2>3
           DEF Execute, ExecuteFails, ExecuteRead, ExecuteReplay, ExecuteMiss, Apply, ApplyRefused,
               EndExecute, Request
    <2>4. CASE Respond(q)
        BY <1>1, <2>1, <2>4 DEF Respond, Goto, Request
    <2> QED
        BY <1>4, <2>2, <2>3, <2>4
<1>5. Gate(q) \/ Execute(q) \/ Respond(q) => req[q].pc # "idle" /\ req[q] # Idle
    BY <1>1
       DEF Gate, GateQueryOk, GateQueryFails, GateReuse, GateFindNone, GateInsert, Suspend,
           DecideRead, DecideRefused, DecideCommit, Execute, ExecuteFails, ExecuteRead,
           ExecuteReplay, ExecuteMiss, Apply, ApplyRefused, Respond, Idle
<1>6. ReadReply(q) \/ Crash(q) => req'[q] = Idle
    BY <1>1 DEF ReadReply, Crash
<1>7. ASSUME NEW p \in Proc, p # q,
             Receive(p) \/ Gate(p) \/ Execute(p) \/ Respond(p) \/ ReadReply(p) \/ Crash(p)
      PROVE  req'[q] = req[q]
    BY <1>1, <1>7
       DEF Receive, Gate, Execute, Chat, Post, GateQueryOk, GateQueryFails, GateReuse,
           GateFindNone, GateInsert, Suspend, DecideRead, DecideRefused, DecideCommit, ExecuteFails,
           ExecuteRead, ExecuteReplay, ExecuteMiss, Apply, ApplyRefused, Respond, ReadReply, Crash,
           Goto, EndExecute
<1> QED
    BY <1>2, <1>3, <1>4, <1>5, <1>6, <1>7 DEF Next, Receive, vars

\* The answer a run words is honest.
LEMMA AnswerIsHonest ==
    ASSUME IInv, NEW p \in Proc, Respond(p)
    PROVE  Honest([of |-> req[p].turn, text |-> Answer(req[p].call, req[p].result)], req[p].session)
<1>1. RequestOK(req[p]) /\ req[p] # Idle
    BY DEF IInv, RequestsOK, Respond, Idle
<1>2. /\ req[p].turn \in DOMAIN turns
      /\ turns[req[p].turn] = [session |-> req[p].session, call |-> req[p].call]
      /\ IsWrite(req[p].call) /\ req[p].result = "ok" => TargetWritten(req[p].session, req[p].call)
    BY <1>1, SeqFacts DEF RequestOK, Respond, IInv, TypeOK
<1> QED
    BY <1>2 DEF Honest, Answer

\* What is said in a thread is what was said there, what a run loaded or worded.
LEMMA ThreadsStayHonest ==
    ASSUME IInv, SaidOK, [Next]_vars, NEW s \in Session
    PROVE  Honest(thread'[s].said, s)
<1>1. thread \in [Session -> Checkpoint] /\ Honest(thread[s].said, s)
    BY DEF IInv, TypeOK, SaidOK
<1>2. ASSUME NEW p \in Proc, Suspend(p) PROVE Honest(thread'[s].said, s)
    <2>1. Honest(req[p].said, req[p].session)
        BY <1>2 DEF SaidOK, Suspend, Idle
    <2>2. thread'[s].said = IF s = req[p].session THEN req[p].said ELSE thread[s].said
        BY <1>1, <1>2 DEF Suspend
    <2> QED
        BY <1>1, <2>1, <2>2
<1>3. ASSUME NEW p \in Proc, Respond(p) PROVE Honest(thread'[s].said, s)
    <2> DEFINE said == [of |-> req[p].turn, text |-> Answer(req[p].call, req[p].result)]
    <2>1. Honest(said, req[p].session)
        BY <1>3, AnswerIsHonest
    <2>2. thread'[s].said = IF s = req[p].session THEN said ELSE thread[s].said
        BY <1>1, <1>3 DEF Respond
    <2> HIDE DEF said
    <2> QED
        BY <1>1, <2>1, <2>2
<1>4. UNCHANGED thread \/ (\E p \in Proc : Suspend(p)) \/ \E p \in Proc : Respond(p)
    BY DEF Next, Receive, Gate, Execute, Chat, Post, GateQueryOk, GateQueryFails, GateReuse,
           GateFindNone, GateInsert, DecideRead, DecideRefused, DecideCommit, ExecuteFails,
           ExecuteRead, ExecuteReplay, ExecuteMiss, Apply, ApplyRefused, ReadReply, Crash, vars
<1> QED
    BY <1>1, <1>2, <1>3, <1>4

\* So is what a turn is told.
LEMMA RepliesStayHonest ==
    ASSUME IInv, SaidOK, [Next]_vars, NEW n \in Turn, reply'[n] # Silent
    PROVE  n \in DOMAIN turns /\ Honest(reply'[n], turns[n].session)
<1>1. reply \in [Turn -> Said]
    BY DEF IInv, TypeOK
<1>2. CASE reply'[n] = reply[n]
    BY <1>2 DEF SaidOK
<1>3. ASSUME NEW p \in Proc, Respond(p) \/ ReadReply(p)
      PROVE  /\ req[p] \in Request /\ req[p].turn \in DOMAIN turns
             /\ turns[req[p].turn].session = req[p].session /\ req[p].session \in Session
    <2>1. req[p] \in Request /\ RequestOK(req[p]) /\ req[p] # Idle
        BY <1>3 DEF IInv, TypeOK, RequestsOK, Respond, ReadReply, Idle
    <2> QED
        BY <2>1, SeqFacts DEF RequestOK, Request, IInv, TypeOK
<1>4. ASSUME NEW p \in Proc, Respond(p), reply'[n] # reply[n]
      PROVE  n \in DOMAIN turns /\ Honest(reply'[n], turns[n].session)
    <2> DEFINE said == [of |-> req[p].turn, text |-> Answer(req[p].call, req[p].result)]
    <2>1. Honest(said, req[p].session)
        BY <1>4, AnswerIsHonest
    <2>2. n = req[p].turn /\ reply'[n] = said
        BY <1>1, <1>4 DEF Respond
    <2> HIDE DEF said
    <2> QED
        BY <1>3, <1>4, <2>1, <2>2
<1>5. ASSUME NEW p \in Proc, ReadReply(p), reply'[n] # reply[n]
      PROVE  n \in DOMAIN turns /\ Honest(reply'[n], turns[n].session)
    <2>1. n = req[p].turn /\ reply'[n] = thread[req[p].session].said
        BY <1>1, <1>5 DEF ReadReply
    <2> QED
        BY <1>3, <1>5, <2>1 DEF SaidOK
<1>6. UNCHANGED reply \/ \E p \in Proc : Respond(p) \/ ReadReply(p)
    BY DEF Next, Receive, Gate, Execute, Chat, Post, GateQueryOk, GateQueryFails, GateReuse,
           GateFindNone, GateInsert, Suspend, DecideRead, DecideRefused, DecideCommit, ExecuteFails,
           ExecuteRead, ExecuteReplay, ExecuteMiss, Apply, ApplyRefused, Crash, vars
<1> QED
    BY <1>2, <1>4, <1>5, <1>6

LEMMA SaidKept == IInv /\ SaidOK /\ [Next]_vars => SaidOK'
<1> SUFFICES ASSUME IInv, SaidOK, [Next]_vars
             PROVE  SaidOK'
    OBVIOUS
<1>1. \A said, s : Honest(said, s) => StaysHonest(said, s)
    BY HonestStays
<1>2. ASSUME NEW q \in Proc, req'[q] # Idle PROVE StaysHonest(req'[q].said, req'[q].session)
    BY <1>1, <1>2, SaidIsLoaded DEF SaidOK
<1>3. \A s \in Session : StaysHonest(thread'[s].said, s)
    BY <1>1, ThreadsStayHonest
<1>4. \A n \in Turn : reply'[n] # Silent =>
          n \in DOMAIN turns' /\ StaysHonest(reply'[n], turns'[n].session)
    BY <1>1, RepliesStayHonest, LogsGrow
<1> QED
    BY <1>2, <1>3, <1>4 DEF SaidOK, Honest, StaysHonest, TargetWritten, IsWrite, Idle, Silent

\* A reply of success is given only for a turn of the session it was given in,
\* whose operation was applied to its order, although another request of the
\* session may have overwritten the checkpoint the reply is read from.
THEOREM SuccessIsReal == Spec => []SuccessMeansTargetWritten
<1>1. Init => SaidOK
    BY DEF Init, SaidOK, Honest, Silent
<1>2. IInv /\ SaidOK => SuccessMeansTargetWritten
    <2> SUFFICES ASSUME IInv, SaidOK, NEW n \in DOMAIN turns
                 PROVE  Honest(reply[n], turns[n].session)
        BY DEF SuccessMeansTargetWritten
    <2>1. n \in Turn
        BY SeqFacts, BoundAssumption DEF IInv, TypeOK, Turn
    <2>2. CASE reply[n] = Silent
        BY <2>2 DEF Honest, Silent
    <2>3. CASE reply[n] # Silent
        BY <2>1, <2>3 DEF SaidOK
    <2> QED
        BY <2>2, <2>3
<1> QED
    BY <1>1, <1>2, SaidKept, Invariance, PTL DEF Spec

\* A waiting thread shows a row for the call that resuming it will run.
THEOREM FormsNameTheirCall == Spec => []FormNamesTheCall
<1>1. IInv => FormNamesTheCall
    BY DEF IInv, ThreadsOK, FormNamesTheCall
<1> QED
    BY <1>1, Invariance, PTL

\* Only an insert and a guarded UPDATE touch the table, so a decision stands.
THEOREM DecisionsAreFinal == Spec => DecisionIsFinal
<1> DEFINE Final ==
        \A id \in ApprovalId : approval[id] # Free =>
          /\ approval'[id] # Free
          /\ approval'[id].session = approval[id].session
          /\ approval'[id].call = approval[id].call
          /\ ~Pending(id) => approval'[id] = approval[id]
<1>1. TypeOK /\ UNCHANGED approval => Final
    OBVIOUS
<1>2. ASSUME TypeOK, NEW p \in Proc, GateInsert(p)
      PROVE  Final
    BY <1>2 DEF GateInsert, TypeOK
<1>3. ASSUME TypeOK, NEW p \in Proc, DecideCommit(p)
      PROVE  Final
    <2> DEFINE row == approval[req[p].row]
               new == [row EXCEPT !.status =
                         IF req[p].decision = "approve" THEN "approved" ELSE "rejected"]
    <2>1. CASE Pending(req[p].row) /\ req[p].row \in ApprovalId
        <3>1. row \in Row
            BY <1>3, <2>1 DEF TypeOK, Pending, Free
        <3>2. /\ new \in Row /\ new.session = row.session /\ new.call = row.call
            BY <3>1 DEF Row
        <3>3. new # Free
            BY <3>2, KeyFacts
        <3>4. approval' = [approval EXCEPT ![req[p].row] = new]
            BY <1>3, <2>1 DEF DecideCommit, DecidedTable, TypeOK
        <3> QED
            BY <1>3, <2>1, <3>2, <3>3, <3>4 DEF TypeOK, Pending
    <2>2. CASE ~Pending(req[p].row)
        BY <1>3, <2>2 DEF DecideCommit, DecidedTable
    <2>3. CASE req[p].row \notin ApprovalId
        BY <1>3, <2>3 DEF DecideCommit, DecidedTable, TypeOK
    <2> QED
        BY <2>1, <2>2, <2>3
<1>4. TypeOK /\ [Next]_vars => [Final]_vars
    BY <1>1, <1>2, <1>3
       DEF Next, Receive, Gate, Execute, Chat, Post, GateQueryOk, GateQueryFails, GateReuse,
           GateFindNone, Suspend, DecideRead, DecideRefused, ExecuteFails, ExecuteRead,
           ExecuteReplay, ExecuteMiss, Apply, ApplyRefused, Respond, ReadReply, Crash, vars
<1> QED
    BY <1>4, TypeCorrect, PTL DEF Spec, DecisionIsFinal
============================================================================
