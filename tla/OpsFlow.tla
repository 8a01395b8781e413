------------------------------ MODULE OpsFlow ------------------------------
(***************************************************************************)
(* The human-in-the-loop write path of the ops domain: the business graph  *)
(* intent -> approval_gate -> execute -> respond (domains/ops/agent/       *)
(* graph.py), its two entry points POST /chat and POST /approval           *)
(* (domains/ops/router.py), the approvals table (security/approval.py) and *)
(* the idempotent order API the tools call (deploy/mock_biz_server).       *)
(*                                                                         *)
(* A request is served by one of the workers of two stateless instances.   *)
(* Nothing serialises the requests of a session: two workers may run the   *)
(* same thread, and the graph's checkpoint is written only when a run      *)
(* exits or suspends (durability="exit").  A crash loses the worker and    *)
(* keeps the approvals, the checkpoints and the order API.                 *)
(***************************************************************************)
EXTENDS Naturals, Sequences

CONSTANTS
    Session,      \* chat sessions, the thread_id of a checkpoint
    Order,        \* purchase orders
    Value,        \* contents of a change of an order (amount and delivery date)
    ApprovalId,   \* approval numbers uuid4 may draw
    Proc,         \* request workers of the two instances
    NoRow,        \* no approval row
    MaxTurns,     \* bound: chats accepted in a behaviour
    MaxPosts      \* bound: approval decisions posted in a behaviour

ASSUME NoRowAssumption == NoRow \notin ApprovalId
ASSUME BoundAssumption == MaxTurns \in Nat /\ MaxPosts \in Nat

VARIABLES
    turns,      \* the chat turns accepted so far: whose, and the recognised call
    reply,      \* what each turn was last answered
    thread,     \* per session, the LangGraph checkpoint
    approval,   \* the approvals table
    idem,       \* the order API's idempotency store: the call each key answered
    effects,    \* the writes the order API applied, in order
    req,        \* the request each worker serves
    posts       \* decisions posted so far

vars == <<turns, reply, thread, approval, idem, effects, req, posts>>

(***************************************************************************)
(* Types                                                                   *)
(***************************************************************************)
\* Both write tools require approval; the read tools are one tool here.
WriteTool == {"update_order", "cancel_order"}
Tool == WriteTool \cup {"query_order"}
Call == [tool : Tool, order : Order, val : Value]
Unclear == [tool |-> "unclear"]
Intent == Call \cup {Unclear}
Decision == {"approve", "reject"}
Turn == 1 .. MaxTurns

\* sha256(session + operation + target): the parameters are not part of it.
Key == Session \X WriteTool \X Order
IdemKey(s, c) == <<s, c.tool, c.order>>
FreshKey == <<>>     \* a uuid4 drawn for one execution only

Free == [status |-> "free"]
Row == [status : {"pending", "approved", "rejected"}, session : Session, call : Call]
\* An answer, and the turn it was worded for.
Said == [of : 0 .. MaxTurns, text : {"none", "ask", "done", "failed"}]
Silent == [of |-> 0, text |-> "none"]
Checkpoint == [stage : {"idle", "interrupted"}, turn : 0 .. MaxTurns,
               form : ApprovalId \cup {NoRow}, result : {"none", "ok", "failed"}, said : Said]
Idle == [pc |-> "idle"]
Step == {"query", "find", "insert", "suspend", "decide", "commit",
         "execute", "apply", "respond", "reply"}
Request == [pc : Step, kind : {"chat", "resume"}, turn : Turn,
            session : Session, call : Intent, decision : Decision \cup {"none"},
            row : ApprovalId \cup {NoRow}, key : Key \cup {FreshKey}, mark : Nat,
            result : {"none", "ok", "failed"}, said : Said]
Effect == [turn : Turn, session : Session, call : Call, key : Key \cup {FreshKey},
           row : ApprovalId \cup {NoRow}, decision : Decision \cup {"none"}, mark : Nat]

\* Every variable holds a value of the program's own shape: rows, checkpoints,
\* requests and applied writes.
TypeOK ==
    /\ turns \in Seq([session : Session, call : Intent]) /\ Len(turns) <= MaxTurns
    /\ reply \in [Turn -> Said]
    /\ thread \in [Session -> Checkpoint]
    /\ approval \in [ApprovalId -> Row \cup {Free}]
    /\ idem \in [Key -> Call \cup {Unclear}]
    /\ effects \in Seq(Effect)
    /\ req \in [Proc -> Request \cup {Idle}]
    /\ posts \in 0 .. MaxPosts

(***************************************************************************)
(* Helpers                                                                 *)
(***************************************************************************)
IsWrite(c) == c.tool \in WriteTool
Active(p) == req[p].pc # "idle"
Pending(id) == approval[id].status = "pending"

\* Changed form of PendingOf: the lookup forgets which tool the row is for.
PendingOfAnyTool(s, c) ==
    {id \in ApprovalId : /\ Pending(id)
                         /\ approval[id].session = s /\ approval[id].call.order = c.order}

\* _find_pending_by_idem_key: rows of the same session, tool and order, whatever
\* change their form shows.
PendingOf(s, c) ==
    {id \in ApprovalId : /\ Pending(id)
                         /\ IdemKey(approval[id].session, approval[id].call) = IdemKey(s, c)}

Goto(p, pc) == req' = [req EXCEPT ![p].pc = pc]

\* execute_node of a call that fails or is refused: the turn gets a failed result.
EndExecute(p, result) ==
    req' = [req EXCEPT ![p].pc = "respond", ![p].result = result]

Init ==
    /\ turns = <<>>
    /\ reply = [n \in Turn |-> Silent]
    /\ thread = [s \in Session |-> [stage |-> "idle", turn |-> 0,
                                    form |-> NoRow, result |-> "none", said |-> Silent]]
    /\ approval = [id \in ApprovalId |-> Free]
    /\ idem = [k \in Key |-> Unclear]
    /\ effects = <<>>
    /\ req = [p \in Proc |-> Idle]
    /\ posts = 0

(***************************************************************************)
(* Entry points                                                            *)
(***************************************************************************)
\* POST /chat and intent_node: a new message starts the graph over from its
\* first node.  An interrupt the thread was waiting in is dropped, its approval
\* row is left as it is, and the last tool result and answer stay in the state.
Chat(p, s, c) ==
    /\ ~Active(p)
    /\ Len(turns) < MaxTurns
    /\ turns' = Append(turns, [session |-> s, call |-> c])
    /\ req' = [req EXCEPT ![p] =
                 [pc |-> IF c = Unclear THEN "respond"
                         ELSE IF IsWrite(c) THEN "query" ELSE "execute",
                  kind |-> "chat", turn |-> Len(turns) + 1, session |-> s, call |-> c,
                  decision |-> "none", row |-> NoRow,
                  key |-> FreshKey, mark |-> 0, result |-> thread[s].result,
                  said |-> thread[s].said]]
    /\ UNCHANGED <<reply, thread, approval, idem, effects, posts>>

\* POST /approval: the graph of the session resumes from its checkpoint and runs
\* approval_gate again, whatever approval number the body gives: that is only
\* audited and echoed.  On a thread that waits for nothing the resume does nothing.
Post(p, s, d) ==
    /\ ~Active(p)
    /\ posts < MaxPosts
    /\ thread[s].stage = "interrupted"
    /\ posts' = posts + 1
    /\ req' = [req EXCEPT ![p] =
                 [pc |-> "query", kind |-> "resume", turn |-> thread[s].turn,
                  session |-> s, call |-> turns[thread[s].turn].call,
                  decision |-> d, row |-> NoRow,
                  key |-> FreshKey, mark |-> 0, result |-> thread[s].result,
                  said |-> thread[s].said]]
    /\ UNCHANGED <<turns, reply, thread, approval, idem, effects>>

(***************************************************************************)
(* approval_gate                                                           *)
(***************************************************************************)
\* The order is read for the form's before and after.
GateQueryOk(p) ==
    /\ req[p].pc = "query"
    /\ Goto(p, "find")
    /\ UNCHANGED <<turns, reply, thread, approval, idem, effects, posts>>

\* The read fails (open breaker, unknown order, order API down): the gate answers
\* not_required, and the only edge out of it leads to execute.
GateQueryFails(p) ==
    /\ req[p].pc = "query"
    /\ Goto(p, "execute")
    /\ UNCHANGED <<turns, reply, thread, approval, idem, effects, posts>>

\* A chat hands its row to interrupt, a resumed run already has its decision.
AfterCreate(p) == IF req[p].kind = "chat" THEN "suspend" ELSE "decide"

\* ApprovalService.create reuses a pending row of the same key ...
GateReuse(p) ==
    /\ req[p].pc = "find"
    /\ \E id \in PendingOf(req[p].session, req[p].call) :
          req' = [req EXCEPT ![p].row = id, ![p].pc = AfterCreate(p)]
    /\ UNCHANGED <<turns, reply, thread, approval, idem, effects, posts>>

\* ... or finds none ...
GateFindNone(p) ==
    /\ req[p].pc = "find"
    /\ PendingOf(req[p].session, req[p].call) = {}
    /\ Goto(p, "insert")
    /\ UNCHANGED <<turns, reply, thread, approval, idem, effects, posts>>

\* ... and inserts one, on another connection.
GateInsert(p) ==
    /\ req[p].pc = "insert"
    /\ \E id \in ApprovalId :
          /\ approval[id] = Free
          /\ approval' = [approval EXCEPT ![id] =
                [status |-> "pending", session |-> req[p].session, call |-> req[p].call]]
          /\ req' = [req EXCEPT ![p].row = id, ![p].pc = AfterCreate(p)]
    /\ UNCHANGED <<turns, reply, thread, idem, effects, posts>>

\* interrupt: the run exits, the checkpoint waits in approval_gate and the form
\* goes to the client.
Suspend(p) ==
    /\ req[p].pc = "suspend"
    /\ thread' = [thread EXCEPT ![req[p].session] =
          [stage |-> "interrupted", turn |-> req[p].turn,
           form |-> req[p].row, result |-> req[p].result, said |-> req[p].said]]
    /\ req' = [req EXCEPT ![p] = Idle]
    /\ UNCHANGED <<turns, reply, approval, idem, effects, posts>>

\* approve and reject first read the row ...
DecideRead(p) ==
    /\ req[p].pc = "decide"
    /\ Pending(req[p].row)
    /\ Goto(p, "commit")
    /\ UNCHANGED <<turns, reply, thread, approval, idem, effects, posts>>

\* ... raise ValueError when it is decided (the route answers ok=False and the
\* thread still waits in the gate) ...
DecideRefused(p) ==
    /\ req[p].pc = "decide"
    /\ ~Pending(req[p].row)
    /\ req' = [req EXCEPT ![p] = Idle]
    /\ UNCHANGED <<turns, reply, thread, approval, idem, effects, posts>>

\* Changed form of DecidedTable: the UPDATE lost its status condition.
UnguardedTable(id, d) ==
    [approval EXCEPT ![id].status = IF d = "approve" THEN "approved" ELSE "rejected"]

\* UPDATE ... WHERE approval_no = id AND status = 'pending'
DecidedTable(id, d) ==
    IF Pending(id)
    THEN [approval EXCEPT ![id].status = IF d = "approve" THEN "approved" ELSE "rejected"]
    ELSE approval

\* Changed form of DecideCommit: the rejected branch falls through to execute.
DecideCommitAlwaysExecutes(p) ==
    /\ req[p].pc = "commit"
    /\ approval' = DecidedTable(req[p].row, req[p].decision)
    /\ req' = [req EXCEPT ![p].pc = "execute",
                          ![p].key = IdemKey(req[p].session, req[p].call)]
    /\ UNCHANGED <<turns, reply, thread, idem, effects, posts>>

\* ... then update it where it is still pending, on another connection.  How many
\* rows the update matched is not looked at.
DecideCommit(p) ==
    /\ req[p].pc = "commit"
    /\ approval' = DecidedTable(req[p].row, req[p].decision)
    /\ IF req[p].decision = "approve"
       THEN req' = [req EXCEPT ![p].pc = "execute",
                               ![p].key = IdemKey(req[p].session, req[p].call)]
       ELSE EndExecute(p, "failed")
    /\ UNCHANGED <<turns, reply, thread, idem, effects, posts>>

(***************************************************************************)
(* execute_node and the order API                                          *)
(***************************************************************************)
\* Changed form of ExecuteFails: the last turn's tool result is not overwritten.
ExecuteFailsSilently(p) ==
    /\ req[p].pc = "execute"
    /\ Goto(p, "respond")
    /\ UNCHANGED <<turns, reply, thread, approval, idem, effects, posts>>

\* A pre hook blocks, Redis is down for a write, the breaker is open, the order
\* API answers 4xx or cannot be reached: nothing is written.
ExecuteFails(p) ==
    /\ req[p].pc = "execute"
    /\ EndExecute(p, "failed")
    /\ UNCHANGED <<turns, reply, thread, approval, idem, effects, posts>>

ExecuteRead(p) ==
    /\ req[p].pc = "execute"
    /\ ~IsWrite(req[p].call)
    /\ EndExecute(p, "ok")
    /\ UNCHANGED <<turns, reply, thread, approval, idem, effects, posts>>

\* The answer a key was given before, if any.  A fresh key was never seen.
Hit(key) == key # FreshKey /\ idem[key] # Unclear

\* The order API looks the key up: a key it has answered is answered again with
\* the first result, and nothing is written.
ExecuteReplay(p) ==
    /\ req[p].pc = "execute"
    /\ IsWrite(req[p].call)
    /\ Hit(req[p].key)
    /\ EndExecute(p, "ok")
    /\ UNCHANGED <<turns, reply, thread, approval, idem, effects, posts>>

\* A key it has not answered goes on to read the request's body: another request
\* may be handled meanwhile.
ExecuteMiss(p) ==
    /\ req[p].pc = "execute"
    /\ IsWrite(req[p].call)
    /\ ~Hit(req[p].key)
    /\ req' = [req EXCEPT ![p].pc = "apply", ![p].mark = Len(effects)]
    /\ UNCHANGED <<turns, reply, thread, approval, idem, effects, posts>>

\* Changed form of Apply: the answer is saved only once it was delivered.
ApplySavesLate(p) ==
    /\ req[p].pc = "apply"
    /\ effects' = Append(effects,
          [turn |-> req[p].turn, session |-> req[p].session, call |-> req[p].call,
           key |-> req[p].key, row |-> req[p].row,
           decision |-> req[p].decision, mark |-> req[p].mark])
    /\ \E result \in {"ok", "failed"} :
          /\ EndExecute(p, result)
          /\ idem' = IF req[p].key = FreshKey \/ result = "failed" THEN idem
                     ELSE [idem EXCEPT ![req[p].key] = req[p].call]
    /\ UNCHANGED <<turns, reply, thread, approval, posts>>

\* The order is changed and the answer saved under its key.  The answer may be
\* lost with all its retries: then the tool reports a failure.
Apply(p) ==
    /\ req[p].pc = "apply"
    /\ effects' = Append(effects,
          [turn |-> req[p].turn, session |-> req[p].session, call |-> req[p].call,
           key |-> req[p].key, row |-> req[p].row,
           decision |-> req[p].decision, mark |-> req[p].mark])
    /\ idem' = IF req[p].key = FreshKey THEN idem
               ELSE [idem EXCEPT ![req[p].key] = req[p].call]
    /\ \E result \in {"ok", "failed"} : EndExecute(p, result)
    /\ UNCHANGED <<turns, reply, thread, approval, posts>>

\* The order changed its state while the body was read: 409, nothing is written.
ApplyRefused(p) ==
    /\ req[p].pc = "apply"
    /\ EndExecute(p, "failed")
    /\ UNCHANGED <<turns, reply, thread, approval, idem, effects, posts>>

\* What respond_node says: it asks back only when no tool result is in the state.
Answer(c, result) ==
    IF c = Unclear /\ result = "none" THEN "ask"
    ELSE IF result = "ok" THEN "done" ELSE "failed"

\* respond_node, then the run exits and writes its checkpoint over whatever the
\* thread holds.  The answer of a resumed run is what the run returned, ...
Respond(p) ==
    /\ req[p].pc = "respond"
    /\ LET said == [of |-> req[p].turn, text |-> Answer(req[p].call, req[p].result)] IN
          /\ thread' = [thread EXCEPT ![req[p].session] =
                [stage |-> "idle", turn |-> req[p].turn, form |-> NoRow,
                 result |-> req[p].result, said |-> said]]
          /\ \/ /\ req[p].kind = "resume"
                /\ reply' = [reply EXCEPT ![req[p].turn] = said]
                /\ req' = [req EXCEPT ![p] = Idle]
             \/ req[p].kind = "chat" /\ Goto(p, "reply") /\ UNCHANGED reply
    /\ UNCHANGED <<turns, approval, idem, effects, posts>>

\* ... that of a chat is read from the thread when its run is over: another
\* request of the session may have written it since.
ReadReply(p) ==
    /\ req[p].pc = "reply"
    /\ reply' = [reply EXCEPT ![req[p].turn] = thread[req[p].session].said]
    /\ req' = [req EXCEPT ![p] = Idle]
    /\ UNCHANGED <<turns, thread, approval, idem, effects, posts>>

\* The instance dies, or the client goes away in mid-stream.
Crash(p) ==
    /\ Active(p)
    /\ req' = [req EXCEPT ![p] = Idle]
    /\ UNCHANGED <<turns, reply, thread, approval, idem, effects, posts>>

Receive(p) ==
    \/ \E s \in Session, c \in Intent : Chat(p, s, c)
    \/ \E s \in Session, d \in Decision : Post(p, s, d)
Gate(p) ==
    \/ GateQueryOk(p) \/ GateQueryFails(p)
    \/ GateReuse(p) \/ GateFindNone(p) \/ GateInsert(p) \/ Suspend(p)
    \/ DecideRead(p) \/ DecideRefused(p) \/ DecideCommit(p)
Execute(p) ==
    \/ ExecuteFails(p) \/ ExecuteRead(p) \/ ExecuteReplay(p) \/ ExecuteMiss(p)
    \/ Apply(p) \/ ApplyRefused(p)

Next == \E p \in Proc :
    Receive(p) \/ Gate(p) \/ Execute(p) \/ Respond(p) \/ ReadReply(p) \/ Crash(p)

Spec == Init /\ [][Next]_vars

(***************************************************************************)
(* What holds                                                              *)
(***************************************************************************)
\* Row id is an approval of session s for the tool and order of call c.
RowNames(id, s, c) ==
    approval[id] # Free /\ IdemKey(approval[id].session, approval[id].call) = IdemKey(s, c)

\* The operation of c was applied to its order for session s.
TargetWritten(s, c) ==
    \E i \in DOMAIN effects : /\ effects[i].session = s
                              /\ effects[i].call.tool = c.tool
                              /\ effects[i].call.order = c.order

\* The writes that went through the gate, by their place in the order API's log.
Gated == {i \in DOMAIN effects : effects[i].row # NoRow}
Keyed == {i \in DOMAIN effects : effects[i].key # FreshKey}

\* A write that carries an approval was decided "approve" by the request that
\* made it, its row is no longer pending, and the row is of the same session,
\* tool and order: no interleaving of resumed runs, crashes and reused rows lets
\* the gate's row authorise a write to something else (approval_gate).
GatedWriteIsAuthorised ==
    \A i \in Gated : LET e == effects[i] IN
        /\ e.decision = "approve"
        /\ ~Pending(e.row)
        /\ RowNames(e.row, e.session, e.call)

\* A request that reaches the order API after a write with the same key was
\* applied never applies a second one: resuming a thread whose worker died after
\* the write (a new row, decided on the spot) repeats the answer, not the write.
\* Two writes of one key can only come from requests that overlap in the API.
RetryDoesNotRepeatWrite ==
    \A i, j \in Keyed : i < j /\ effects[i].key = effects[j].key => effects[j].mark < i

\* A success said in session s: it was worded for a turn of the session, and a
\* write of that turn was applied to its order.
Honest(said, s) ==
    said.text = "done" =>
        /\ said.of \in DOMAIN turns /\ turns[said.of].session = s
        /\ IsWrite(turns[said.of].call) => TargetWritten(s, turns[said.of].call)

\* A user told of a success can rely on it that an operation of this session, of
\* the turn the answer was worded for, was applied to its order, whichever worker,
\* retry or replayed answer it came from (with that turn's contents or an earlier
\* turn's, see ReportedSuccessIsApplied).  That turn is the user's own unless
\* another request of the session ended before the answer was read, see
\* AnsweredForItsTurn.
SuccessMeansTargetWritten ==
    \A n \in DOMAIN turns : Honest(reply[n], turns[n].session)

\* What a waiting thread shows is a row of its own session for the tool and order
\* that resuming it will run, even after other requests decided or reused rows.
FormNamesTheCall ==
    \A s \in Session : thread[s].stage = "interrupted" =>
        RowNames(thread[s].form, s, turns[thread[s].turn].call)

\* A decision is final: no later request, retry or race changes a decided row, and
\* no row changes what its form shows (the UPDATE is guarded by the status).
DecisionIsFinal ==
    [][\A id \in ApprovalId : approval[id] # Free =>
          /\ approval'[id] # Free
          /\ approval'[id].session = approval[id].session
          /\ approval'[id].call = approval[id].call
          /\ ~Pending(id) => approval'[id] = approval[id]]_vars

(***************************************************************************)
(* What the repository says and the code does not do                       *)
(***************************************************************************)
\* graph.py:96: every high-risk tool waits for a human's confirmation.
EveryWriteApproved == \A i \in DOMAIN effects : effects[i].row # NoRow

\* approval.py:10: pending -> approved / rejected, one way: what was rejected is
\* not carried out.
RejectedNeverWritten == \A i \in Gated : approval[effects[i].row].status # "rejected"

\* approval.py:5: the form shows the user the change that will be made.  TLC
\* refutes it where a change has two contents (README).
ExecutedAsShown == \A i \in Gated : effects[i].call = approval[effects[i].row].call

\* approval.py:126: a new request does not reuse what was decided before: a change
\* reported as done was made.  TLC refutes it there, too.
ReportedSuccessIsApplied ==
    \A n \in DOMAIN turns : LET said == reply[n] IN
        said.text = "done" /\ IsWrite(turns[said.of].call) =>
            \E i \in DOMAIN effects : /\ effects[i].session = turns[said.of].session
                                      /\ effects[i].call = turns[said.of].call

\* router.py:166: the answer of a turn is taken from the checkpoint.  TLC refutes
\* that it is the turn's own, with two requests of a session at once.
AnsweredForItsTurn == \A n \in DOMAIN turns : reply[n].text = "done" => reply[n].of = n

============================================================================
