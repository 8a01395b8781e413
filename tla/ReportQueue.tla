---------------------------- MODULE ReportQueue ----------------------------
(***************************************************************************)
(* Reports in the background (domains/ops/tasks/queue.py and report_job.py,*)
(* POST /report and GET /report/{task_id}).  A request puts a job into the *)
(* queue of RQ, in Redis, and its caller polls; when Redis is out, the     *)
(* instance makes the report itself before it answers.  RQ's workers are   *)
(* external: they take a job once, and give up one whose worker has died.  *)
(***************************************************************************)
EXTENDS Naturals

CONSTANTS
    Report,         \* requests for a report
    MaxQueueFaults  \* bound: changes of Redis's state and answers lost

ASSUME QueueAssumption == MaxQueueFaults \in Nat

VARIABLES
    asking,     \* of each request: its step, and what its caller was told last
    job,        \* of each request: its job in the queue
    runs,       \* of each request: how often generate_report_job ran for it
    reported,   \* the requests a run made a report for; the biz API may refuse
    unheard,    \* history: requests whose enqueue took effect without an answer
    queueUp,    \* whether Redis answers
    queueFaults

reports == <<asking, job, runs, reported, unheard, queueUp, queueFaults>>

JobStatus == {"absent", "queued", "started", "finished", "failed"}
\* "ok" is ok=True with a result, whatever the result says.
Told == {"nothing", "queued", "ok", "failed", "not_found"}

ReportsTypeOK ==
    /\ asking \in [Report -> [pc : {"rest", "enqueue", "depth", "sync", "poll", "over"}, told : Told]]
    /\ job \in [Report -> JobStatus] /\ runs \in [Report -> Nat]
    /\ reported \subseteq Report /\ unheard \subseteq Report
    /\ queueUp \in BOOLEAN /\ queueFaults \in 0 .. MaxQueueFaults

ReportsInit ==
    /\ asking = [r \in Report |-> [pc |-> "rest", told |-> "nothing"]]
    /\ job = [r \in Report |-> "absent"] /\ runs = [r \in Report |-> 0]
    /\ reported = {} /\ unheard = {} /\ queueUp = TRUE /\ queueFaults = 0

AskingAt(r, pc) == asking[r].pc = pc
AskingTo(r, pc) == asking' = [asking EXCEPT ![r].pc = pc]
TellsEnd(r, told) == asking' = [asking EXCEPT ![r] = [pc |-> "over", told |-> told]]
MayFault == queueFaults < MaxQueueFaults
Faults == MayFault /\ queueFaults' = queueFaults + 1

\* The two ends of generate_report_job.
JobReports(r) == runs' = [runs EXCEPT ![r] = @ + 1] /\ reported' = reported \cup {r}
JobRefused(r) == runs' = [runs EXCEPT ![r] = @ + 1] /\ UNCHANGED reported

\* POST /report: the queue, when a ping of Redis came back and the cooldown
\* of the last failure is over; else, and by POST /report/sync, at once.
AsksReport(r) ==
    /\ AskingAt(r, "rest")
    /\ AskingTo(r, "sync") \/ (queueUp /\ AskingTo(r, "enqueue"))
    /\ UNCHANGED <<job, runs, reported, unheard, queueUp, queueFaults>>

\* RQ stores the job and then pushes it, or does not.
EnqueueAnswered(r) ==
    /\ AskingAt(r, "enqueue") /\ queueUp
    /\ job' = [job EXCEPT ![r] = "queued"] /\ AskingTo(r, "depth")
    /\ UNCHANGED <<runs, reported, unheard, queueUp, queueFaults>>

EnqueueUnheard(r) ==
    /\ AskingAt(r, "enqueue") /\ queueUp /\ Faults
    /\ job' = [job EXCEPT ![r] = "queued"] /\ unheard' = unheard \cup {r}
    /\ AskingTo(r, "sync")
    /\ UNCHANGED <<runs, reported, queueUp>>

EnqueueFails(r) ==
    /\ AskingAt(r, "enqueue") /\ ~queueUp
    /\ AskingTo(r, "sync")
    /\ UNCHANGED <<job, runs, reported, unheard, queueUp, queueFaults>>

\* Changed form of AfterDepth: an error of the second call is taken for one
\* of the first.
AfterDepthFailing(r) == IF queueUp THEN "poll" ELSE "sync"

\* Whether or not the length of the queue could be read for the gauge.
AfterDepth(r) == "poll"

ReadsDepth(r) ==
    /\ AskingAt(r, "depth")
    /\ asking' = [asking EXCEPT ![r] = [pc |-> AfterDepth(r),
                                        told |-> IF AfterDepth(r) = "poll" THEN "queued" ELSE "nothing"]]
    /\ UNCHANGED <<job, runs, reported, unheard, queueUp, queueFaults>>

\* generate_report_job in the process of the request: ok is its success.
MakesHere(r) ==
    /\ AskingAt(r, "sync")
    /\ \/ JobReports(r) /\ TellsEnd(r, "ok")
       \/ JobRefused(r) /\ TellsEnd(r, "failed")
    /\ UNCHANGED <<job, unheard, queueUp, queueFaults>>

\* get_report_result: the caller goes on asking until the job is finished,
\* which is answered ok=True whether it made a report or was refused one, or
\* failed, or not_found, as it also is when Redis fails between the ping and
\* the fetch.
Polls(r) ==
    /\ AskingAt(r, "poll")
    /\ \/ queueUp /\ job[r] \in {"queued", "started"} /\ AskingTo(r, "poll")
       \/ queueUp /\ job[r] = "finished" /\ TellsEnd(r, "ok")
       \/ queueUp /\ job[r] = "failed" /\ TellsEnd(r, "failed")
       \/ (queueUp => job[r] = "absent" \/ MayFault) /\ TellsEnd(r, "not_found")
    /\ UNCHANGED <<job, runs, reported, unheard, queueUp, queueFaults>>

-----------------------------------------------------------------------------
\* A worker takes a job and runs it; a report the biz API refused is a
\* finished job with the error in its result, an exception, a timeout or the
\* worker's death, before or after the report, a failed one.
WorkerTakes(r) ==
    /\ queueUp /\ job[r] = "queued" /\ job' = [job EXCEPT ![r] = "started"]
    /\ UNCHANGED <<asking, runs, reported, unheard, queueUp, queueFaults>>

WorkerMakes(r) ==
    /\ queueUp /\ job[r] = "started" /\ job' = [job EXCEPT ![r] = "finished"]
    /\ JobReports(r) \/ JobRefused(r)
    /\ UNCHANGED <<asking, unheard, queueUp, queueFaults>>

WorkerFails(r) ==
    /\ queueUp /\ job[r] = "started" /\ job' = [job EXCEPT ![r] = "failed"]
    /\ JobReports(r) \/ UNCHANGED <<runs, reported>>
    /\ UNCHANGED <<asking, unheard, queueUp, queueFaults>>

\* result_ttl and failure_ttl.
ResultExpires(r) ==
    /\ job[r] \in {"finished", "failed"} /\ job' = [job EXCEPT ![r] = "absent"]
    /\ UNCHANGED <<asking, runs, reported, unheard, queueUp, queueFaults>>

QueueChanges ==
    /\ Faults /\ queueUp' = ~queueUp
    /\ UNCHANGED <<asking, job, runs, reported, unheard>>

ReportsNext ==
    \/ \E r \in Report :
         \/ AsksReport(r) \/ EnqueueAnswered(r) \/ EnqueueUnheard(r) \/ EnqueueFails(r)
         \/ ReadsDepth(r) \/ MakesHere(r) \/ Polls(r)
         \/ WorkerTakes(r) \/ WorkerMakes(r) \/ WorkerFails(r) \/ ResultExpires(r)
    \/ QueueChanges

-----------------------------------------------------------------------------
\* enqueue_report: a report is generated once, by the queue or by the
\* instance, and the instance does not generate one the queue still holds,
\* unless the job was queued and the answer to that got lost.  Redis may go
\* and come between any two calls.
ReportMadeOnce == \A r \in Report \ unheard :
    /\ runs[r] <= 1
    /\ AskingAt(r, "sync") => job[r] = "absent"

\* POST /report answers ok with the success of the report (router.py:327).
\* TLC refutes it of the poll of a queued one, which answers a job that was
\* refused its report ok=True, ready=True (router.py:364-366).
OkMeansReport == \A r \in Report : asking[r].told = "ok" => r \in reported
=============================================================================
