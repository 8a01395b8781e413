---------------------------- MODULE EvalReports ----------------------------
(***************************************************************************)
(* The nightly evaluation (platform/scheduler/jobs/eval_nightly.py) of one *)
(* date: runs, by cron or by hand, that evaluate every domain and store a  *)
(* report of each that did not fail, unless the date has one.  Reports are *)
(* unique by date and domain.                                              *)
(***************************************************************************)
EXTENDS Naturals, Sequences, FiniteSets

CONSTANTS
    Evaluation,     \* runs
    Cases           \* the cases of a domain

ASSUME EvalAssumption == Cases \in Nat \ {0}

VARIABLES
    report,         \* of each domain: the run whose report it is and what it says, or none
    evaluation      \* of each run: its step, the domain it is at, what it has done

evals == <<report, evaluation>>

Domains == <<"rag", "nl2sql">>
DomainIndex == 1 .. Len(Domains)

\* The metrics of a domain: an error, the keys n and error_rate, the latter in
\* cases; and, which no key says, the cases that went through.
Metrics == [error : BOOLEAN, n : 0 .. Cases, rate : 0 .. Cases, passed : 0 .. Cases]
Failure == [error |-> TRUE, n |-> 0, rate |-> Cases, passed |-> 0]
NoReport == [by |-> "none", metrics |-> Failure]

EvalState == [pc : {"rest", "look", "insert"}, at : 1 .. Len(Domains) + 1,
              metrics : [DomainIndex -> Metrics],
              wrote : 0 .. Len(Domains), status : {"none", "SUCCESS", "FAILED"}]
Resting(status) == [pc |-> "rest", at |-> 1, metrics |-> [d \in DomainIndex |-> Failure],
                    wrote |-> 0, status |-> status]

EvalTypeOK ==
    /\ evaluation \in [Evaluation -> EvalState]
    /\ report \in [DomainIndex -> [by : Evaluation \cup {"none"}, metrics : Metrics]]

EvalInit ==
    /\ report = [d \in DomainIndex |-> NoReport]
    /\ evaluation = [e \in Evaluation |-> Resting("none")]

\* The cases of a round that ended so.
Ended(records, ends) == Cardinality({c \in 1 .. Cases : records[c] \in ends})

\* run_qa: a question is retrieved, answered and measured, or one of these raises.
RunQa == {"measured", "raised"}

\* _eval_rag: a missing file or a retriever that does not start is an error;
\* cases that raise are counted, and no result at all is reported as n = 0.
EvalRag == {Failure} \cup
    {[error |-> FALSE, n |-> IF Ended(records, {"measured"}) = 0 THEN 0 ELSE Cases,
      rate |-> Ended(records, {"raised"}), passed |-> Ended(records, {"measured"})]
        : records \in [1 .. Cases -> RunQa]}

\* eval_one: the SQL is rejected by the gates, fails in the database, or its rows
\* are compared; what else fails raises.
EvalOne == {"correct", "wrong", "rejected", "exec-error", "raised"}

\* run: one case after the other, and the summary counts them; one that raises
\* takes the round with it.
RoundOf(records) ==
    IF Ended(records, {"raised"}) > 0 THEN Failure
    ELSE [error |-> FALSE, n |-> 0, rate |-> 0, passed |-> Ended(records, {"correct", "wrong"})]

\* _eval_nl2sql: a round that raises is an error.  Its metrics have no n, and
\* their error_rate is 0.
EvalNl2Sql == {Failure} \cup {RoundOf(records) : records \in [1 .. Cases -> EvalOne]}

\* Both domains are evaluated.
Evaluates(e) ==
    /\ evaluation[e].pc = "rest"
    /\ \E rag \in EvalRag, sql \in EvalNl2Sql :
         evaluation' = [evaluation EXCEPT ![e] =
             [Resting("none") EXCEPT !.pc = "look", !.metrics = <<rag, sql>>]]
    /\ UNCHANGED report

\* Changed form of IsFailed: metrics that came with an error are good enough.
IsFailedByRate(m) == m.n > 0 /\ m.rate >= Cases

\* _is_failed: an error, or an error_rate of 1 over some cases.
IsFailed(m) == m.error \/ (m.n > 0 /\ m.rate >= Cases)

\* The next domain, with so many reports written.
Passes(e, wrote) == evaluation' = [evaluation EXCEPT ![e].pc = "look", ![e].at = @ + 1, ![e].wrote = wrote]

\* Changed form of Skips: a report of the date that is there counts as written.
SkipsAsWritten(e) == Passes(e, evaluation[e].wrote + 1)

\* The date has its report of this domain: it is left alone and not counted.
Skips(e) == Passes(e, evaluation[e].wrote)

LooksUp(e) ==
    LET at == evaluation[e].at
    IN  /\ evaluation[e].pc = "look" /\ at \in DomainIndex
        /\ IF IsFailed(evaluation[e].metrics[at]) THEN Passes(e, evaluation[e].wrote)
           ELSE IF report[at] # NoReport THEN Skips(e)
           ELSE evaluation' = [evaluation EXCEPT ![e].pc = "insert"]
        /\ UNCHANGED report

\* The report, with its deviation from the seven before it.
Stores(e) ==
    LET at == evaluation[e].at
    IN  /\ evaluation[e].pc = "insert" /\ report[at] = NoReport
        /\ report' = [report EXCEPT ![at] = [by |-> e, metrics |-> evaluation[e].metrics[at]]]
        /\ Passes(e, evaluation[e].wrote + 1)

Done(e, status) == evaluation' = [evaluation EXCEPT ![e] = Resting(status)]

\* A run that wrote nothing raises.
Finishes(e) ==
    /\ evaluation[e].pc = "look" /\ evaluation[e].at \notin DomainIndex
    /\ Done(e, IF evaluation[e].wrote = 0 THEN "FAILED" ELSE "SUCCESS")
    /\ UNCHANGED report

\* The database fails, or another run stored its report first.
EvalFails(e) ==
    /\ evaluation[e].pc # "rest" /\ Done(e, "FAILED")
    /\ UNCHANGED report

EvalDies(e) ==
    /\ evaluation[e].pc # "rest" /\ Done(e, "none")
    /\ UNCHANGED report

EvalNext == \E e \in Evaluation :
    Evaluates(e) \/ LooksUp(e) \/ Stores(e) \/ Finishes(e) \/ EvalFails(e) \/ EvalDies(e)

-----------------------------------------------------------------------------
\* A run that calls itself a success has stored a report itself, and no report
\* comes from a domain that could not be evaluated.
SuccessMeansReport ==
    /\ \A e \in Evaluation : evaluation[e].status = "SUCCESS" => \E d \in DomainIndex : report[d].by = e
    /\ \A d \in DomainIndex : report[d] # NoReport => ~report[d].metrics.error

\* What _is_failed is there for: a domain of which every case failed gets no
\* report ("100% 条失败", eval_nightly.py:99).
NoReportOfFailure == \A d \in DomainIndex : report[d] # NoReport => report[d].metrics.passed > 0
=============================================================================
