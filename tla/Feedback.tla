------------------------------ MODULE Feedback ------------------------------
(***************************************************************************)
(* Corrections of answers (domains/kb/feedback/feedback_store.py): a file  *)
(* that submissions append to and a review rewrites, and the evaluation    *)
(* set that approved corrections flow back to.                             *)
(***************************************************************************)
EXTENDS Naturals, Sequences, SequencesExt

CONSTANTS
    Correction,     \* submissions, each with an id of its own
    QuestionOf,     \* of each submission: its question
    BaseSet,        \* the questions of the base evaluation set
    MaxReviews      \* bound: reviews begun

\* No submission passes for the base, which asks nothing twice.
ASSUME FeedbackAssumption ==
    /\ BaseSet \in Seq(Range(BaseSet)) /\ IsInjective(BaseSet)
    /\ "base" \notin Correction

VARIABLES
    file,       \* lines: submission and status
    submitted,  \* the submissions made so far
    review,     \* the review: what it has read, its decision, lines rewritten
    reviews,    \* reviews begun
    approved,   \* history: the submissions a review has approved
    evalSet     \* qa_eval_set.v2.json: question and source

feedback == <<file, submitted, review, reviews, approved, evalSet>>

Status == {"pending", "approved", "rejected"}
Line == [by : Correction, status : Status]
NoReview == [of |-> "none"]

FeedbackTypeOK ==
    /\ Range(file) \subseteq Line /\ approved \subseteq submitted /\ submitted \subseteq Correction
    /\ reviews \in 0 .. MaxReviews
    /\ \A i \in DOMAIN evalSet : evalSet[i].source \in {"base"} \cup Correction

FeedbackInit ==
    /\ file = <<>> /\ submitted = {} /\ review = NoReview /\ reviews = 0
    /\ approved = {} /\ evalSet = <<>>

\* submit: the line of a submission.
Submission(c) == [by |-> c, status |-> "pending"]

\* POST /api/v1/kb/feedback, with a corrected answer.
Submits(c) ==
    /\ c \notin submitted /\ submitted' = submitted \cup {c}
    /\ file' = Append(file, Submission(c))
    /\ UNCHANGED <<review, reviews, approved, evalSet>>

\* review: the whole file is read ...
ReviewReads(c) ==
    /\ review = NoReview /\ reviews < MaxReviews /\ reviews' = reviews + 1
    /\ \E i \in DOMAIN file : file[i].by = c
    /\ \E status \in {"approved", "rejected"} :
         review' = [of |-> c, status |-> status,
                    lines |-> [i \in DOMAIN file |->
                        IF file[i].by = c THEN [file[i] EXCEPT !.status = status] ELSE file[i]],
                    opened |-> FALSE]
    /\ approved' = IF review'.status = "approved" THEN approved \cup {c} ELSE approved
    /\ UNCHANGED <<file, submitted, evalSet>>

\* ... opened for writing, which empties it, with all that came since ...
ReviewOpens ==
    /\ review # NoReview /\ ~review.opened
    /\ file' = <<>> /\ review' = [review EXCEPT !.opened = TRUE]
    /\ UNCHANGED <<submitted, reviews, approved, evalSet>>

\* ... and written line by line.
ReviewWrites ==
    /\ review # NoReview /\ review.opened /\ review.lines # <<>>
    /\ file' = Append(file, Head(review.lines))
    /\ review' = [review EXCEPT !.lines = Tail(@)]
    /\ UNCHANGED <<submitted, reviews, approved, evalSet>>

\* It is done, or dies and leaves what it has written.
ReviewEnds ==
    /\ review # NoReview /\ review' = NoReview
    /\ UNCHANGED <<file, submitted, reviews, approved, evalSet>>

\* Changed form of IsNew: questions are looked for among ids.
IsNewId(c, set) == \A i \in DOMAIN set : set[i].source # c

IsNew(c, set) == \A i \in DOMAIN set : set[i].question # QuestionOf[c]

\* flow_back_to_eval: the base, and then, in the order of the file, approved
\* corrections of questions that are not there yet.
BaseItems == [i \in DOMAIN BaseSet |-> [question |-> BaseSet[i], source |-> "base"]]

Added(line, set) ==
    IF line.status = "approved" /\ IsNew(line.by, set)
    THEN Append(set, [question |-> QuestionOf[line.by], source |-> line.by]) ELSE set

EvalSet ==
    LET upTo[n \in 0 .. Len(file)] == IF n = 0 THEN BaseItems ELSE Added(file[n], upTo[n - 1])
    IN  upTo[Len(file)]

FlowsBack == evalSet' = EvalSet /\ UNCHANGED <<file, submitted, review, reviews, approved>>

FeedbackNext ==
    \/ \E c \in Correction : Submits(c) \/ ReviewReads(c)
    \/ ReviewOpens \/ ReviewWrites \/ ReviewEnds \/ FlowsBack

-----------------------------------------------------------------------------
\* The evaluation set asks no question twice, keeps the base's own answer of
\* each of its questions, and takes a correction only if a review approved it,
\* also while the file is half rewritten.
EvalAsksOnce ==
    /\ \A i, j \in DOMAIN evalSet : evalSet[i].question = evalSet[j].question => i = j
    /\ evalSet # <<>> => \A i \in DOMAIN BaseSet : evalSet[i] = [question |-> BaseSet[i], source |-> "base"]
    /\ \A i \in DOMAIN evalSet : evalSet[i].source \in approved \cup {"base"}
=============================================================================
