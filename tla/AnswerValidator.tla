-------------------------- MODULE AnswerValidator --------------------------
(***************************************************************************)
(* generate_with_validation (domains/kb/agent/answer_validator.py): an     *)
(* answer is written from a context of documents, its citations are        *)
(* normalised and checked by rule and by a second model call, and on       *)
(* failure the context is widened and the answer written again, MaxRetries *)
(* times.  One question's work, as functions of its state; texts are data: *)
(* an answer is what its wording amounts to and what it cites.  Only the   *)
(* first documents of the context are put before the writer, while the     *)
(* rules accept any document of it.  CRAG's reflection changes prompts     *)
(* only.  No golden documents: production.                                 *)
(***************************************************************************)
EXTENDS Naturals, FiniteSets

CONSTANTS
    Doc,         \* documents of the knowledge base, by their full names
    ShortName,   \* of a document: its number without the title
    TopK,        \* documents of one retrieval
    PromptDocs,  \* max_docs of the prompt for a question of unknown type
    MaxRetries   \* max_retries

ASSUME ValidatorAssumption == TopK \in Nat /\ PromptDocs \in Nat /\ MaxRetries \in Nat

Short == {ShortName[d] : d \in Doc}
Wording == {"states",    \* a statement
            "hedges",    \* a phrase _is_refusal knows and the rules do not
            "refuses",   \* "未检索到", which both know
            "empty"}
Answer == [wording : Wording, cites : SUBSET (Doc \cup Short)]

\* The documents retrieved for a question, and those of them in the prompt:
\* the first PromptDocs in the order they were retrieved.
Context == {c \in [hits : SUBSET Doc, shown : SUBSET Doc] :
              /\ c.shown \subseteq c.hits
              /\ \/ c.shown = c.hits /\ Cardinality(c.hits) <= PromptDocs
                 \/ Cardinality(c.shown) = PromptDocs}
NoContext == [hits |-> {}, shown |-> {}]

\* One retrieval: with Qdrant the fused ranking, without it BM25 alone.
Retrieved == {c \in Context : Cardinality(c.hits) <= TopK}

\* What is found later goes behind what is there.
Extended(context, found) ==
    {c \in Context : c.hits = context.hits \cup found /\ context.shown \subseteq c.shown}

\* A citation becomes the one known document it names, or stays what it is.
Normalised(c, known) ==
    LET named == {d \in known : c \in {d, ShortName[d]}}
        base == IF c \in Doc THEN ShortName[c] ELSE c
        loose == {d \in known : ShortName[d] = base}
    IN  IF c \in known THEN c
        ELSE IF Cardinality(named) = 1 THEN CHOOSE d \in named : TRUE
        ELSE IF Cardinality(loose) = 1 THEN CHOOSE d \in loose : TRUE
        ELSE c

normalize_citations(cites, known) == {Normalised(c, known) : c \in cites}

\* Changed form of RuleCheck: any document of the knowledge base may be cited.
RuleCheckByName(answer, context) ==
    IF answer.cites = {} THEN answer.wording = "refuses"
    ELSE answer.cites \subseteq Doc /\ answer.wording # "refuses"

\* _rule_check: citations from the context, or a refusal without any.
RuleCheck(answer, context) ==
    IF answer.cites = {} THEN answer.wording = "refuses"
    ELSE answer.cites \subseteq context.hits /\ answer.wording # "refuses"

\* The model wrote an answer; one citation is enough to tell from none.
Written(context) ==
    {[wording |-> wording, cites |-> normalize_citations(cites, context.hits)] :
        wording \in Wording, cites \in {{}} \cup {{c} : c \in Doc \cup Short}}

\* The context of the next round: documents named as missing are looked up by
\* title, a refusal is retried with more hits of the question, else as it is.
Widened(answer, context, missing) ==
    IF missing # {}
      THEN UNION {Extended(context, found) : found \in SUBSET (missing \ context.hits)}
    ELSE IF answer.wording \in {"refuses", "hedges"}
      THEN UNION {Extended(context, more.hits) : more \in Retrieved}
    ELSE {context}

\* Changed form of NextRound: a failed round is not counted.
SameRound(round) == round

NextRound(round) == round + 1

LastRound(round) == round >= MaxRetries

\* History: what an answer rests on: it cites only what was retrieved for the
\* question (or refuses and cites nothing), or something else.
BasisOf(answer, context) ==
    IF IF answer.cites = {} THEN answer.wording = "refuses" ELSE answer.cites \subseteq context.hits
      THEN "retrieved" ELSE "none"

\* What the answers a context may give come to.  validate_answer: the rules,
\* then the model, which names missing documents, or fails, which is a pass.
\* History: basis; read says that what is cited lay before the writer.
Judged(context) ==
    LET right == {a \in Written(context) : RuleCheck(a, context)}
        Again(a, missing) ==
            {[passed |-> FALSE, empty |-> FALSE, basis |-> "none", read |-> FALSE,
              from |-> context, to |-> wider] :
                wider \in Widened(a, context, missing)}
    IN  {[passed |-> TRUE, empty |-> a.wording = "empty", from |-> context, to |-> context,
          basis |-> BasisOf(a, context), read |-> a.cites \subseteq context.shown] : a \in right}
        \cup (UNION {Again(a, {}) : a \in Written(context) \ right})
        \cup (UNION {Again(a, missing) : a \in right, missing \in SUBSET Doc})

\* The table of it, which depends on the constants alone.
Judgement == UNION {Judged(context) : context \in Context}
=============================================================================
