------------------------------ MODULE Routing ------------------------------
(***************************************************************************)
(* SemanticRouter (shared/rag/semantic_router.py): servers start one by    *)
(* one over a file of labelled samples, which people edit, and a file of   *)
(* the samples' vectors, which the first server that finds it missing or   *)
(* of another version writes.  A server that cannot load the model goes on *)
(* with hashes for vectors.  A question goes by a rule, by the labels of   *)
(* its nearest samples, or to the default.  Without a sample file a server *)
(* routes by prototypes, which is left out.                                *)
(***************************************************************************)
EXTENDS Naturals, Sequences, FiniteSets, SequencesExt, FiniteSetsExt

CONSTANTS
    Server,
    Label, LabelOf,     \* of each sample: its label
    Default,            \* SEMANTIC_ROUTER_FALLBACK
    Threshold,          \* SEMANTIC_ROUTER_THRESHOLDS, of each label
    Similarity,         \* what two vectors can have
    Nearest,            \* _KNN_K
    MaxEdits            \* bound: edits of the sample file

ASSUME RoutingAssumption ==
    /\ Default \in Label /\ LabelOf \in Seq(Label) /\ Similarity \subseteq Nat /\ Nearest \in Nat \ {0}
    /\ Threshold \in [Label -> Nat] /\ MaxEdits \in Nat

VARIABLES
    samples,    \* the sample file: its version and its content
    vectors,    \* the vector file: its version, and (history) whose vectors
    server,     \* of each server: its step, its samples, its embedder, whose vectors it has
    careless,   \* history: an edit has kept the version
    degraded,   \* history: vectors were made without the model
    routed      \* the last question: similarities, route, score, source

routing == <<samples, vectors, server, careless, degraded, routed>>

File == [version : 0 .. MaxEdits, content : 0 .. MaxEdits]
NoFile == [version |-> MaxEdits + 1, content |-> MaxEdits + 1]
\* The model's vectors, or hashes of the text.
Embedding == {"real", "mock"}
Vectors == [version : 0 .. MaxEdits, content : 0 .. MaxEdits, by : Embedding]
NoVectors == [version |-> MaxEdits + 1, content |-> MaxEdits + 1, by |-> "mock"]
Down == [pc |-> "down", file |-> NoFile, embedder |-> "real", of |-> 0, by |-> "real"]
NotRouted == [sims |-> <<>>, route |-> Default, score |-> 0, source |-> "none"]

RoutingTypeOK ==
    /\ samples \in File /\ vectors \in Vectors \cup {NoVectors}
    /\ careless \in BOOLEAN /\ degraded \in BOOLEAN
    /\ server \in [Server -> [pc : {"down", "load", "embed", "save", "write", "up"},
                              file : File \cup {NoFile}, embedder : Embedding,
                              of : 0 .. MaxEdits, by : Embedding]]
    /\ routed.route \in Label

RoutingInit ==
    /\ samples = [version |-> 0, content |-> 0] /\ vectors = NoVectors
    /\ server = [s \in Server |-> Down] /\ routed = NotRouted
    /\ careless = FALSE /\ degraded = FALSE

RouterAt(s, pc) == server[s].pc = pc
RouterTo(s, pc) == server' = [server EXCEPT ![s].pc = pc]

\* Samples are added, and the version raised, or forgotten.
EditsSamples ==
    /\ samples.content < MaxEdits
    /\ \E raise \in {0, 1} :
         /\ samples' = [version |-> samples.version + raise, content |-> samples.content + 1]
         /\ careless' = (careless \/ raise = 0)
    /\ UNCHANGED <<vectors, server, degraded, routed>>

\* get_semantic_router: Embedder loads the model, or degrades to mock, and
\* _load_samples reads the samples.
LoadsSamples(s) ==
    /\ RouterAt(s, "down")
    /\ \E model \in Embedding :
         server' = [server EXCEPT ![s].pc = "load", ![s].file = samples, ![s].embedder = model]
    /\ UNCHANGED <<samples, vectors, careless, degraded, routed>>

\* Changed form of GoodFor: any vector file that can be read will do.
GoodForAny(file) == vectors # NoVectors

\* The vector file can be read and is of the version of these samples; what
\* embedded them it does not say.
GoodFor(file) == vectors # NoVectors /\ vectors.version = file.version

LoadsVectors(s) ==
    /\ RouterAt(s, "load")
    /\ IF GoodFor(server[s].file)
       THEN server' = [server EXCEPT ![s].pc = "up", ![s].of = vectors.content, ![s].by = vectors.by]
       ELSE RouterTo(s, "embed")
    /\ UNCHANGED <<samples, vectors, careless, degraded, routed>>

\* The samples are embedded by the model or the hash.  Only the model can
\* raise; the next question then starts the router again.
Embeds(s) ==
    /\ RouterAt(s, "embed")
    /\ \/ /\ server' = [server EXCEPT ![s].pc = "save", ![s].of = server[s].file.content,
                                       ![s].by = server[s].embedder]
          /\ degraded' = (degraded \/ server[s].embedder = "mock")
       \/ /\ server[s].embedder = "real"
          /\ server' = [server EXCEPT ![s] = Down] /\ UNCHANGED degraded
    /\ UNCHANGED <<samples, vectors, careless, routed>>

\* write_text empties the file and writes it; what fails is passed over.  Two
\* writers over one another can leave a file that cannot be read.
OpensVectors(s) ==
    /\ RouterAt(s, "save")
    /\ \/ RouterTo(s, "write") /\ vectors' = NoVectors
       \/ RouterTo(s, "up") /\ UNCHANGED vectors
    /\ UNCHANGED <<samples, careless, degraded, routed>>

WritesVectors(s) ==
    /\ RouterAt(s, "write") /\ RouterTo(s, "up")
    /\ vectors' \in {[version |-> server[s].file.version, content |-> server[s].of, by |-> server[s].by],
                     NoVectors}
    /\ UNCHANGED <<samples, careless, degraded, routed>>

ServerStops(s) ==
    /\ ~RouterAt(s, "down") /\ server' = [server EXCEPT ![s] = Down]
    /\ UNCHANGED <<samples, vectors, careless, degraded, routed>>

-----------------------------------------------------------------------------
Sample == DOMAIN LabelOf

\* argsort leaves the order of equals open.
Neighbours(sims) ==
    {near \in kSubset(IF Nearest < Len(LabelOf) THEN Nearest ELSE Len(LabelOf), Sample) :
        \A i \in near, j \in Sample \ near : sims[i] >= sims[j]}

\* The votes of a label: the similarities of its samples among the nearest.
Votes(near, sims, l) == MapThenSumSet(LAMBDA i : sims[i], {i \in near : LabelOf[i] = l})

\* The label with most votes; of equals, the one whose sample is nearest, and
\* that again is open.
Winners(near, sims) ==
    {l \in {LabelOf[i] : i \in near} :
        \A m \in {LabelOf[i] : i \in near} : Votes(near, sims, l) >= Votes(near, sims, m)}

\* What a label got: its score is that of the nearest sample, whatever its
\* label.
BySamples(near, sims, l) ==
    LET top == Max({sims[i] : i \in near})
    IN  [sims |-> sims, score |-> top,
         route |-> IF top >= Threshold[l] THEN l ELSE Default,
         source |-> IF top >= Threshold[l] THEN "sample" ELSE "fallback"]

\* All that the samples can answer.
Answers == UNION {UNION {{BySamples(near, sims, l) : l \in Winners(near, sims)} :
                            near \in Neighbours(sims)} : sims \in [Sample -> Similarity]}

\* A rule, or the samples; an empty question goes to the default.  Any server
\* that is up answers, and which one it is makes no difference.
RoutesQuestion ==
    /\ routed = NotRouted /\ UNCHANGED <<samples, vectors, server, careless, degraded>>
    /\ routed' \in Answers \cup {[NotRouted EXCEPT !.source = "fallback"]} \cup
                   {[sims |-> <<>>, route |-> l, score |-> 1, source |-> "rule"] : l \in Label}

QuestionEnds ==
    /\ routed # NotRouted /\ routed' = NotRouted
    /\ UNCHANGED <<samples, vectors, server, careless, degraded>>

ServersNext ==
    \/ EditsSamples
    \/ \E s \in Server : \/ LoadsSamples(s) \/ LoadsVectors(s) \/ Embeds(s) \/ OpensVectors(s)
                         \/ WritesVectors(s) \/ ServerStops(s)

RoutingNext == ServersNext \/ RoutesQuestion \/ QuestionEnds

-----------------------------------------------------------------------------
\* A server that is up has the vectors of the samples it has, as long as every
\* edit raises the version ("追加样本 + bump version"), and one with the model
\* has the model's, as long as none without it has embedded samples: however
\* starts, edits, failed and overlapping writes of the two files interleave.
VectorsAreOfSamples == \A s \in Server : RouterAt(s, "up") =>
    /\ ~careless => server[s].of = server[s].file.content
    /\ ~degraded /\ server[s].embedder = "real" => server[s].by = "real"

\* Samples are embedded the way route embeds the question
\* (semantic_router.py:145).  TLC refutes it: a server whose model could not
\* be loaded saves its hashes under the version of the samples, and later ones
\* with the model take them from the file.
EmbeddedAlike == \A s \in Server : RouterAt(s, "up") => server[s].by = server[s].embedder

\* What route() says of its score: the similarity of the nearest sample of the
\* winning label ("胜出类的 Top1 邻居相似度").
ScoreIsOfTheRoute == routed.source = "sample" =>
    \E i \in Sample : LabelOf[i] = routed.route /\ routed.sims[i] = routed.score
=============================================================================
