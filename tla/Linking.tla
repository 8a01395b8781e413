------------------------------ MODULE Linking ------------------------------
(***************************************************************************)
(* SchemaLinker (domains/data/schema_linker.py): which tables a question   *)
(* is about, by the similarity of the question to descriptions of the      *)
(* tables and of their columns.  Only those go into the prompt, of version *)
(* v2; by default PROMPT_VERSION is v1, which takes the whole schema and   *)
(* links nothing.                                                          *)
(***************************************************************************)
EXTENDS Integers, Sequences, FiniteSets, SequencesExt, FiniteSetsExt, Ranking

CONSTANTS
    Table,      \* TABLE_DDL: the tables in their order
    EntryOf,    \* the corpus: of each description, the table it is of
    Closeness,  \* similarities of a question and a description, in parts
    TopTables   \* top_k

ASSUME LinkingAssumption ==
    /\ Table \in Seq(Range(Table)) /\ IsInjective(Table) /\ Table # <<>>
    /\ EntryOf \in Seq(Range(Table)) /\ Range(EntryOf) = Range(Table)
    /\ Closeness \subseteq Int /\ TopTables \in Nat \ {0}

VARIABLE linked     \* the last question: similarities and the tables in its prompt

NotLinked == [sims |-> <<>>, tables |-> <<>>]

LinkingTypeOK == Range(linked.tables) \subseteq Range(Table)
LinkingInit == linked = NotLinked

\* Changed form of TableScore: the last description of a table counts.
TableScoreLast(sims, t) == sims[Max({e \in DOMAIN EntryOf : EntryOf[e] = t})]

\* A table is as near as the nearest of its descriptions.
TableScore(sims, t) == Max({sims[e] : e \in {e \in DOMAIN EntryOf : EntryOf[e] = t}})

\* By score, and tables of one score in their order.
Nearer(sims, i, j) ==
    LET a == TableScore(sims, Table[i]) b == TableScore(sims, Table[j])
    IN  a > b \/ (a = b /\ i < j)

Ranked(sims) ==
    LET places == DOMAIN Table
        order == InOrder(places, {p \in places \X places : Nearer(sims, p[1], p[2])})
    IN  [i \in places |-> Table[order[i]]]

Recalled(sims) == SubSeq(Ranked(sims), 1, IF TopTables < Len(Table) THEN TopTables ELSE Len(Table))

\* Of the recalled tables those within PROMPT_MIN_RATIO, three quarters, of the
\* best.  When the best is negative that is none, and the best is taken.
Injected(sims) ==
    LET best == TableScore(sims, Recalled(sims)[1])
        near == Ascending({i \in DOMAIN Recalled(sims) : 4 * TableScore(sims, Recalled(sims)[i]) >= 3 * best})
    IN  IF near = <<>> THEN <<Recalled(sims)[1]>> ELSE [i \in DOMAIN near |-> Recalled(sims)[near[i]]]

\* A question is linked; the one before it is gone.
Links ==
    /\ linked = NotLinked
    /\ \E sims \in [DOMAIN EntryOf -> Closeness] :
         linked' = [sims |-> sims, tables |-> Injected(sims)]

\* The messages are built; what was linked for them is a local of their builder.
Unlinks == linked # NotLinked /\ linked' = NotLinked

LinkingNext == Links \/ Unlinks

-----------------------------------------------------------------------------
\* The prompt has the table of the nearest description of all, no table twice,
\* and no description of a table that was left out is nearer than all those of
\* one that is in it.
NearestIsInPrompt == linked # NotLinked =>
    LET sims == linked.sims
        in == Range(linked.tables)
    IN  /\ \E e \in DOMAIN EntryOf : EntryOf[e] \in in /\ \A f \in DOMAIN EntryOf : sims[f] <= sims[e]
        /\ IsInjective(linked.tables)
        /\ \A e \in DOMAIN EntryOf : EntryOf[e] \notin in =>
             \A t \in in : \E f \in DOMAIN EntryOf : EntryOf[f] = t /\ sims[f] >= sims[e]
=============================================================================
