----------------------------- MODULE Retrieval -----------------------------
(***************************************************************************)
(* Hybrid retrieval (shared/rag/hybrid_retriever.py, sharding.py) over a   *)
(* base collection that is written to while a script copies it into shards *)
(* by tenant (scripts/migrate_sharding.py).  The vector and the BM25       *)
(* rankings are whatever the two engines answer; their fusion and the      *)
(* reranking are the code's.                                               *)
(***************************************************************************)
EXTENDS Naturals, Sequences, FiniteSets, SequencesExt, Ranking

CONSTANTS
    Chunk,          \* chunk ids, in the order that breaks ties
    DocOf,          \* of each chunk: its document
    TenantOf,       \* of each chunk: the tenant in its payload, or Public
    Public,         \* no tenant: also the tenant of a query that names none
    Shard, ShardOf, \* crc32 of a tenant, modulo the number of shards
    DefaultTenant,  \* where the script puts chunks without a tenant
    Listed,         \* chunks_title.json, which BM25 was built from
    Depth,          \* VEC_CANDIDATES, BM25_CANDIDATES
    TopK,
    RrfK,           \* 60
    MaxWrites       \* bound: chunks written to the base collection

ASSUME RetrievalAssumption ==
    /\ Chunk \subseteq Nat /\ IsFiniteSet(Chunk) /\ Listed \subseteq Chunk
    /\ \A c \in Chunk : TenantOf[c] # Public => ShardOf[TenantOf[c]] \in Shard
    /\ RrfK \in Nat /\ {Depth, TopK} \subseteq Nat

VARIABLES
    base,       \* the base collection
    shards,     \* of each shard: its chunks; a shard that is not there has none
    sharding,   \* SCM_SHARDING
    copying,    \* the script: its step, what it read, the shards still to write
    written,    \* chunks written so far
    found       \* the last query: tenant, rankings, whether degraded, results

retrieval == <<base, shards, sharding, copying, written, found>>

Tenants == {TenantOf[c] : c \in Chunk} \ {Public}
\* TenantFilter asks for one tenant, never for none; the chat asks for none.
Askers == Tenants \cup {Public}
NotAsked == [tenant |-> Public, vec |-> <<>>, bm25 |-> <<>>, ranked |-> FALSE, out |-> <<>>]

RetrievalTypeOK ==
    /\ base \subseteq Chunk /\ shards \in [Shard -> SUBSET Chunk] /\ sharding \in BOOLEAN
    /\ copying \in [pc : {"rest", "write"}, chunks : SUBSET Chunk, left : SUBSET Shard]
    /\ written \in 0 .. MaxWrites
    /\ found.tenant \in Askers /\ Len(found.out) <= TopK

RetrievalInit ==
    /\ base = Listed /\ shards = [s \in Shard |-> {}] /\ sharding = FALSE
    /\ copying = [pc |-> "rest", chunks |-> {}, left |-> {}]
    /\ written = 0 /\ found = NotAsked

\* The synchronization and the scripts that load tenants know the base only.
WritesBase ==
    /\ written < MaxWrites /\ written' = written + 1
    /\ \E c \in Chunk : base' = IF c \in base THEN base \ {c} ELSE base \cup {c}
    /\ found' = NotAsked /\ UNCHANGED <<shards, sharding, copying>>

\* All points are read before the first is written.
CopyBegins ==
    /\ copying.pc = "rest"
    /\ copying' = [pc |-> "write", chunks |-> base, left |-> Shard]
    /\ found' = NotAsked /\ UNCHANGED <<base, shards, sharding, written>>

\* Chunks without a tenant go to a tenant's shard, their payload unchanged.
BelongsTo(s) == {c \in copying.chunks :
    ShardOf[IF TenantOf[c] = Public THEN DefaultTenant ELSE TenantOf[c]] = s}

CopiesShard(s) ==
    /\ copying.pc = "write" /\ s \in copying.left
    /\ shards' = [shards EXCEPT ![s] = @ \cup BelongsTo(s)]
    /\ copying' = IF copying.left = {s} THEN [pc |-> "rest", chunks |-> {}, left |-> {}]
                  ELSE [copying EXCEPT !.left = @ \ {s}]
    /\ found' = NotAsked /\ UNCHANGED <<base, sharding, written>>

CopyDies ==
    /\ copying.pc = "write"
    /\ copying' = [pc |-> "rest", chunks |-> {}, left |-> {}]
    /\ found' = NotAsked /\ UNCHANGED <<base, shards, sharding, written>>

\* A restart with the other setting; nothing says the copy is complete.
Switches ==
    /\ sharding' = ~sharding
    /\ found' = NotAsked /\ UNCHANGED <<base, shards, copying, written>>

-----------------------------------------------------------------------------
Collection(t) == IF t # Public /\ sharding THEN shards[ShardOf[t]] ELSE base

\* Changed form of Filtered: a shard is taken to hold one tenant's chunks.
FilteredUnlessSharded(S, t) == {c \in S : t # Public /\ ~sharding => TenantOf[c] = t}

\* The condition on tenant_id that a query with a tenant carries.
Filtered(S, t) == {c \in S : t # Public => TenantOf[c] = t}

Hits(S) == {s \in SetToAllKPermutations(S) : Len(s) = IF Cardinality(S) < Depth THEN Cardinality(S) ELSE Depth}

\* SCMStore.query, once it answers: retries come before a failure.
VectorHits(t) == Hits(Filtered(Collection(t), t))

\* 1 / (k + rank) summed over the rankings, as a fraction.
Rank(c, s) == CHOOSE i \in DOMAIN s : s[i] = c
PlaceOf(c, s) == IF Contains(s, c) THEN RrfK + Rank(c, s) ELSE 0

\* Changed form of Beats: ranks are compared as if they were scores.
BeatsByRank(a, b, vec, bm25) ==
    LET sum(c) == PlaceOf(c, vec) + PlaceOf(c, bm25)
    IN  sum(a) > sum(b) \/ (sum(a) = sum(b) /\ a < b)

Beats(a, b, vec, bm25) ==
    LET score(c) == LET p == PlaceOf(c, vec) q == PlaceOf(c, bm25)
                    IN  IF p = 0 THEN <<1, q>> ELSE IF q = 0 THEN <<1, p>> ELSE <<p + q, p * q>>
        x == score(a)[1] * score(b)[2]
        y == score(b)[1] * score(a)[2]
    IN  x > y \/ (x = y /\ a < b)

Fused(vec, bm25) ==
    LET hits == Range(vec) \cup Range(bm25)
    IN  InOrder(hits, {p \in hits \X hits : Beats(p[1], p[2], vec, bm25)})

\* RuleReranker: the first chunk of each document.  A chunk that BM25's file
\* does not list has the empty document id.
MetaDoc(c) == IF c \in Listed THEN DocOf[c] ELSE "none"
OnePerDoc(s) ==
    LET first(i) == \A j \in 1 .. i - 1 : MetaDoc(s[j]) # MetaDoc(s[i])
        kept == Ascending({i \in DOMAIN s : first(i)})
    IN  [i \in 1 .. IF Len(kept) < TopK THEN Len(kept) ELSE TopK |-> s[kept[i]]]

\* BGEReranker: the order of the model's scores, whatever they are.
ModelRanked(s) == {r \in SetToAllKPermutations(Range(s)) : Len(r) = Len(s)}

\* Hybrid, reranked by the model or, without it, by the rule; and BM25 alone
\* when the vector store does not answer.  Queries change nothing, so one
\* between two steps is enough.
Retrieves ==
    /\ found = NotAsked
    /\ \E t \in Askers : \E bm25 \in Hits(Filtered(Listed, t)) :
          \/ \E vec \in VectorHits(t) :
                LET fused == Fused(vec, bm25)
                IN  \/ found' = [tenant |-> t, vec |-> vec, bm25 |-> bm25, ranked |-> TRUE,
                                 out |-> OnePerDoc(fused)]
                    \/ \E s \in ModelRanked(fused) :
                          found' = [NotAsked EXCEPT !.tenant = t, !.out = OnePerDoc(s)]
          \/ found' = [NotAsked EXCEPT !.tenant = t,
                       !.out = SubSeq(bm25, 1, IF Len(bm25) < TopK THEN Len(bm25) ELSE TopK)]
    /\ UNCHANGED <<base, shards, sharding, copying, written>>

RetrievalNext ==
    \/ WritesBase \/ CopyBegins \/ \E s \in Shard : CopiesShard(s) \/ CopyDies
    \/ Switches \/ Retrieves

-----------------------------------------------------------------------------
\* A query of a tenant returns chunks of that tenant alone, whether its
\* collection is the base or a shard it shares with another tenant, whichever
\* ranking answers, and however far a copy has got.
TenantSeesOwn == found.tenant # Public => \A i \in DOMAIN found.out : TenantOf[found.out[i]] = found.tenant

Ahead(a, b, s) == Contains(s, a) /\ (Contains(s, b) => Rank(a, s) < Rank(b, s))

\* With the rule reranker, a chunk that both rankings put ahead of another is
\* not left behind it: it, or a better chunk of its document, comes first.
BothListsAgree == found.ranked => \A i \in DOMAIN found.out : \A a \in Chunk :
    Ahead(a, found.out[i], found.vec) /\ Ahead(a, found.out[i], found.bm25) =>
        \E j \in 1 .. i - 1 : MetaDoc(found.out[j]) = MetaDoc(a)
=============================================================================
