--------------------------- MODULE SemanticCache ---------------------------
(***************************************************************************)
(* The semantic cache of the knowledge chat (shared/rag/semantic_cache.py):*)
(* answers found again by questions that are alike.  Redis is shared; each *)
(* instance keeps entries of its own under one key when it put them and    *)
(* under another when it filled them in from Redis, and counts towards the *)
(* size bound only keys it touched.  An entry carries its age: the reading *)
(* of a monotonic clock, which the processes of one host share.            *)
(*                                                                         *)
(* Redis or the embedder may fail at any call: the call is then a miss or  *)
(* a put nobody sees.  Redis's own expiry (_REDIS_TTL, a week) is left     *)
(* out: _search refuses an entry long before.                              *)
(***************************************************************************)
EXTENDS Naturals, Sequences, SequencesExt

CONSTANTS
    Instance,    \* processes of the service
    Question,    \* texts asked
    Alike,       \* of a question: those whose embedding passes the threshold
    Near,        \* of a question: those that pass the character overlap too
    MaxSize,     \* SEMANTIC_CACHE_MAX_SIZE
    MemLife      \* _MEM_TTL_SECONDS, in ticks

ASSUME CacheAssumption ==
    /\ MaxSize \in Nat \ {0} /\ MemLife \in Nat
    /\ Near \in [Question -> SUBSET Question] /\ Alike \in [Question -> SUBSET Question]
    /\ \A q \in Question : q \in Near[q] /\ Near[q] \subseteq Alike[q]

VARIABLES
    store,     \* _store of each instance
    order,     \* _order of each instance: keys, least recently used first
    remote,    \* the entries in Redis
    idle       \* history: ticks since an instance's memory was last given an
               \* answer to the question (put, or taken over) or served one

cache == <<store, order, remote, idle>>

Key == {"put", "fill"} \X Question      \* "{version}:{hash}" and "{hash}"
Age == 0 .. MemLife + 1                 \* the last one stands for any older
\* History: what an answer rests on (BasisOf), or that the warm-up put it.
Basis == {"none", "retrieved", "warmed"}
NoEntry == [basis |-> "none", age |-> MemLife + 2]
Entry == [basis : Basis, age : Age] \cup {NoEntry}

CacheTypeOK ==
    /\ store \in [Instance -> [Key -> Entry]]
    /\ order \in [Instance -> Seq(Key)]
    /\ \A i \in Instance : Len(order[i]) <= MaxSize /\ IsInjective(order[i])
    /\ remote \in [Question -> Entry]
    /\ idle \in [Instance -> [Question -> Age]]

NoStore == [k \in Key |-> NoEntry]

CacheInit ==
    /\ store = [i \in Instance |-> NoStore]
    /\ order = [i \in Instance |-> <<>>]
    /\ remote = [q \in Question |-> NoEntry]
    /\ idle = [i \in Instance |-> [q \in Question |-> MemLife + 1]]

\* An entry that may answer: expired ones are passed over.
Alive(e) == e.age <= MemLife

\* Changed form of Best: only the sweep looks at ages.
BestKept(entries, q) == {k \in DOMAIN entries : entries[k] # NoEntry /\ k[2] \in Alike[q]}

\* Of the entries, those an embedding search may return for q: the text itself
\* is nearest to itself, else any that is alike.
Best(entries, q) ==
    LET found == {k \in DOMAIN entries : /\ Alive(entries[k])
                                         /\ k[2] \in Alike[q]}
        same == {k \in found : k[2] = q}
    IN  IF same # {} THEN same ELSE found

\* _search: the best one, and only if its wording overlaps.
Hits(entries, q) == {k \in Best(entries, q) : k[2] \in Near[q]}
Misses(entries, q) == Best(entries, q) \ Hits(entries, q) # {} \/ Best(entries, q) = {}

\* _touch: the key becomes the latest used, the oldest beyond the bound goes.
Moved(ord, k) == Append(SelectSeq(ord, LAMBDA x : x # k), k)
OrderTouched(ord, k) ==
    IF Len(Moved(ord, k)) > MaxSize THEN Tail(Moved(ord, k)) ELSE Moved(ord, k)
StoreTouched(st, ord, k) ==
    [x \in Key |-> IF Len(Moved(ord, k)) > MaxSize /\ x = Head(Moved(ord, k)) THEN NoEntry
                   ELSE IF x = k /\ st[x] # NoEntry THEN [st[x] EXCEPT !.age = 0]
                   ELSE st[x]]

\* _sweep_if_due: expired entries are removed when the last sweep was
\* _SWEEP_INTERVAL_SECONDS ago, which may be so at any lookup.
Swept(i, due) ==
    [k \in Key |-> IF due /\ ~ Alive(store[i][k]) THEN NoEntry ELSE store[i][k]]
OrderSwept(i, due) ==
    SelectSeq(order[i], LAMBDA k : store[i][k] = NoEntry \/ Swept(i, due)[k] # NoEntry)
Sweep(i, due) ==
    /\ store' = [store EXCEPT ![i] = Swept(i, due)]
    /\ order' = [order EXCEPT ![i] = OrderSwept(i, due)]

\* Redis's entries as the search sees them, under their memory keys.
Fetched == [k \in {"fill"} \X Question |-> remote[k[2]]]

\* setdefault: what Redis holds is taken over where the key is free.
Filled(st) == [k \in Key |-> IF k[1] = "fill" /\ st[k] = NoEntry THEN remote[k[2]] ELSE st[k]]

\* History: instance i keeps or serves answers to questions qs.
Serve(i, qs) ==
    idle' = [idle EXCEPT ![i] = [q \in Question |-> IF q \in qs THEN 0 ELSE idle[i][q]]]
TakenOver(st) == {q \in Question : st[<<"fill", q>>] = NoEntry /\ remote[q] # NoEntry}

\* What a lookup gives: the question of the entry, where it was found, and its
\* history.
Found == [of : Question, at : {"memory", "redis", "writer"}, basis : Basis]
Miss == [of |-> "none", at |-> "none", basis |-> "none"]
FoundAt(q, at, e) == [of |-> q, at |-> at, basis |-> e.basis]

\* lookup by instance i: memory first, then Redis when it can be reached.
Lookup(i, q, due, reached, found) ==
    LET st == Swept(i, due)
        ord == OrderSwept(i, due)
    IN  /\ \/ \E k \in Hits(st, q) :
                /\ found = FoundAt(k[2], "memory", st[k]) /\ Serve(i, {k[2]})
                /\ store' = [store EXCEPT ![i] = StoreTouched(st, ord, k)]
                /\ order' = [order EXCEPT ![i] = OrderTouched(ord, k)]
           \/ /\ reached /\ Misses(st, q)
              /\ \E k \in Hits(Fetched, q) :
                   /\ found = FoundAt(k[2], "redis", Fetched[k])
                   /\ Serve(i, {k[2]} \cup TakenOver(StoreTouched(st, ord, k)))
                   /\ store' = [store EXCEPT ![i] = Filled(StoreTouched(st, ord, k))]
                   /\ order' = [order EXCEPT ![i] = OrderTouched(ord, k)]
           \/ /\ found = Miss
              /\ Misses(st, q) /\ (reached => Misses(Fetched, q))
              /\ store' = [store EXCEPT ![i] = st]
              /\ order' = [order EXCEPT ![i] = ord]
              /\ UNCHANGED idle
        /\ UNCHANGED remote

\* put by instance i of an answer to q; without an embedding nothing is kept.
Put(i, q, basis, embedded, reached) ==
    LET e == [basis |-> basis, age |-> 0]
        k == <<"put", q>>
    IN  /\ IF embedded
             THEN /\ store' = [store EXCEPT ![i] =
                                 StoreTouched([store[i] EXCEPT ![k] = e], order[i], k)]
                  /\ order' = [order EXCEPT ![i] = OrderTouched(order[i], k)]
                  /\ remote' = IF reached THEN [remote EXCEPT ![q] = e] ELSE remote
                  /\ Serve(i, {q})
             ELSE UNCHANGED <<store, order, remote, idle>>

\* The warm-up job (platform/scheduler/jobs/cache_warmup.py), which has a cache
\* object of its own: an answer nobody validated is put into Redis.
WarmUp(q) ==
    /\ remote' = [remote EXCEPT ![q] = [basis |-> "warmed", age |-> 0]]
    /\ UNCHANGED <<store, order, idle>>

Older(age) == IF age > MemLife THEN age ELSE age + 1
EntryOlder(e) == IF e = NoEntry THEN e ELSE [e EXCEPT !.age = Older(@)]

\* Time passes.
Tick ==
    /\ store' = [i \in Instance |-> [k \in Key |-> EntryOlder(store[i][k])]]
    /\ remote' = [q \in Question |-> EntryOlder(remote[q])]
    /\ idle' = [i \in Instance |-> [q \in Question |-> Older(idle[i][q])]]
    /\ UNCHANGED order

\* Instance i starts again, with an empty memory.
CacheRestart(i) ==
    /\ store' = [store EXCEPT ![i] = NoStore]
    /\ order' = [order EXCEPT ![i] = <<>>]
    /\ idle' = [idle EXCEPT ![i] = [q \in Question |-> MemLife + 1]]
    /\ UNCHANGED remote
=============================================================================
