---------------------------- MODULE KbChatProofs ----------------------------
(***************************************************************************)
(* Proofs about KbChat for any number of streams, instances, questions and *)
(* documents, any size of the cache and any number of rounds.  What is     *)
(* streamed as validated is supported because every entry of every store   *)
(* is: a stream puts only what passed, what the warm-up puts is marked, and*)
(* an entry is copied, aged and dropped but never mixed with another.      *)
(***************************************************************************)
EXTENDS KbChat, FiniteSetTheorems, TLAPS

\* An entry that is there rests on something.
Good(e) == e = NoEntry \/ e.basis # "none"

\* What memory and Redis hold.
StoresInv ==
    /\ store \in [Instance -> [Key -> Entry]] /\ remote \in [Question -> Entry]
    /\ \A i \in Instance, k \in Key : Good(store[i][k])
    /\ \A q \in Question : Good(remote[q])

\* What an answer a to question q is.
Supported(a, q) == a # Miss => a.basis # "none" /\ a.of \in Near[q]

\* What a stream in state s knows.
ChatGood(s) ==
    /\ IF s.pc = "idle" THEN s.answer = Miss ELSE s.asked \in Question
    /\ s.pc = "put" => s.answer # Miss
    /\ s.pc = "retry" => ~LastRound(s.round)
    /\ Supported(s.answer, s.asked)

ChatInv == chat \in [Chat -> ChatState] /\ \A c \in Chat : ChatGood(chat[c])

Inv == StoresInv /\ ChatInv

-----------------------------------------------------------------------------
\* The absent entry is no live one; a live entry has the fields of one.
LEMMA EntryKinds ==
    /\ NoEntry \in Entry /\ ~Alive(NoEntry)
    /\ \A e \in Entry : e # NoEntry => e \in [basis : Basis, age : Age]
BY CacheAssumption DEF Entry, NoEntry, Alive

\* A judgement that passes rests on what was retrieved: the rules ask for that.
LEMMA PassesSound ==
    ASSUME NEW j \in Judgement, j.passed
    PROVE  j.basis = "retrieved"
<1>1. PICK context \in Context : j \in Judged(context)
    BY DEF Judgement
<1>2. PICK a \in Written(context) :
        /\ RuleCheck(a, context)
        /\ j = [passed |-> TRUE, empty |-> a.wording = "empty", from |-> context, to |-> context,
                basis |-> BasisOf(a, context), read |-> a.cites \subseteq context.shown]
    <2> DEFINE right == {a \in Written(context) : RuleCheck(a, context)}
               Pass(a) ==
                 [passed |-> TRUE, empty |-> a.wording = "empty", from |-> context, to |-> context,
                  basis |-> BasisOf(a, context), read |-> a.cites \subseteq context.shown]
               Again(a, missing) ==
                 {[passed |-> FALSE, empty |-> FALSE, basis |-> "none", read |-> FALSE,
                   from |-> context, to |-> wider] :
                    wider \in Widened(a, context, missing)}
               passes == {Pass(a) : a \in right}
               refused == UNION {Again(a, {}) : a \in Written(context) \ right}
               wanting == UNION {Again(a, missing) : a \in right, missing \in SUBSET Doc}
    <2>1. Judged(context) = passes \cup refused \cup wanting
        BY DEF Judged
    <2>2. \A a, missing : j \notin Again(a, missing)
        OBVIOUS
    <2>3. j \notin refused /\ j \notin wanting
        <3> HIDE DEF right, Again
        <3> QED BY <2>2
    <2>4. j \in passes
        <3> HIDE DEF passes, refused, wanting
        <3> QED BY <1>1, <2>1, <2>3
    <2> QED BY <2>4
<1> QED BY <1>2 DEF RuleCheck, BasisOf

\* A hit is near enough, and lives.
LEMMA HitFacts ==
    ASSUME NEW entries, NEW q, NEW k \in Hits(entries, q)
    PROVE  k \in DOMAIN entries /\ k[2] \in Near[q] /\ Alive(entries[k])
BY DEF Hits, Best

\* Touching an entry keeps a store sound.
LEMMA TouchedGood ==
    ASSUME NEW st \in [Key -> Entry], \A x \in Key : Good(st[x]), NEW ord, NEW k
    PROVE  /\ StoreTouched(st, ord, k) \in [Key -> Entry]
           /\ \A x \in Key : Good(StoreTouched(st, ord, k)[x])
<1>1. \A x \in Key : st[x] # NoEntry =>
         [st[x] EXCEPT !.age = 0] \in Entry /\ Good([st[x] EXCEPT !.age = 0])
    <2> SUFFICES ASSUME NEW x \in Key, st[x] # NoEntry
                 PROVE  [st[x] EXCEPT !.age = 0] \in Entry /\ Good([st[x] EXCEPT !.age = 0])
        OBVIOUS
    <2>1. st[x] \in [basis : Basis, age : Age] /\ st[x].basis # "none" /\ 0 \in Age
        BY EntryKinds, CacheAssumption DEF Good, Age
    <2> QED BY <2>1 DEF Entry, Good
<1> DEFINE gone(x) == Len(Moved(ord, k)) > MaxSize /\ x = Head(Moved(ord, k))
           at(x) == IF gone(x) THEN NoEntry
                    ELSE IF x = k /\ st[x] # NoEntry THEN [st[x] EXCEPT !.age = 0] ELSE st[x]
<1>2. StoreTouched(st, ord, k) = [x \in Key |-> at(x)]
    BY DEF StoreTouched
<1>3. \A x \in Key : at(x) \in Entry /\ Good(at(x))
    <2> HIDE DEF gone
    <2> QED BY <1>1, EntryKinds DEF Good
<1> HIDE DEF at
<1> QED BY <1>2, <1>3

\* So does sweeping the store of an instance.
LEMMA SweptGood ==
    ASSUME StoresInv, NEW i \in Instance, NEW due
    PROVE  Swept(i, due) \in [Key -> Entry] /\ \A k \in Key : Good(Swept(i, due)[k])
BY EntryKinds DEF Swept, StoresInv, Good

\* And taking over what Redis holds.
LEMMA FilledGood ==
    ASSUME StoresInv, NEW st \in [Key -> Entry], \A x \in Key : Good(st[x])
    PROVE  Filled(st) \in [Key -> Entry] /\ \A k \in Key : Good(Filled(st)[k])
<1>1. \A k \in Key : k[2] \in Question
    BY DEF Key
<1> QED BY <1>1 DEF Filled, StoresInv

\* A store that changed in one instance only.
LEMMA StoreOf ==
    ASSUME StoresInv, NEW i \in Instance, NEW st \in [Key -> Entry], \A x \in Key : Good(st[x]),
           store' = [store EXCEPT ![i] = st], UNCHANGED remote
    PROVE  StoresInv'
BY DEF StoresInv

\* A lookup leaves sound stores, and finds what is near and sound.
LEMMA LookupGood ==
    ASSUME StoresInv, NEW i \in Instance, NEW q \in Question, NEW due \in BOOLEAN,
           NEW reached \in BOOLEAN, NEW found, Lookup(i, q, due, reached, found)
    PROVE  StoresInv' /\ Supported(found, q)
<1> DEFINE st == Swept(i, due)
           ord == OrderSwept(i, due)
<1>1. st \in [Key -> Entry] /\ \A k \in Key : Good(st[k])
    BY SweptGood
<1>2. UNCHANGED remote
    BY DEF Lookup
<1>3. \/ \E k \in Hits(st, q) :
            /\ found = FoundAt(k[2], "memory", st[k])
            /\ store' = [store EXCEPT ![i] = StoreTouched(st, ord, k)]
      \/ \E k \in Hits(Fetched, q) :
            /\ found = FoundAt(k[2], "redis", Fetched[k])
            /\ store' = [store EXCEPT ![i] = Filled(StoreTouched(st, ord, k))]
      \/ found = Miss /\ store' = [store EXCEPT ![i] = st]
    BY DEF Lookup
<1> HIDE DEF st, ord
<1>4. ASSUME NEW k \in Hits(st, q), found = FoundAt(k[2], "memory", st[k]),
             store' = [store EXCEPT ![i] = StoreTouched(st, ord, k)]
      PROVE  StoresInv' /\ Supported(found, q)
    <2>1. k \in Key /\ k[2] \in Near[q] /\ st[k] # NoEntry
        BY <1>1, HitFacts, EntryKinds
    <2>2. st[k].basis # "none"
        BY <1>1, <2>1 DEF Good
    <2>3. StoresInv'
        BY <1>1, <1>2, <1>4, TouchedGood, StoreOf
    <2> QED BY <1>4, <2>1, <2>2, <2>3 DEF Supported, FoundAt
<1>5. ASSUME NEW k \in Hits(Fetched, q), found = FoundAt(k[2], "redis", Fetched[k]),
             store' = [store EXCEPT ![i] = Filled(StoreTouched(st, ord, k))]
      PROVE  StoresInv' /\ Supported(found, q)
    <2>1. k \in {"fill"} \X Question /\ k[2] \in Near[q] /\ Alive(Fetched[k])
        BY HitFacts DEF Fetched
    <2>2. Fetched[k] = remote[k[2]] /\ k[2] \in Question
        BY <2>1 DEF Fetched
    <2>3. Fetched[k].basis # "none"
        BY <2>1, <2>2, EntryKinds DEF StoresInv, Good
    <2>4. StoresInv'
        <3> DEFINE touched == StoreTouched(st, ord, k)
        <3>1. touched \in [Key -> Entry] /\ \A x \in Key : Good(touched[x])
            BY <1>1, TouchedGood
        <3> HIDE DEF touched
        <3>2. Filled(touched) \in [Key -> Entry] /\ \A x \in Key : Good(Filled(touched)[x])
            BY <3>1, FilledGood
        <3> QED BY <1>2, <1>5, <3>2, StoreOf DEF touched
    <2> QED BY <1>5, <2>1, <2>3, <2>4 DEF Supported, FoundAt
<1>6. ASSUME found = Miss, store' = [store EXCEPT ![i] = st]
      PROVE  StoresInv' /\ Supported(found, q)
    BY <1>1, <1>2, <1>6, StoreOf DEF Supported
<1> QED BY <1>3, <1>4, <1>5, <1>6

\* What is put is sound, so the stores stay so.
LEMMA PutGood ==
    ASSUME StoresInv, NEW i \in Instance, NEW q \in Question, NEW basis \in Basis \ {"none"},
           NEW embedded, NEW reached, Put(i, q, basis, embedded, reached)
    PROVE  StoresInv'
<1> DEFINE e == [basis |-> basis, age |-> 0]
           k == <<"put", q>>
           st == [store[i] EXCEPT ![k] = e]
<1>1. e \in Entry /\ Good(e) /\ k \in Key
    BY CacheAssumption DEF Entry, Age, Good, Key
<1>2. store[i] \in [Key -> Entry] /\ \A x \in Key : Good(store[i][x])
    BY DEF StoresInv
<1>3. CASE UNCHANGED <<store, order, remote, idle>>
    BY <1>3 DEF StoresInv
<1>4. CASE /\ store' = [store EXCEPT ![i] = StoreTouched(st, order[i], k)]
           /\ remote' = IF reached THEN [remote EXCEPT ![q] = e] ELSE remote
    <2>1. st \in [Key -> Entry] /\ \A x \in Key : Good(st[x])
        <3> HIDE DEF e, k
        <3> QED BY <1>1, <1>2
    <2> DEFINE touched == StoreTouched(st, order[i], k)
    <2>2. touched \in [Key -> Entry] /\ \A x \in Key : Good(touched[x])
        <3> HIDE DEF st, k
        <3> QED BY <2>1, TouchedGood
    <2>3. remote' \in [Question -> Entry] /\ \A p \in Question : Good(remote'[p])
        <3> HIDE DEF e
        <3> QED BY <1>1, <1>4 DEF StoresInv
    <2>4. store' = [store EXCEPT ![i] = touched]
        BY <1>4
    <2> HIDE DEF touched
    <2> QED BY <2>2, <2>3, <2>4 DEF StoresInv
<1> QED BY <1>3, <1>4 DEF Put

\* Growing older makes no entry of nothing.
LEMMA OlderGood ==
    ASSUME NEW e \in Entry, Good(e)
    PROVE  EntryOlder(e) \in Entry /\ Good(EntryOlder(e))
<1>1. CASE e = NoEntry
    BY <1>1 DEF EntryOlder
<1>2. CASE e # NoEntry
    <2>1. e \in [basis : Basis, age : Age] /\ e.basis # "none"
        BY <1>2, EntryKinds DEF Good
    <2>2. Older(e.age) \in Age
        BY <2>1, CacheAssumption DEF Older, Age
    <2>3. EntryOlder(e) = [e EXCEPT !.age = Older(e.age)]
        BY <1>2 DEF EntryOlder
    <2> QED BY <2>1, <2>2, <2>3 DEF Entry, Good
<1> QED BY <1>1, <1>2

\* Time and restarts leave sound stores.
LEMMA TickGood ==
    ASSUME StoresInv, Tick
    PROVE  StoresInv'
<1>1. \A i \in Instance, k \in Key : store'[i][k] = EntryOlder(store[i][k])
    BY DEF Tick
<1>2. \A q \in Question : remote'[q] = EntryOlder(remote[q])
    BY DEF Tick
<1>3. \A i \in Instance, k \in Key : EntryOlder(store[i][k]) \in Entry /\ Good(EntryOlder(store[i][k]))
    BY OlderGood DEF StoresInv
<1>4. \A q \in Question : EntryOlder(remote[q]) \in Entry /\ Good(EntryOlder(remote[q]))
    BY OlderGood DEF StoresInv
<1>5. store' \in [Instance -> [Key -> Entry]]
    BY <1>3 DEF Tick
<1>6. remote' \in [Question -> Entry]
    BY <1>4 DEF Tick
<1> QED BY <1>1, <1>2, <1>3, <1>4, <1>5, <1>6 DEF StoresInv

LEMMA RestartGood ==
    ASSUME StoresInv, NEW i \in Instance, CacheRestart(i)
    PROVE  StoresInv'
<1>1. NoStore \in [Key -> Entry] /\ \A k \in Key : Good(NoStore[k])
    BY EntryKinds DEF NoStore, Good
<1> QED BY <1>1, StoreOf DEF CacheRestart

\* The warm-up leaves an entry of its own in Redis.
LEMMA WarmUpGood ==
    ASSUME StoresInv, NEW q \in Question, WarmUp(q)
    PROVE  StoresInv'
<1> DEFINE e == [basis |-> "warmed", age |-> 0]
<1>1. e \in Entry /\ Good(e)
    BY CacheAssumption DEF Entry, Age, Good, Basis
<1>2. remote' = [remote EXCEPT ![q] = e] /\ UNCHANGED store
    BY DEF WarmUp
<1> HIDE DEF e
<1> QED BY <1>1, <1>2 DEF StoresInv

-----------------------------------------------------------------------------
\* A step of one stream that leaves it good.
LEMMA ChatGoes ==
    ASSUME ChatInv, NEW c \in Chat, NEW new \in ChatState, ChatGood(new),
           chat' = [chat EXCEPT ![c] = new]
    PROVE  ChatInv'
BY DEF ChatInv

\* A stream that ends.
LEMMA IdleGood == Idle \in ChatState /\ ChatGood(Idle)
<1>1. NoContext \in Context
    BY ValidatorAssumption, FS_EmptySet DEF NoContext, Context
<1> QED BY <1>1, ValidatorAssumption DEF Idle, ChatState, ChatGood, Supported

LEMMA ChatEnds ==
    ASSUME ChatInv, NEW c \in Chat, Ends(c)
    PROVE  ChatInv'
BY IdleGood, ChatGoes DEF Ends

\* The context of the next round is one of documents.
LEMMA WiderContext ==
    ASSUME NEW j \in Judgement
    PROVE  j.to \in Context
<1>1. PICK context \in Context : j \in Judged(context)
    BY DEF Judgement
<1>2. \A a, missing : Widened(a, context, missing) \subseteq Context
    BY <1>1 DEF Widened, Extended
<1> DEFINE right == {a \in Written(context) : RuleCheck(a, context)}
           Pass(a) ==
             [passed |-> TRUE, empty |-> a.wording = "empty", from |-> context, to |-> context,
              basis |-> BasisOf(a, context), read |-> a.cites \subseteq context.shown]
           Again(a, missing) ==
             {[passed |-> FALSE, empty |-> FALSE, basis |-> "none", read |-> FALSE,
                   from |-> context, to |-> wider] :
                wider \in Widened(a, context, missing)}
           passes == {Pass(a) : a \in right}
           refused == UNION {Again(a, {}) : a \in Written(context) \ right}
           wanting == UNION {Again(a, missing) : a \in right, missing \in SUBSET Doc}
<1>3. j \in passes \/ j \in refused \/ j \in wanting
    <2>1. Judged(context) = passes \cup refused \cup wanting
        BY DEF Judged
    <2> HIDE DEF passes, refused, wanting
    <2> QED BY <1>1, <2>1
<1>4. \A a, missing : \A k \in Again(a, missing) : k.to \in Context
    BY <1>2
<1>5. CASE j \in passes
    BY <1>5
<1>6. CASE j \in refused
    <2> HIDE DEF Again, right
    <2> QED BY <1>4, <1>6
<1>7. CASE j \in wanting
    <2> HIDE DEF Again, right
    <2> QED BY <1>4, <1>7
<1> QED BY <1>3, <1>5, <1>6, <1>7

\* Every step of a stream keeps the invariant.
LEMMA ChatStep ==
    ASSUME Inv, NEW c \in Chat, Works(c) \/ Breaks(c) \/ \E q \in Asks[c] : Ask(c, q)
    PROVE  Inv'
<1> DEFINE s == chat[c]
<1>0. /\ s \in ChatState /\ ChatGood(s) /\ StoresInv /\ ChatInv /\ Home[c] \in Instance
      /\ Asks[c] \subseteq Question
    BY ChatAssumption DEF Inv, ChatInv
<1>1. ASSUME UNCHANGED cache, ChatInv' PROVE Inv'
    BY <1>0, <1>1 DEF Inv, cache, StoresInv
<1>2. ASSUME NEW pc \in {"lookup", "retrieve", "stream"}, Goto(c, pc), s.pc # "idle" PROVE ChatInv'
    <2> DEFINE new == [s EXCEPT !.pc = pc]
    <2>1. new \in ChatState /\ new.pc = pc /\ new.asked = s.asked /\ new.answer = s.answer
        BY <1>0 DEF ChatState
    <2>2. chat' = [chat EXCEPT ![c] = new]
        BY <1>2 DEF Goto
    <2> HIDE DEF new
    <2>3. ChatGood(new)
        BY <1>0, <1>2, <2>1 DEF ChatGood
    <2> QED BY <1>0, <2>1, <2>2, <2>3, ChatGoes
<1>3. ASSUME NEW q \in Asks[c], Ask(c, q) PROVE Inv'
    <2> DEFINE new == [s EXCEPT !.pc = "route", !.asked = q]
    <2>1. q \in Question /\ q \in Near[q]
        BY <1>0, CacheAssumption
    <2>2. /\ new \in ChatState /\ new.pc = "route" /\ new.asked = q /\ new.answer = s.answer
        BY <1>0, <2>1 DEF ChatState
    <2>3. chat' = [chat EXCEPT ![c] = new] /\ s.pc = "idle"
        BY <1>3 DEF Ask
    <2>4. s.answer = Miss
        BY <1>0, <2>3 DEF ChatGood
    <2> HIDE DEF new
    <2>5. ChatGood(new)
        BY <2>1, <2>2, <2>4 DEF ChatGood, Supported
    <2> QED BY <1>0, <1>1, <1>3, <2>2, <2>3, <2>5, ChatGoes DEF Ask
<1>4. CASE RouteMessage(c)
    <2>1. Goto(c, "lookup") \/ Ends(c)
        BY <1>4 DEF RouteMessage
    <2>2. s.pc # "idle"
        BY <1>4 DEF RouteMessage
    <2> QED BY <1>0, <1>1, <1>2, <1>4, <2>1, <2>2, ChatEnds DEF RouteMessage
<1>5. CASE LookUpFails(c)
    <2>1. PICK due \in BOOLEAN : Sweep(Home[c], due)
        BY <1>5 DEF LookUpFails
    <2>2. StoresInv'
        BY <1>0, <1>5, <2>1, SweptGood, StoreOf DEF Sweep, LookUpFails
    <2>3. ChatInv'
        BY <1>2, <1>5 DEF LookUpFails
    <2> QED BY <2>2, <2>3 DEF Inv
<1>6. CASE LookUp(c)
    <2>1. PICK due \in BOOLEAN, reached \in BOOLEAN, found \in Found \cup {Miss} :
            /\ chat' = [chat EXCEPT ![c].pc = IF found = Miss THEN "retrieve" ELSE "stream",
                                    ![c].answer = found]
            /\ Lookup(Home[c], s.asked, due, reached, found)
        BY <1>6 DEF LookUp
    <2>2. s.pc = "lookup" /\ s.asked \in Question
        BY <1>0, <1>6 DEF LookUp, ChatGood
    <2>3. StoresInv' /\ Supported(found, s.asked)
        BY <1>0, <2>1, <2>2, LookupGood
    <2> DEFINE to == IF found = Miss THEN "retrieve" ELSE "stream"
               new == [s EXCEPT !.pc = to, !.answer = found]
    <2>4. /\ new \in ChatState /\ new.pc = to /\ new.asked = s.asked /\ new.answer = found
        BY <1>0 DEF ChatState
    <2>5. chat' = [chat EXCEPT ![c] = new]
        BY <2>1
    <2>6. to \in {"retrieve", "stream"}
        OBVIOUS
    <2> HIDE DEF new, to
    <2>7. ChatGood(new)
        BY <2>2, <2>3, <2>4, <2>6 DEF ChatGood
    <2> QED BY <1>0, <2>3, <2>4, <2>5, <2>7, ChatGoes DEF Inv
<1>7. CASE Retrieve(c)
    <2>1. PICK hits \in Retrieved : chat' = [chat EXCEPT ![c].pc = "generate", ![c].context = hits]
        BY <1>7 DEF Retrieve
    <2> DEFINE new == [s EXCEPT !.pc = "generate", !.context = hits]
    <2>2. /\ new \in ChatState /\ new.pc = "generate" /\ new.asked = s.asked /\ new.answer = s.answer
        BY <1>0, <2>1 DEF ChatState, Retrieved
    <2>3. chat' = [chat EXCEPT ![c] = new] /\ s.pc = "retrieve"
        BY <1>7, <2>1 DEF Retrieve
    <2> HIDE DEF new
    <2>4. ChatGood(new)
        BY <1>0, <2>2, <2>3 DEF ChatGood
    <2> QED BY <1>0, <1>1, <1>7, <2>2, <2>3, <2>4, ChatGoes DEF Retrieve
<1>8. CASE Generate(c)
    <2>1. PICK j \in Judgement :
            IF j.passed
              THEN Result(c, IF j.empty THEN "stream" ELSE "put", [of |-> s.asked, at |-> "writer", basis |-> j.basis])
            ELSE IF LastRound(s.round) THEN Result(c, "stream", Miss)
            ELSE chat' = [chat EXCEPT ![c].pc = "retry", ![c].context = j.to]
        BY <1>8 DEF Generate
    <2>2. s.pc = "generate" /\ s.asked \in Question /\ s.asked \in Near[s.asked]
        BY <1>0, <1>8, CacheAssumption DEF Generate, ChatGood
    <2>3. ASSUME NEW pc \in {"put", "stream"}, NEW answer \in Found \cup {Miss},
                 Supported(answer, s.asked), pc = "put" => answer # Miss,
                 Result(c, pc, answer)
          PROVE  ChatInv'
        <3> DEFINE new == [Idle EXCEPT !.pc = pc, !.asked = s.asked, !.answer = answer]
        <3>1. new \in ChatState /\ new.pc = pc /\ new.asked = s.asked /\ new.answer = answer
            BY <2>2, IdleGood DEF ChatState
        <3>2. chat' = [chat EXCEPT ![c] = new]
            BY <2>3 DEF Result
        <3> HIDE DEF new
        <3>3. ChatGood(new)
            BY <2>2, <2>3, <3>1 DEF ChatGood
        <3> QED BY <1>0, <3>1, <3>2, <3>3, ChatGoes
    <2>4. CASE j.passed
        <3> DEFINE answer == [of |-> s.asked, at |-> "writer", basis |-> j.basis]
        <3>1. j.basis = "retrieved"
            BY <2>4, PassesSound
        <3>2. answer \in Found /\ answer # Miss /\ Supported(answer, s.asked)
            BY <2>2, <3>1 DEF Found, Miss, Supported, Basis
        <3>3. Result(c, "put", answer) \/ Result(c, "stream", answer)
            BY <2>1, <2>4
        <3> HIDE DEF answer
        <3>4. ChatInv'
            BY <2>3, <3>2, <3>3
        <3> QED BY <1>1, <1>8, <3>4 DEF Generate
    <2>5. CASE ~j.passed /\ LastRound(s.round)
        <3>1. Supported(Miss, s.asked)
            BY DEF Supported
        <3>2. Result(c, "stream", Miss)
            BY <2>1, <2>5
        <3>3. ChatInv'
            BY <2>3, <3>1, <3>2
        <3> QED BY <1>1, <1>8, <3>3 DEF Generate
    <2>6. CASE ~j.passed /\ ~LastRound(s.round)
        <3> DEFINE new == [s EXCEPT !.pc = "retry", !.context = j.to]
        <3>1. /\ new \in ChatState /\ new.pc = "retry" /\ new.asked = s.asked
              /\ new.answer = s.answer /\ new.round = s.round
            BY <1>0, WiderContext DEF ChatState
        <3>2. chat' = [chat EXCEPT ![c] = new]
            BY <2>1, <2>6
        <3> HIDE DEF new
        <3>3. ChatGood(new)
            BY <1>0, <2>2, <2>6, <3>1 DEF ChatGood
        <3> QED BY <1>0, <1>1, <1>8, <3>1, <3>2, <3>3, ChatGoes DEF Generate
    <2> QED BY <2>4, <2>5, <2>6
<1>9. CASE RetryAnswer(c)
    <2> DEFINE new == [s EXCEPT !.pc = "generate", !.round = NextRound(s.round)]
    <2>1. s.pc = "retry" /\ chat' = [chat EXCEPT ![c] = new]
        BY <1>9 DEF RetryAnswer
    <2>2. NextRound(s.round) \in 0 .. MaxRetries
        BY <1>0, <2>1, ValidatorAssumption DEF ChatGood, ChatState, LastRound, NextRound
    <2>3. new \in ChatState /\ new.pc = "generate" /\ new.asked = s.asked /\ new.answer = s.answer
        BY <1>0, <2>2 DEF ChatState
    <2> HIDE DEF new
    <2>4. ChatGood(new)
        BY <1>0, <2>1, <2>3 DEF ChatGood
    <2> QED BY <1>0, <1>1, <1>9, <2>1, <2>3, <2>4, ChatGoes DEF RetryAnswer
<1>10. CASE KeepAnswer(c)
    <2>1. PICK embedded \in BOOLEAN, reached \in BOOLEAN :
            Put(Home[c], s.asked, s.answer.basis, embedded, reached)
        BY <1>10 DEF KeepAnswer
    <2>2. s.pc = "put" /\ s.asked \in Question /\ Goto(c, "stream")
        BY <1>0, <1>10 DEF KeepAnswer, ChatGood
    <2>3. s.answer.basis \in Basis \ {"none"}
        BY <1>0, <2>2 DEF ChatGood, ChatState, Found, Supported
    <2>4. StoresInv'
        BY <1>0, <2>1, <2>2, <2>3, PutGood
    <2>5. ChatInv'
        BY <1>2, <2>2
    <2> QED BY <2>4, <2>5 DEF Inv
<1>11. CASE Stream(c) \/ Breaks(c)
    BY <1>0, <1>1, <1>11, ChatEnds DEF Stream, Breaks
<1> QED BY <1>3, <1>4, <1>5, <1>6, <1>7, <1>8, <1>9, <1>10, <1>11 DEF Works

\* Every step keeps it.
LEMMA Step == Inv /\ [Next]_vars => Inv'
<1> SUFFICES ASSUME Inv, [Next]_vars PROVE Inv'
    OBVIOUS
<1>1. ASSUME NEW i \in Instance, Restart(i) PROVE Inv'
    <2>1. StoresInv'
        BY <1>1, RestartGood DEF Restart, Inv
    <2>2. \A c \in Chat : chat'[c] = Idle \/ chat'[c] = chat[c]
        BY <1>1 DEF Restart
    <2>3. chat' \in [Chat -> ChatState]
        BY <1>1, IdleGood DEF Restart, Inv, ChatInv
    <2> QED BY <2>1, <2>2, <2>3, IdleGood DEF Inv, ChatInv
<1>2. CASE Tick /\ UNCHANGED chat
    BY <1>2, TickGood DEF Inv, ChatInv
<1>3. ASSUME NEW q \in Warmed, WarmUp(q), UNCHANGED chat PROVE Inv'
    BY <1>3, WarmUpGood, ChatAssumption DEF Inv, ChatInv
<1>4. CASE UNCHANGED vars
    BY <1>4 DEF vars, cache, Inv, ChatInv, StoresInv
<1> QED BY <1>1, <1>2, <1>3, <1>4, ChatStep DEF Next

LEMMA Start == Init => Inv
<1> SUFFICES ASSUME Init PROVE Inv
    OBVIOUS
<1>1. StoresInv
    BY EntryKinds DEF Init, CacheInit, NoStore, StoresInv, Good
<1>2. ChatInv
    BY IdleGood DEF Init, ChatInv
<1> QED BY <1>1, <1>2 DEF Inv

\* Nothing is streamed as validated that was not written for a question near
\* enough, or that cites a document that was not retrieved for it, the answers
\* of the warm-up apart, however the streams of all instances read, fill, put,
\* age and lose the entries of the cache.
THEOREM StreamedIsSupported == Spec => []PassedIsSupported
<1>1. Inv => PassedIsSupported
    BY DEF Inv, ChatInv, ChatGood, Supported, PassedIsSupported
<1> QED BY <1>1, Start, Step, PTL DEF Spec

\* Streams are well typed: no answer is written more than MaxRetries times again.
THEOREM ChatsAreTyped == Spec => [](chat \in [Chat -> ChatState])
<1>1. Inv => chat \in [Chat -> ChatState]
    BY DEF Inv, ChatInv
<1> QED BY <1>1, Start, Step, PTL DEF Spec

-----------------------------------------------------------------------------
\* No entry of a memory is younger than the last time that memory was given an
\* answer to its question, or served one.
FreshInv ==
    /\ idle \in [Instance -> [Question -> Age]]
    /\ \A i \in Instance, k \in Key : idle[i][k[2]] <= store[i][k].age

\* Ages are numbers, that of nothing too.
LEMMA EntryAges ==
    /\ \A e \in Entry : e.age \in Nat
    /\ \A n \in Age : n \in Nat /\ 0 <= n /\ n <= NoEntry.age
    /\ 0 \in Age /\ \A k \in Key : k[2] \in Question
<1>1. NoEntry.age = MemLife + 2 /\ MemLife \in Nat
    BY CacheAssumption DEF NoEntry
<1>2. \A e \in Entry : e.age \in Nat
    <2>1. \A e \in [basis : Basis, age : Age] : e.age \in Nat
        BY <1>1 DEF Age
    <2> QED BY <1>1, <2>1 DEF Entry
<1> QED BY <1>1, <1>2 DEF Age, Key

\* An entry of a touched store is nothing, the touched one, or as it was.
LEMMA TouchedAge ==
    ASSUME NEW st \in [Key -> Entry], NEW ord, NEW k, NEW x \in Key
    PROVE  \/ StoreTouched(st, ord, k)[x] = NoEntry
           \/ x = k
           \/ StoreTouched(st, ord, k)[x] = st[x]
BY DEF StoreTouched

\* An instance that keeps or serves answers to questions qs.
LEMMA ServeFacts ==
    ASSUME FreshInv, NEW i \in Instance, NEW qs, Serve(i, qs)
    PROVE  /\ idle' \in [Instance -> [Question -> Age]]
           /\ \A j \in Instance \ {i} : idle'[j] = idle[j]
           /\ \A q \in Question : idle'[i][q] = IF q \in qs THEN 0 ELSE idle[i][q]
<1>1. 0 \in Age
    BY EntryAges
<1> DEFINE new == [q \in Question |-> IF q \in qs THEN 0 ELSE idle[i][q]]
<1>2. new \in [Question -> Age]
    BY <1>1 DEF FreshInv
<1>3. idle' = [idle EXCEPT ![i] = new]
    BY DEF Serve
<1>4. \A q \in Question : new[q] = IF q \in qs THEN 0 ELSE idle[i][q]
    OBVIOUS
<1> HIDE DEF new
<1> QED BY <1>2, <1>3, <1>4 DEF FreshInv

\* Serving and keeping leave the entries older than their questions: an entry
\* the instance did not have before is one to a question it serves or keeps.
LEMMA ServeKeeps ==
    ASSUME FreshInv, StoresInv, StoresInv', NEW i \in Instance, NEW qs, Serve(i, qs),
           \A j \in Instance \ {i} : store'[j] = store[j],
           \A x \in Key : \/ store'[i][x] = NoEntry
                          \/ store'[i][x] = store[i][x]
                          \/ x[2] \in qs
    PROVE  FreshInv'
<1>1. /\ idle' \in [Instance -> [Question -> Age]]
      /\ \A j \in Instance \ {i} : idle'[j] = idle[j]
      /\ \A q \in Question : idle'[i][q] = IF q \in qs THEN 0 ELSE idle[i][q]
    BY ServeFacts
<1>2. \A j \in Instance, x \in Key : store[j][x].age \in Nat /\ store'[j][x].age \in Nat
    BY EntryAges DEF StoresInv
<1>3. \A j \in Instance, q \in Question : /\ idle[j][q] \in Nat /\ idle'[j][q] \in Nat
                                          /\ idle'[j][q] <= NoEntry.age
    BY <1>1, EntryAges DEF FreshInv
<1>4. ASSUME NEW j \in Instance, NEW x \in Key PROVE idle'[j][x[2]] <= store'[j][x].age
    <2>1. x[2] \in Question
        BY EntryAges
    <2>2. CASE j # i
        BY <1>1, <2>1, <2>2 DEF FreshInv
    <2>3. CASE j = i /\ store'[i][x] = NoEntry
        BY <1>3, <2>1, <2>3
    <2>4. CASE j = i /\ store'[i][x] = store[i][x]
        BY <1>1, <1>2, <2>1, <2>4 DEF FreshInv
    <2>5. CASE j = i /\ x[2] \in qs
        BY <1>1, <1>2, <2>1, <2>5
    <2> QED BY <2>2, <2>3, <2>4, <2>5
<1> QED BY <1>1, <1>4 DEF FreshInv

\* A lookup keeps it, and what memory answers with was put, taken over or served
\* not long ago.
LEMMA LookupFresh ==
    ASSUME FreshInv, StoresInv, StoresInv', NEW i \in Instance, NEW q \in Question,
           NEW due \in BOOLEAN, NEW reached \in BOOLEAN, NEW found, Lookup(i, q, due, reached, found)
    PROVE  FreshInv' /\ (found # Miss /\ found.at = "memory" => idle[i][found.of] <= MemLife)
<1> DEFINE st == Swept(i, due)
           ord == OrderSwept(i, due)
<1>1. /\ st \in [Key -> Entry]
      /\ \A k \in Key : st[k] = NoEntry \/ st[k] = store[i][k]
    BY SweptGood DEF Swept
<1>2. \/ \E k \in Hits(st, q) :
            /\ found = FoundAt(k[2], "memory", st[k]) /\ Serve(i, {k[2]})
            /\ store' = [store EXCEPT ![i] = StoreTouched(st, ord, k)]
      \/ \E k \in Hits(Fetched, q) :
            /\ found = FoundAt(k[2], "redis", Fetched[k])
            /\ Serve(i, {k[2]} \cup TakenOver(StoreTouched(st, ord, k)))
            /\ store' = [store EXCEPT ![i] = Filled(StoreTouched(st, ord, k))]
      \/ found = Miss /\ store' = [store EXCEPT ![i] = st] /\ UNCHANGED idle
    BY DEF Lookup
<1> HIDE DEF st, ord
<1>3. ASSUME NEW k \in Hits(st, q), found = FoundAt(k[2], "memory", st[k]), Serve(i, {k[2]}),
             store' = [store EXCEPT ![i] = StoreTouched(st, ord, k)]
      PROVE  FreshInv' /\ idle[i][found.of] <= MemLife
    <2>1. k \in Key /\ Alive(st[k]) /\ st[k] # NoEntry
        BY <1>1, HitFacts, EntryKinds
    <2>2. idle[i][k[2]] <= store[i][k].age /\ store[i][k].age <= MemLife
        BY <1>1, <2>1 DEF Alive, FreshInv
    <2>3. \A j \in Instance \ {i} : store'[j] = store[j]
        BY <1>3 DEF StoresInv
    <2>4. \A x \in Key : \/ store'[i][x] = NoEntry \/ store'[i][x] = store[i][x] \/ x[2] \in {k[2]}
        <3> DEFINE touched == StoreTouched(st, ord, k)
        <3>1. \A x \in Key : touched[x] = NoEntry \/ x = k \/ touched[x] = store[i][x]
            BY <1>1, TouchedAge
        <3>2. store'[i] = touched
            BY <1>3 DEF StoresInv
        <3> HIDE DEF touched
        <3> QED BY <3>1, <3>2
    <2>5. FreshInv'
        BY <1>3, <2>3, <2>4, ServeKeeps
    <2>6. idle[i][k[2]] \in Nat /\ store[i][k].age \in Nat /\ MemLife \in Nat
        BY <2>1, EntryAges, CacheAssumption DEF FreshInv, StoresInv
    <2> QED BY <1>3, <2>2, <2>5, <2>6 DEF FoundAt
<1>4. ASSUME NEW k \in Hits(Fetched, q), found = FoundAt(k[2], "redis", Fetched[k]),
             Serve(i, {k[2]} \cup TakenOver(StoreTouched(st, ord, k))),
             store' = [store EXCEPT ![i] = Filled(StoreTouched(st, ord, k))]
      PROVE  FreshInv' /\ found.at # "memory"
    <2> DEFINE touched == StoreTouched(st, ord, k)
    <2>1. \A x \in Key : \/ touched[x] = NoEntry \/ x = k \/ touched[x] = store[i][x]
        BY <1>1, TouchedAge
    <2>2. \A j \in Instance \ {i} : store'[j] = store[j]
        BY <1>4 DEF StoresInv
    <2> HIDE DEF touched
    <2>3. store'[i] = Filled(touched)
        BY <1>4 DEF StoresInv, touched
    <2>4. \A x \in Key : \/ store'[i][x] = NoEntry \/ store'[i][x] = store[i][x]
                         \/ x[2] \in {k[2]} \cup TakenOver(touched)
        <3> SUFFICES ASSUME NEW x \in Key, store'[i][x] # NoEntry
                     PROVE  store'[i][x] = store[i][x] \/ x[2] \in {k[2]} \cup TakenOver(touched)
            OBVIOUS
        <3>1. CASE x[1] = "fill" /\ touched[x] = NoEntry
            <4>1. store'[i][x] = remote[x[2]] /\ remote[x[2]] # NoEntry
                BY <2>3, <3>1 DEF Filled
            <4>2. x = <<"fill", x[2]>> /\ x[2] \in Question
                BY <3>1 DEF Key
            <4> QED BY <3>1, <4>1, <4>2 DEF TakenOver
        <3>2. CASE ~(x[1] = "fill" /\ touched[x] = NoEntry)
            <4>1. store'[i][x] = touched[x]
                BY <2>3, <3>2 DEF Filled
            <4> QED BY <2>1, <4>1
        <3> QED BY <3>1, <3>2
    <2>5. Serve(i, {k[2]} \cup TakenOver(touched))
        BY <1>4 DEF touched
    <2>6. FreshInv'
        BY <2>2, <2>4, <2>5, ServeKeeps
    <2> QED BY <1>4, <2>6 DEF FoundAt
<1>5. ASSUME found = Miss, store' = [store EXCEPT ![i] = st], UNCHANGED idle
      PROVE  FreshInv'
    <2>1. \A j \in Instance, p \in Question : idle[j][p] <= NoEntry.age
        BY EntryAges DEF FreshInv
    <2>2. \A j \in Instance, x \in Key : store'[j][x] = NoEntry \/ store'[j][x] = store[j][x]
        BY <1>1, <1>5 DEF StoresInv
    <2> QED BY <1>5, <2>1, <2>2, EntryAges DEF FreshInv
<1> QED BY <1>2, <1>3, <1>4, <1>5

\* A put leaves no entry younger than its question.
LEMMA PutFresh ==
    ASSUME FreshInv, StoresInv, StoresInv', NEW i \in Instance, NEW q \in Question, NEW basis,
           NEW embedded, NEW reached, Put(i, q, basis, embedded, reached)
    PROVE  FreshInv'
<1> DEFINE e == [basis |-> basis, age |-> 0]
           k == <<"put", q>>
           st == [store[i] EXCEPT ![k] = e]
           touched == StoreTouched(st, order[i], k)
<1>1. CASE UNCHANGED <<store, order, remote, idle>>
    BY <1>1 DEF FreshInv
<1>2. CASE store' = [store EXCEPT ![i] = touched] /\ Serve(i, {q})
    <2>1. \A x \in Key : touched[x] = NoEntry \/ x = k \/ touched[x] = st[x]
        BY DEF StoreTouched
    <2>2. \A x \in Key : x # k => st[x] = store[i][x]
        BY DEF StoresInv
    <2>3. k[2] = q
        OBVIOUS
    <2> HIDE DEF touched, st, k
    <2>4. store'[i] = touched /\ \A j \in Instance \ {i} : store'[j] = store[j]
        BY <1>2 DEF StoresInv
    <2>5. \A x \in Key : store'[i][x] = NoEntry \/ store'[i][x] = store[i][x] \/ x[2] \in {q}
        BY <2>1, <2>2, <2>3, <2>4
    <2> QED BY <1>2, <2>4, <2>5, ServeKeeps
<1> QED BY <1>1, <1>2 DEF Put

\* Entries and questions grow older together.
LEMMA TickFresh ==
    ASSUME FreshInv, StoresInv, Tick
    PROVE  FreshInv'
<1>1. \A n \in Age : Older(n) \in Age /\ n \in Nat
    BY CacheAssumption DEF Older, Age
<1>2. \A e \in Entry, n \in Age : n <= e.age => Older(n) <= EntryOlder(e).age
    <2> SUFFICES ASSUME NEW e \in Entry, NEW n \in Age, n <= e.age
                 PROVE  Older(n) <= EntryOlder(e).age
        OBVIOUS
    <2>1. CASE e = NoEntry
        BY <1>1, <2>1, EntryAges DEF EntryOlder
    <2>2. CASE e # NoEntry
        <3>1. e \in [basis : Basis, age : Age] /\ EntryOlder(e).age = Older(e.age)
            BY <2>2, EntryKinds DEF EntryOlder
        <3> QED BY <3>1, CacheAssumption DEF Older, Age
    <2> QED BY <2>1, <2>2
<1>3. /\ \A i \in Instance, k \in Key : store'[i][k] = EntryOlder(store[i][k])
      /\ \A i \in Instance, q \in Question : idle'[i][q] = Older(idle[i][q])
    BY DEF Tick
<1>4. \A i \in Instance, q \in Question : idle[i][q] \in Age
    BY DEF FreshInv
<1>5. idle' \in [Instance -> [Question -> Age]]
    BY <1>1, <1>4 DEF Tick
<1>6. \A k \in Key : k[2] \in Question
    BY EntryAges
<1>7. ASSUME NEW i \in Instance, NEW k \in Key PROVE idle'[i][k[2]] <= store'[i][k].age
    BY <1>2, <1>3, <1>4, <1>6 DEF FreshInv, StoresInv
<1> QED BY <1>5, <1>7 DEF FreshInv

\* Every step keeps the ages, and a stream that memory answers was served an
\* entry whose question was put, taken over or served not long ago.
LEMMA FreshStep ==
    ASSUME Inv, Inv', FreshInv, [Next]_vars
    PROVE  /\ FreshInv'
           /\ \A c \in Chat :
                 (chat[c].pc = "lookup" /\ chat'[c].pc = "stream" /\ chat'[c].answer.at = "memory")
                    => idle[Home[c]][chat'[c].answer.of] <= MemLife
<1> DEFINE Forgets == \A c \in Chat :
                 (chat[c].pc = "lookup" /\ chat'[c].pc = "stream" /\ chat'[c].answer.at = "memory")
                    => idle[Home[c]][chat'[c].answer.of] <= MemLife
<1>0. /\ StoresInv /\ StoresInv' /\ chat \in [Chat -> ChatState]
      /\ \A c \in Chat : chat[c] \in ChatState /\ Home[c] \in Instance
    BY ChatAssumption DEF Inv, ChatInv
<1>1. ASSUME UNCHANGED cache PROVE FreshInv'
    BY <1>1 DEF cache, FreshInv
<1>2. ASSUME NEW c \in Chat, chat[c].pc # "lookup" \/ chat'[c].pc # "stream",
             \A d \in Chat \ {c} : chat'[d] = chat[d]
      PROVE  Forgets
    BY <1>2
<1>3. CASE \E c \in Chat, q \in Question : Ask(c, q)
    <2>1. PICK c \in Chat, q \in Question : Ask(c, q)
        BY <1>3
    <2>2. chat[c].pc = "idle" /\ \A d \in Chat \ {c} : chat'[d] = chat[d]
        BY <2>1, <1>0 DEF Ask
    <2> QED BY <1>1, <1>2, <2>1, <2>2 DEF Ask
<1>4. ASSUME NEW c \in Chat, LookUp(c) PROVE FreshInv' /\ Forgets
    <2>1. PICK due \in BOOLEAN, reached \in BOOLEAN, found \in Found \cup {Miss} :
            /\ chat' = [chat EXCEPT ![c].pc = IF found = Miss THEN "retrieve" ELSE "stream",
                                    ![c].answer = found]
            /\ Lookup(Home[c], chat[c].asked, due, reached, found)
        BY <1>4 DEF LookUp
    <2>2. chat[c].asked \in Question
        BY <1>4 DEF Inv, ChatInv, ChatGood, LookUp
    <2>3. FreshInv' /\ (found # Miss /\ found.at = "memory" => idle[Home[c]][found.of] <= MemLife)
        BY <1>0, <2>1, <2>2, LookupFresh
    <2>4. /\ chat'[c].pc = (IF found = Miss THEN "retrieve" ELSE "stream") /\ chat'[c].answer = found
          /\ \A d \in Chat \ {c} : chat'[d] = chat[d]
        BY <1>0, <2>1 DEF ChatState
    <2> QED BY <2>3, <2>4
<1>5. ASSUME NEW c \in Chat, LookUpFails(c) PROVE FreshInv' /\ Forgets
    <2>1. PICK due \in BOOLEAN : Sweep(Home[c], due)
        BY <1>5 DEF LookUpFails
    <2>2. \A i \in Instance, k \in Key : store'[i][k] = NoEntry \/ store'[i][k] = store[i][k]
        BY <1>0, <2>1 DEF Sweep, Swept, StoresInv
    <2>3. FreshInv'
        BY <1>5, <2>2, EntryAges DEF FreshInv, LookUpFails
    <2>4. chat'[c].pc = "retrieve" /\ \A d \in Chat \ {c} : chat'[d] = chat[d]
        BY <1>0, <1>5 DEF LookUpFails, Goto, ChatState
    <2> QED BY <1>2, <2>3, <2>4
<1>6. ASSUME NEW c \in Chat, KeepAnswer(c) PROVE FreshInv' /\ Forgets
    <2>1. PICK embedded \in BOOLEAN, reached \in BOOLEAN :
            Put(Home[c], chat[c].asked, chat[c].answer.basis, embedded, reached)
        BY <1>6 DEF KeepAnswer
    <2>2. chat[c].asked \in Question /\ chat[c].answer.basis \in Basis /\ chat[c].pc = "put"
        BY <1>0, <1>6 DEF Inv, ChatInv, ChatGood, KeepAnswer, ChatState, Found, Miss, Basis
    <2>3. FreshInv'
        BY <1>0, <2>1, <2>2, PutFresh
    <2>4. \A d \in Chat \ {c} : chat'[d] = chat[d]
        BY <1>0, <1>6 DEF KeepAnswer, Goto
    <2> QED BY <1>2, <2>2, <2>3, <2>4
<1>7. ASSUME NEW c \in Chat, RouteMessage(c) \/ Retrieve(c) \/ Generate(c) \/ RetryAnswer(c) \/ Stream(c)
      PROVE  FreshInv' /\ Forgets
    <2>1. UNCHANGED cache /\ chat[c].pc # "lookup"
        BY <1>7 DEF RouteMessage, Retrieve, Generate, RetryAnswer, Stream
    <2>2. \A d \in Chat \ {c} : chat'[d] = chat[d]
        <3>1. CASE Generate(c)
            <4>1. PICK j : \/ Result(c, IF j.empty THEN "stream" ELSE "put",
                                        [of |-> chat[c].asked, at |-> "writer", basis |-> j.basis])
                           \/ Result(c, "stream", Miss)
                           \/ chat' = [chat EXCEPT ![c].pc = "retry", ![c].context = j.to]
                BY <3>1, Zenon DEF Generate
            <4>2. \A pc, answer : Result(c, pc, answer) => \A d \in Chat \ {c} : chat'[d] = chat[d]
                BY <1>0 DEF Result
            <4> QED BY <1>0, <4>1, <4>2
        <3> QED BY <1>0, <1>7, <3>1 DEF RouteMessage, Retrieve, RetryAnswer, Stream, Goto, Ends
    <2> QED BY <1>1, <1>2, <2>1, <2>2
<1>8. ASSUME NEW c \in Chat, Breaks(c) PROVE FreshInv' /\ Forgets
    <2>1. UNCHANGED cache /\ chat'[c].pc = "idle" /\ \A d \in Chat \ {c} : chat'[d] = chat[d]
        BY <1>0, <1>8 DEF Breaks, Ends, Idle
    <2> QED BY <1>1, <1>2, <2>1
<1>9. ASSUME NEW i \in Instance, Restart(i) PROVE FreshInv' /\ Forgets
    <2>1. \A c \in Chat : chat'[c] = chat[c] \/ chat'[c].pc = "idle"
        BY <1>9 DEF Restart, Idle
    <2>2. \A j \in Instance, k \in Key : store'[j][k] = NoEntry \/ store'[j][k] = store[j][k]
        BY <1>0, <1>9 DEF Restart, CacheRestart, NoStore, StoresInv
    <2>3. idle' \in [Instance -> [Question -> Age]] /\ \A j \in Instance, q \in Question :
             idle'[j][q] = idle[j][q] \/ (j = i /\ idle'[j][q] = MemLife + 1)
        BY <1>9, CacheAssumption DEF Restart, CacheRestart, FreshInv, Age
    <2>4. \A k \in Key : store'[i][k] = NoEntry
        BY <1>0, <1>9 DEF Restart, CacheRestart, NoStore, StoresInv
    <2>5. ASSUME NEW j \in Instance, NEW k \in Key PROVE idle'[j][k[2]] <= store'[j][k].age
        <3>1. k[2] \in Question /\ idle'[j][k[2]] <= NoEntry.age
            BY <2>3, EntryAges DEF FreshInv
        <3>2. CASE j = i
            BY <2>4, <3>1, <3>2
        <3>3. CASE j # i
            BY <2>2, <2>3, <3>1, <3>3 DEF FreshInv
        <3> QED BY <3>2, <3>3
    <2> QED BY <2>1, <2>3, <2>5 DEF FreshInv
<1>10. CASE Tick /\ UNCHANGED chat
    BY <1>0, <1>10, TickFresh
<1>11. ASSUME NEW q \in Warmed, WarmUp(q), UNCHANGED chat PROVE FreshInv' /\ Forgets
    BY <1>11 DEF WarmUp, FreshInv
<1>12. CASE UNCHANGED vars
    BY <1>1, <1>12 DEF vars
<1> QED BY <1>3, <1>4, <1>5, <1>6, <1>7, <1>8, <1>9, <1>10, <1>11, <1>12, ChatAssumption DEF Next, Works

\* The memory of an instance forgets: an answer nobody put into it, took over
\* from Redis or was served from it for longer than _MEM_TTL_SECONDS is never
\* given again, whether or not a sweep has come by, and though a hit renews it.
THEOREM Forgets == Spec => CacheForgets
<1>1. Init => FreshInv
    <2>1. \A n \in Age : n <= NoEntry.age
        BY EntryAges
    <2>2. MemLife + 1 \in Age
        BY CacheAssumption DEF Age
    <2> QED BY <2>1, <2>2, EntryAges DEF Init, CacheInit, NoStore, FreshInv
<1>2. Inv /\ Inv' /\ FreshInv /\ [Next]_vars =>
        /\ FreshInv'
        /\ [\A c \in Chat :
              (chat[c].pc = "lookup" /\ chat'[c].pc = "stream" /\ chat'[c].answer.at = "memory")
                 => idle[Home[c]][chat'[c].answer.of] <= MemLife]_vars
    BY FreshStep
<1> QED BY <1>1, <1>2, Start, Step, PTL DEF Spec, CacheForgets
=============================================================================
