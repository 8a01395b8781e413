-------------------------- MODULE OrderCacheProofs --------------------------
(***************************************************************************)
(* Proofs about OrderCache for any instances, readers and writers, any TTL *)
(* and latency.  The argument: an entry carries, with the time it expires, *)
(* a time at which its value was current; nothing that happens to entries  *)
(* moves the two apart.                                                    *)
(***************************************************************************)
EXTENDS OrderCache, TLAPS

\* A version was superseded, if at all, in the past; the order's own was not.
Superseded ==
    /\ \A v \in Version : until[v] # None => until[v] <= clock
    /\ \A v \in Version : v >= db => until[v] = None

\* The value of an entry was current TTL and Latency before the entry expires.
EntryOK(e) ==
    e # None => e.exp <= clock + TTL /\ CurrentSince(e.val, e.exp - TTL - Latency)

EntriesOK == EntryOK(redis) /\ \A i \in Instance : EntryOK(mem[i])

\* A response under way was current when the API read the order, not longer than
\* Latency ago.
ResponsesOK ==
    \A r \in Reader : reader[r].pc = "store" =>
        /\ reader[r].val \in Version
        /\ reader[r].at <= clock /\ clock <= reader[r].at + Latency
        /\ CurrentSince(reader[r].val, reader[r].at)

\* Whoever has been told something was told a version.
AnswersOK == \A r \in Reader : reader[r].pc = "told" => reader[r].val \in Version

IInv == TypeOK /\ Superseded /\ EntriesOK /\ ResponsesOK /\ AnswersOK /\ AtMostTTLOld

\* The other variables keep every fact about versions, entries and answers.
Shared == <<clock, db, until, redis, mem>>

LEMMA InitIInv == Init => IInv
BY HomeAssumption, NumberAssumption, NoneAssumption
   DEF Init, IInv, TypeOK, Superseded, EntriesOK, EntryOK, ResponsesOK, AnswersOK, AtMostTTLOld,
       NoQuery, Query, Version, Now

\* A step that changes at most the snapshots, one query and the writes, and gives
\* the query nothing it had not fetched or found.
LEMMA QueryStep ==
    ASSUME IInv, NEW r \in Reader, UNCHANGED Shared,
           snap' \in [Instance -> Version \cup {None}],
           writer' \in [Writer -> Version \cup {None}],
           acked' \in Version,
           reader' = [reader EXCEPT ![r] = reader'[r]],
           reader'[r] \in Query,
           reader'[r].pc = "store" =>
              /\ reader'[r].val \in Version
              /\ reader'[r].at <= clock /\ clock <= reader'[r].at + Latency
              /\ CurrentSince(reader'[r].val, reader'[r].at),
           reader'[r].pc = "told" =>
              /\ reader'[r].val \in Version
              /\ reader'[r].from # "snapshot" =>
                    CurrentSince(reader'[r].val, clock - TTL - Latency)
    PROVE  IInv'
<1>1. TypeOK'
    BY DEF IInv, TypeOK, Shared
<1>2. Superseded' /\ EntriesOK'
    BY DEF IInv, Superseded, EntriesOK, EntryOK, CurrentSince, Shared
<1>3. ResponsesOK' /\ AnswersOK' /\ AtMostTTLOld'
    BY DEF IInv, TypeOK, ResponsesOK, AnswersOK, AtMostTTLOld, CurrentSince, Shared
<1> QED
    BY <1>1, <1>2, <1>3 DEF IInv

LEMMA AskStep ==
    ASSUME IInv, NEW r \in Reader, Ask(r)
    PROVE  IInv'
<1>1. reader'[r] = [pc |-> "look", val |-> None, from |-> "none", since |-> acked, at |-> 0]
    BY DEF Ask, NoQuery, IInv, TypeOK
<1>2. reader'[r] \in Query /\ reader'[r].pc = "look"
    BY <1>1, NumberAssumption DEF Query, IInv, TypeOK, Version, Now
<1> QED
    BY <1>2, QueryStep DEF Ask, Shared, IInv, TypeOK

\* What is found in a level is within its life, so within its age.
LEMMA LookStep ==
    ASSUME IInv, NEW r \in Reader, Look(r)
    PROVE  IInv'
<1> DEFINE i == Home[r]
<1> USE HomeAssumption, NumberAssumption, NoneAssumption
<1>1. ASSUME NEW e \in {redis, mem[i]}, Live(e)
      PROVE  e.val \in Version /\ CurrentSince(e.val, clock - TTL - Latency)
    BY <1>1, SMTT(30) DEF IInv, TypeOK, EntriesOK, EntryOK, Live, CurrentSince, Entry, Version, Now
<1>2. reader[r] \in Query /\ reader[r].pc = "look"
    BY DEF Look, IInv, TypeOK
<1>3. UNCHANGED <<clock, db, until, redis, mem, writer, acked>>
    BY DEF Look
<1>4. \/ \E e \in {redis, mem[i]} :
           Live(e) /\ snap' = [snap EXCEPT ![i] = e.val] /\ Answer(r, e.val, "cache")
      \/ reader' = [reader EXCEPT ![r].pc = "fetch"] /\ UNCHANGED snap
    BY DEF Look, Live
<1>5. ASSUME NEW e \in {redis, mem[i]}, Live(e), snap' = [snap EXCEPT ![i] = e.val],
             Answer(r, e.val, "cache")
      PROVE  IInv'
    <2>1. e.val \in Version /\ CurrentSince(e.val, clock - TTL - Latency)
        BY <1>1, <1>5
    <2>2. /\ reader' = [reader EXCEPT ![r] = reader'[r]]
          /\ reader'[r] \in Query
          /\ reader'[r].pc = "told" /\ reader'[r].val = e.val
        BY <1>2, <1>5, <2>1 DEF Answer, IInv, TypeOK, Query
    <2>3. snap' \in [Instance -> Version \cup {None}]
        BY <1>5, <2>1 DEF IInv, TypeOK
    <2> QED
        BY <1>3, <2>1, <2>2, <2>3, QueryStep DEF Shared, IInv, TypeOK
<1>6. CASE reader' = [reader EXCEPT ![r].pc = "fetch"] /\ UNCHANGED snap
    <2>1. /\ reader' = [reader EXCEPT ![r] = reader'[r]]
          /\ reader'[r] \in Query
          /\ reader'[r].pc = "fetch"
        BY <1>2, <1>6 DEF IInv, TypeOK, Query
    <2> QED
        BY <1>3, <1>6, <2>1, QueryStep DEF Shared, IInv, TypeOK
<1> QED
    BY <1>4, <1>5, <1>6

LEMMA FetchStep ==
    ASSUME IInv, NEW r \in Reader, Fetch(r)
    PROVE  IInv'
<1> USE NumberAssumption
<1>1. /\ reader' = [reader EXCEPT ![r] = reader'[r]]
      /\ reader'[r] = [reader[r] EXCEPT !.pc = "store", !.val = db, !.at = clock]
    BY DEF Fetch, IInv, TypeOK
<1>2. reader'[r] \in Query
    BY <1>1 DEF IInv, TypeOK, Query
<1>3. reader'[r].pc = "store" /\ reader'[r].val = db /\ reader'[r].at = clock
    BY <1>1 DEF IInv, TypeOK, Query
<1>4. CurrentSince(db, clock) /\ db \in Version /\ clock <= clock + Latency /\ clock \in Now
    BY DEF IInv, TypeOK, Superseded, CurrentSince, Version, Now
<1>5. /\ reader'[r].val \in Version
      /\ reader'[r].at <= clock /\ clock <= reader'[r].at + Latency
      /\ CurrentSince(reader'[r].val, reader'[r].at)
    BY <1>3, <1>4 DEF Now
<1>6. /\ UNCHANGED Shared
      /\ snap' \in [Instance -> Version \cup {None}]
      /\ writer' \in [Writer -> Version \cup {None}]
      /\ acked' \in Version
    BY DEF Fetch, Shared, IInv, TypeOK
<1>7. reader'[r].pc # "told"
    BY <1>3
<1> QED
    BY <1>1, <1>2, <1>5, <1>6, <1>7, QueryStep

LEMMA FetchFailsStep ==
    ASSUME IInv, NEW r \in Reader, FetchFails(r)
    PROVE  IInv'
<1> USE HomeAssumption, NumberAssumption, NoneAssumption
<1>1. CASE snap[Home[r]] # None /\ Answer(r, snap[Home[r]], "snapshot")
    <2>1. /\ reader' = [reader EXCEPT ![r] = reader'[r]]
          /\ reader'[r] \in Query
          /\ reader'[r].pc = "told" /\ reader'[r].from = "snapshot"
          /\ reader'[r].val \in Version
        <3> DEFINE new == [reader[r] EXCEPT !.pc = "told", !.val = snap[Home[r]], !.from = "snapshot"]
        <3>1. reader[r] \in Query /\ snap[Home[r]] \in Version
            BY <1>1 DEF IInv, TypeOK
        <3>2. reader' = [reader EXCEPT ![r] = new]
            BY <1>1 DEF Answer
        <3>3. new \in Query /\ new.pc = "told" /\ new.from = "snapshot" /\ new.val \in Version
            BY <3>1 DEF Query
        <3> HIDE DEF new
        <3> QED BY <3>2, <3>3 DEF IInv, TypeOK
    <2> QED
        BY <2>1, QueryStep DEF FetchFails, Shared, IInv, TypeOK
<1>2. CASE reader' = [reader EXCEPT ![r] = NoQuery]
    <2>1. /\ reader' = [reader EXCEPT ![r] = reader'[r]]
          /\ reader'[r] \in Query
          /\ reader'[r].pc = "idle"
        BY <1>2 DEF NoQuery, IInv, TypeOK, Query, Version, Now
    <2> QED
        BY <2>1, QueryStep DEF FetchFails, Shared, IInv, TypeOK
<1> QED
    BY <1>1, <1>2 DEF FetchFails

\* The stored entry was current when the API read it, and expires TTL from now.
LEMMA StoreStep ==
    ASSUME IInv, NEW r \in Reader, Store(r)
    PROVE  IInv'
<1> DEFINE i == Home[r]
           e == [val |-> reader[r].val, exp |-> clock + TTL]
<1> USE HomeAssumption, NumberAssumption, NoneAssumption
<1>1. /\ reader[r] \in Query /\ reader[r].val \in Version /\ i \in Instance
      /\ e \in Entry /\ clock \in Nat
    BY DEF Store, IInv, TypeOK, ResponsesOK, Entry, Now
<1>2. CurrentSince(e.val, clock - Latency)
    <2>1. /\ CurrentSince(reader[r].val, reader[r].at)
          /\ clock <= reader[r].at + Latency
        BY DEF Store, IInv, ResponsesOK
    <2>2. reader[r].at \in Now /\ until[reader[r].val] \in Now \cup {None}
        BY <1>1 DEF IInv, TypeOK, Query
    <2> QED
        BY <1>1, <2>1, <2>2 DEF CurrentSince, Now
<1>3. EntryOK(e)
    BY <1>1, <1>2 DEF EntryOK
<1>4. /\ UNCHANGED <<clock, db, until, writer, acked>>
      /\ redis' \in {e, redis} /\ mem' = [mem EXCEPT ![i] = e]
      /\ snap' = [snap EXCEPT ![i] = e.val]
      /\ Answer(r, e.val, "api")
    BY DEF Store
<1>5. /\ reader' = [reader EXCEPT ![r] = reader'[r]]
      /\ reader'[r] \in Query
      /\ reader'[r].pc = "told" /\ reader'[r].val = e.val
    BY <1>1, <1>4 DEF Answer, IInv, TypeOK, Query
<1>6. TypeOK'
    BY <1>1, <1>4, <1>5 DEF IInv, TypeOK
<1>7. Superseded'
    BY <1>4 DEF IInv, Superseded
<1>8. EntriesOK'
    <2>1. redis' = e \/ redis' = redis
        BY <1>4
    <2>2. \A j \in Instance : mem'[j] = e \/ mem'[j] = mem[j]
        BY <1>4 DEF IInv, TypeOK
    <2> QED
        BY <1>3, <1>4, <2>1, <2>2 DEF IInv, EntriesOK, EntryOK, CurrentSince
<1>9. ResponsesOK' /\ AnswersOK'
    BY <1>1, <1>4, <1>5 DEF IInv, TypeOK, ResponsesOK, AnswersOK, CurrentSince
<1>10. AtMostTTLOld'
    <2>1. CurrentSince(e.val, clock - TTL - Latency)
        BY <1>1, <1>2 DEF CurrentSince, IInv, TypeOK, Now
    <2> QED
        BY <1>4, <1>5, <2>1 DEF IInv, TypeOK, AtMostTTLOld, CurrentSince
<1> QED
    BY <1>6, <1>7, <1>8, <1>9, <1>10 DEF IInv

LEMMA DoneStep ==
    ASSUME IInv, NEW r \in Reader, Done(r)
    PROVE  IInv'
<1>1. /\ reader' = [reader EXCEPT ![r] = reader'[r]]
      /\ reader'[r] \in Query
      /\ reader'[r].pc = "idle"
    BY NumberAssumption DEF Done, NoQuery, IInv, TypeOK, Query, Version, Now
<1> QED
    BY <1>1, QueryStep DEF Done, Shared, IInv, TypeOK

\* The write supersedes a version now: later than any time a fact is about.
LEMMA WriteStep ==
    ASSUME IInv, NEW w \in Writer, Write(w)
    PROVE  IInv'
<1> USE NumberAssumption, NoneAssumption DEF Write
<1>1. TypeOK'
    BY DEF IInv, TypeOK, Version, Now
<1>2. Superseded'
    BY DEF IInv, TypeOK, Superseded, Version, Now
<1>3. ASSUME NEW v \in Version, NEW t \in Int, t <= clock, CurrentSince(v, t)
      PROVE  CurrentSince(v, t)'
    BY <1>3 DEF IInv, TypeOK, CurrentSince, Version, Now
<1>4. ASSUME NEW e \in Entry, EntryOK(e)
      PROVE  EntryOK(e)'
    BY <1>3, <1>4 DEF IInv, TypeOK, EntryOK, Entry, Now
<1>5. EntriesOK'
    BY <1>4 DEF IInv, TypeOK, EntriesOK, EntryOK
<1>6. ResponsesOK' /\ AnswersOK'
    BY <1>3 DEF IInv, TypeOK, ResponsesOK, AnswersOK, Query, Now
<1>7. AtMostTTLOld'
    BY <1>3 DEF IInv, TypeOK, AnswersOK, AtMostTTLOld, Now
<1> QED
    BY <1>1, <1>2, <1>5, <1>6, <1>7 DEF IInv

LEMMA InvalidateStep ==
    ASSUME IInv, NEW w \in Writer, Invalidate(w) \/ InvalidateFails(w)
    PROVE  IInv'
<1>1. TypeOK'
    BY DEF Invalidate, InvalidateFails, IInv, TypeOK
<1>2. EntriesOK'
    BY DEF Invalidate, InvalidateFails, IInv, EntriesOK, EntryOK, CurrentSince
<1>3. Superseded' /\ ResponsesOK' /\ AnswersOK' /\ AtMostTTLOld'
    BY DEF Invalidate, InvalidateFails, IInv, Superseded, ResponsesOK, AnswersOK,
           AtMostTTLOld, CurrentSince
<1> QED
    BY <1>1, <1>2, <1>3 DEF IInv

LEMMA TickStep ==
    ASSUME IInv, Tick
    PROVE  IInv'
<1> USE NumberAssumption DEF Tick
<1>1. TypeOK'
    BY DEF IInv, TypeOK, Now
<1>2. Superseded'
    BY NoneAssumption DEF IInv, TypeOK, Superseded, Now
<1>3. EntriesOK'
    BY DEF IInv, TypeOK, EntriesOK, EntryOK, CurrentSince, Entry, Now
<1>4. ResponsesOK'
    BY DEF IInv, TypeOK, ResponsesOK, CurrentSince, Query, Now
<1>5. AnswersOK' /\ AtMostTTLOld'
    BY DEF IInv, AnswersOK, AtMostTTLOld
<1> QED
    BY <1>1, <1>2, <1>3, <1>4, <1>5 DEF IInv

LEMMA RestartStep ==
    ASSUME IInv, NEW i \in Instance, Restart(i)
    PROVE  IInv'
<1> USE DEF Restart
<1>1. NoQuery \in Query /\ NoQuery.pc = "idle"
    BY NumberAssumption DEF NoQuery, Query, Version, Now
<1>2. TypeOK'
    BY <1>1 DEF IInv, TypeOK
<1>3. Superseded'
    BY DEF IInv, Superseded
<1>4. EntriesOK'
    BY DEF IInv, TypeOK, EntriesOK, EntryOK, CurrentSince
<1>5. ResponsesOK' /\ AnswersOK' /\ AtMostTTLOld'
    BY <1>1 DEF IInv, TypeOK, ResponsesOK, AnswersOK, AtMostTTLOld, CurrentSince
<1> QED
    BY <1>2, <1>3, <1>4, <1>5 DEF IInv

LEMMA NextIInv == IInv /\ [Next]_vars => IInv'
<1> SUFFICES ASSUME IInv, [Next]_vars
             PROVE  IInv'
    OBVIOUS
<1>1. CASE UNCHANGED vars
    BY <1>1 DEF vars, IInv, TypeOK, Superseded, EntriesOK, EntryOK, ResponsesOK, AnswersOK,
       AtMostTTLOld, CurrentSince
<1> QED
    BY <1>1, AskStep, LookStep, FetchStep, FetchFailsStep, StoreStep, DoneStep, WriteStep,
       InvalidateStep, TickStep, RestartStep DEF Next

\* The invariant holds in every reachable state.
THEOREM Invariance == Spec => []IInv
<1> QED
    BY InitIInv, NextIInv, PTL DEF Spec

\* Every reachable state of levels, snapshots and queries is well typed.
THEOREM TypeCorrect == Spec => []TypeOK
<1>1. IInv => TypeOK
    BY DEF IInv
<1> QED
    BY <1>1, Invariance, PTL

\* For any TTL and latency, an answer given as current was current within their
\* sum (QueryCache.get and set, OrderTools.query_order).
THEOREM BoundedAge == Spec => []AtMostTTLOld
<1>1. IInv => AtMostTTLOld
    BY DEF IInv
<1> QED
    BY <1>1, Invariance, PTL
=============================================================================
