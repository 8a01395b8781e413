------------------------------ MODULE MCKbChat ------------------------------
EXTENDS KbChat, TLC

CONSTANTS i1, i2, c1, c2, q1, q2, d1, d2, s1, s2

MCHome == c1 :> i1 @@ c2 :> i2
MCShortName == d1 :> s1 @@ d2 :> s2
MCAsks == c1 :> {q1} @@ c2 :> {q2}
MCWarmed == {q2}
\* The two questions are alike and worded alike.
MCNear == [q \in Question |-> Question]

\* Bound: the warm-up answers before anything else is cached.
WarmUpFirst ==
    (\E q \in Warmed : WarmUp(q)) => \A q \in Question : remote[q] = NoEntry

\* Reduction: a stream that writes and judges touches nothing but its own state,
\* so nothing else need happen until it is through or given up.
GenerationFirst == \A c \in Chat : chat[c].pc \in {"generate", "retry"} => chat'[c] # chat[c]

MCSpec == Init /\ [][Next /\ WarmUpFirst /\ GenerationFirst]_vars /\ \A c \in Chat : WF_vars(Works(c))
=============================================================================
