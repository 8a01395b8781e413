------------------------------- MODULE Tokens -------------------------------
(***************************************************************************)
(* Logins and their tokens (platform/auth.py).  A login gives a pair: an   *)
(* access and a refresh token.  A refresh exchanges the refresh token for a*)
(* new pair and revokes it; a logout revokes the access token alone.       *)
(* Requests with any token ever given may overlap: retries after a lost    *)
(* answer, several tabs.  Each goes through the database in several steps, *)
(* any of which may find it gone; tokens expire on their own.              *)
(***************************************************************************)
EXTENDS Naturals, FiniteSets

CONSTANTS
    Login,      \* sessions opened with a password
    Request,    \* refreshes and logouts in progress
    MaxPair     \* bound: pairs given in a behaviour

ASSUME TokensAssumption == MaxPair \in Nat

VARIABLES
    pair,       \* of each pair given: the login it goes back to
    revoked,    \* token_blacklist, whose jti is unique
    request     \* of each request: its step and the pair it presented

tokens == <<pair, revoked, request>>

Pair == 1 .. MaxPair
Given == DOMAIN pair
AtRest == [pc |-> "rest", pair |-> 0]
RequestState == [pc : {"rest", "revoke", "issue", "logout"}, pair : 0 .. MaxPair]

TokensTypeOK ==
    /\ Given \in {1 .. n : n \in 0 .. MaxPair} /\ pair \in [Given -> Login]
    /\ revoked \subseteq {"access", "refresh"} \X Given
    /\ request \in [Request -> RequestState]

TokensInit == pair = <<>> /\ revoked = {} /\ request = [r \in Request |-> AtRest]

NextPair == Cardinality(Given) + 1
Give(l) == pair' = [p \in Given \cup {NextPair} |-> IF p = NextPair THEN l ELSE pair[p]]
Step(r, pc, p) == request' = [request EXCEPT ![r] = [pc |-> pc, pair |-> p]]
RequestEnds(r) == request' = [request EXCEPT ![r] = AtRest]

\* The password was right and the user is enabled; else 401, 403 or 503.
LogIn(l) ==
    /\ NextPair \in Pair /\ \A p \in Given : pair[p] # l
    /\ Give(l)
    /\ UNCHANGED <<revoked, request>>

\* A refresh begins: the token has not expired, is not revoked, and its user
\* is enabled; else 401, and nothing changes.
RefreshBegins(r, p) ==
    /\ request[r].pc = "rest"
    /\ <<"refresh", p>> \notin revoked
    /\ Step(r, "revoke", p)
    /\ UNCHANGED <<pair, revoked>>

\* Changed form of Revokes: a token that is revoked already is revoked again.
RevokesAgain(kind, p) == revoked' = revoked \cup {<<kind, p>>}

\* _revoke: the insert is committed; it fails on a token revoked meanwhile.
Revokes(kind, p) ==
    /\ <<kind, p>> \notin revoked
    /\ revoked' = revoked \cup {<<kind, p>>}

RefreshRevokes(r) ==
    /\ request[r].pc = "revoke"
    /\ Revokes("refresh", request[r].pair)
    /\ Step(r, "issue", request[r].pair)
    /\ UNCHANGED pair

\* The new pair is signed and the audit row committed.
RefreshIssues(r) ==
    /\ request[r].pc = "issue" /\ NextPair \in Pair
    /\ Give(pair[request[r].pair])
    /\ RequestEnds(r)
    /\ UNCHANGED revoked

\* A logout begins: get_current_user lets the access token through, by the
\* database or, when that is gone, by the token's own claims.
LogOutBegins(r, p) ==
    /\ request[r].pc = "rest"
    /\ \E database \in BOOLEAN : database => <<"access", p>> \notin revoked
    /\ Step(r, "logout", p)
    /\ UNCHANGED <<pair, revoked>>

LogOutRevokes(r) ==
    /\ request[r].pc = "logout"
    /\ Revokes("access", request[r].pair)
    /\ RequestEnds(r)
    /\ UNCHANGED pair

\* The database is gone, or the insert found the token there: 500.
RequestFails(r) ==
    /\ request[r].pc # "rest" /\ RequestEnds(r)
    /\ UNCHANGED <<pair, revoked>>

TokensNext ==
    \/ \E l \in Login : LogIn(l)
    \/ \E r \in Request :
         \/ RefreshRevokes(r) \/ RefreshIssues(r) \/ LogOutRevokes(r) \/ RequestFails(r)
         \/ \E p \in Given : RefreshBegins(r, p) \/ LogOutBegins(r, p)

-----------------------------------------------------------------------------
\* Of every login at most one refresh token is good at a time: a token that is
\* presented twice, at once or again, brings one pair at most (rotation).
OneLiveRefresh == \A p, q \in Given :
    /\ pair[p] = pair[q] /\ <<"refresh", p>> \notin revoked /\ <<"refresh", q>> \notin revoked
    => p = q
=============================================================================
