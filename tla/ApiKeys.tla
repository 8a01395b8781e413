------------------------------ MODULE ApiKeys ------------------------------
(***************************************************************************)
(* API keys (platform/apikeys.py, domains/admin/apikey_api.py): created and*)
(* revoked in the database; read there on every call of the REST API, which*)
(* also takes a token from the key's bucket in Redis; read through a cache *)
(* of CacheLife by the MCP server (mcp_server/apikey_db.py).  Callers of   *)
(* the REST API are SDK clients, which wait and retry.                     *)
(*                                                                         *)
(* All instances read the same clock: they run on one host.  A bucket holds*)
(* Unit parts of a token; the script on it is atomic, and goes by the time *)
(* its caller read before it was sent.                                     *)
(***************************************************************************)
EXTENDS Naturals, FiniteSets

CONSTANTS
    Key, Client, Call,
    Unit,        \* parts of a token
    Capacity,    \* TOKEN_BUCKET_CAPACITY, in parts
    Refill,      \* parts per tick
    CacheLife,   \* _CACHE_TTL, in ticks
    CacheMax,    \* _CACHE_MAX
    MaxAttempts, \* max_retries of the SDK
    MaxWait,     \* longest Retry-After the SDK waits for, in ticks
    MaxTime      \* bound: ticks of a behaviour

ASSUME KeysAssumption ==
    /\ Unit \in Nat \ {0} /\ Capacity \in Nat /\ Refill \in Nat \ {0} /\ CacheLife \in Nat
    /\ CacheMax \in Nat \ {0} /\ MaxAttempts \in Nat /\ MaxWait \in Nat /\ MaxTime \in Nat

VARIABLES
    now,       \* time.time()
    apikey,    \* api_keys: unknown, enabled, or revoked since when
    bucket,    \* rate:key:{hash} and its :ts; no tokens are recorded at first
    granted,   \* history: calls a bucket let through
    rewound,   \* history: ticks by which scripts set a :ts back
    keyCache,  \* _CACHE of the MCP server
    toolCall,  \* tool calls of the MCP server
    client     \* SDK clients

keys == <<now, apikey, bucket, granted, rewound, keyCache, toolCall, client>>

Time == 0 .. MaxTime
Unset == [tokens |-> Capacity, stamp |-> MaxTime + 1]
Unknown == [user |-> FALSE, stamp |-> MaxTime + 1]

KeysTypeOK ==
    /\ now \in Time
    /\ apikey \in [Key -> [status : {"unknown", "enabled", "revoked"}, since : Time]]
    /\ bucket \in [Key -> [tokens : 0 .. Capacity, stamp : Time] \cup {Unset}]
    /\ granted \in [Key -> Nat] /\ rewound \in [Key -> Nat]
    /\ keyCache \in [Key -> [user : BOOLEAN, stamp : Time] \cup {Unknown}]
    /\ toolCall \in [Call -> [pc : {"rest", "ask", "query", "store", "known"}, turn : {"audit", "permit"},
                               key : Key \cup {"none"}, began : Time, user : BOOLEAN]]
    /\ client \in [Client -> [pc : {"rest", "ask", "in", "eval", "wait"}, key : Key \cup {"none"},
                              attempt : 0 .. MaxAttempts, wait : 0 .. MaxWait, at : Time]]

NoCall == [pc |-> "rest", turn |-> "audit", key |-> "none", began |-> 0, user |-> FALSE]

NoRequest == [pc |-> "rest", key |-> "none", attempt |-> 0, wait |-> 0, at |-> 0]

KeysInit ==
    /\ now = 0
    /\ apikey = [k \in Key |-> [status |-> "unknown", since |-> 0]]
    /\ bucket = [k \in Key |-> Unset]
    /\ granted = [k \in Key |-> 0]
    /\ rewound = [k \in Key |-> 0]
    /\ keyCache = [k \in Key |-> Unknown]
    /\ toolCall = [c \in Call |-> NoCall]
    /\ client = [c \in Client |-> NoRequest]

Enabled(k) == apikey[k].status = "enabled"

-----------------------------------------------------------------------------
\* The administrator creates a key, and revokes it for good.
CreateKey(k) ==
    /\ apikey[k].status = "unknown"
    /\ apikey' = [apikey EXCEPT ![k].status = "enabled"]
    /\ UNCHANGED <<now, bucket, granted, rewound, keyCache, toolCall, client>>

RevokeKey(k) ==
    /\ Enabled(k)
    /\ apikey' = [apikey EXCEPT ![k] = [status |-> "revoked", since |-> now]]
    /\ UNCHANGED <<now, bucket, granted, rewound, keyCache, toolCall, client>>

-----------------------------------------------------------------------------
Least(a, b) == IF a < b THEN a ELSE b
CeilDiv(a, b) == (a + b - 1) \div b

\* The bucket of k, filled up to a time; an earlier one than its own fills in
\* nothing.
Filled(k, at) ==
    LET gone == IF bucket[k] = Unset \/ at < bucket[k].stamp THEN 0 ELSE at - bucket[k].stamp
    IN  Least(Capacity, bucket[k].tokens + gone * Refill)

\* Changed form of Denied: a refusal records the tokens and not the time.
DeniedUnstamped(k, at) == [tokens |-> Filled(k, at),
                           stamp |-> IF bucket[k] = Unset THEN at ELSE bucket[k].stamp]

\* What the script leaves behind when it refuses.
Denied(k, at) == [tokens |-> Filled(k, at), stamp |-> at]

\* How far a time lies before that of the bucket.
Back(k, at) == IF bucket[k] = Unset \/ at >= bucket[k].stamp THEN 0 ELSE bucket[k].stamp - at

\* Seconds until there is a token, at least one.
RetryAfter(k, at) == LET t == CeilDiv(Unit - Filled(k, at), Refill) IN IF t < 1 THEN 1 ELSE t

ClientAsks(c, k) ==
    /\ client[c].pc = "rest"
    /\ client' = [client EXCEPT ![c] = [pc |-> "ask", key |-> k, attempt |-> 0, wait |-> 0, at |-> 0]]
    /\ UNCHANGED <<now, apikey, bucket, granted, rewound, keyCache, toolCall>>

ClientDone(c) == client' = [client EXCEPT ![c] = NoRequest]

\* A wait of some ticks and the next attempt, or the error is raised.
RetryOrRaise(c, wait) ==
    IF client[c].attempt < MaxAttempts /\ wait <= MaxWait
      THEN client' = [client EXCEPT ![c] = [pc |-> "wait", key |-> client[c].key, wait |-> wait,
                                            attempt |-> client[c].attempt + 1, at |-> 0]]
      ELSE ClientDone(c)

\* One attempt passes the gate of all routes, which reads the key in a session
\* of its own ...
Gate(c) ==
    /\ client[c].pc = "ask"
    /\ \/ /\ Enabled(client[c].key)
          /\ client' = [client EXCEPT ![c].pc = "in"]
       \/ ~Enabled(client[c].key) /\ ClientDone(c)
       \/ RetryOrRaise(c, 1)
    /\ UNCHANGED <<now, apikey, bucket, granted, rewound, keyCache, toolCall>>

\* ... and then the route, where it is read again and the clock is read for
\* the bucket; without Redis the call goes through.  5xx and timeouts are
\* retried too.
Attempt(c) ==
    LET k == client[c].key
    IN  /\ client[c].pc = "in"
        /\ \/ Enabled(k) /\ client' = [client EXCEPT ![c].pc = "eval", ![c].at = now]
           \/ ClientDone(c)
           \/ RetryOrRaise(c, 1)
        /\ UNCHANGED <<now, apikey, bucket, granted, rewound, keyCache, toolCall>>

\* The script, whenever it gets to run; a refusal whose answer is lost lets
\* the call through.
TakesToken(c) ==
    LET k == client[c].key
        at == client[c].at
    IN  /\ client[c].pc = "eval"
        /\ \/ /\ Filled(k, at) >= Unit
              /\ bucket' = [bucket EXCEPT ![k] = [tokens |-> Filled(k, at) - Unit, stamp |-> at]]
              /\ granted' = [granted EXCEPT ![k] = @ + 1]
              /\ ClientDone(c) \/ RetryOrRaise(c, 1)
           \/ /\ Filled(k, at) < Unit
              /\ bucket' = [bucket EXCEPT ![k] = Denied(k, at)]
              /\ RetryOrRaise(c, RetryAfter(k, at)) \/ ClientDone(c)
              /\ UNCHANGED granted
        /\ rewound' = [rewound EXCEPT ![k] = @ + Back(k, at)]
        /\ UNCHANGED <<now, apikey, keyCache, toolCall>>

ClientWakes(c) ==
    /\ client[c].pc = "wait" /\ client[c].wait = 0
    /\ client' = [client EXCEPT ![c].pc = "ask"]
    /\ UNCHANGED <<now, apikey, bucket, granted, rewound, keyCache, toolCall>>

-----------------------------------------------------------------------------
Fresh(k) == keyCache[k] # Unknown /\ now - keyCache[k].stamp < CacheLife

\* A tool call resolves its key twice: for the audit entry, which is written
\* whatever comes of the call, and then for the permission.
CallBegins(c, k) ==
    /\ toolCall[c].pc = "rest"
    /\ toolCall' = [toolCall EXCEPT ![c] = [NoCall EXCEPT !.pc = "ask", !.key = k]]
    /\ UNCHANGED <<now, apikey, bucket, granted, rewound, keyCache, client>>

\* A key the cache knows goes by the cache.
CallFromCache(c) ==
    /\ toolCall[c].pc = "ask" /\ Fresh(toolCall[c].key)
    /\ toolCall' = [toolCall EXCEPT ![c].pc = "known", ![c].user = keyCache[toolCall[c].key].user]
    /\ UNCHANGED <<now, apikey, bucket, granted, rewound, keyCache, client>>

\* Room is made in a full cache: what is too old goes, and if that is nothing
\* everything.
Trimmed ==
    LET full == {k \in Key : keyCache[k] # Unknown}
        gone == IF Cardinality(full) < CacheMax THEN {}
                ELSE IF \A k \in full : Fresh(k) THEN full
                ELSE {k \in full : ~Fresh(k)}
    IN  [k \in Key |-> IF k \in gone THEN Unknown ELSE keyCache[k]]

CallQueries(c) ==
    /\ toolCall[c].pc = "ask" /\ ~Fresh(toolCall[c].key)
    /\ toolCall' = [toolCall EXCEPT ![c].pc = "query", ![c].began = now]
    /\ keyCache' = Trimmed
    /\ UNCHANGED <<now, apikey, bucket, granted, rewound, client>>

\* The database answers, or does not, which counts as no user.
CallReads(c) ==
    /\ toolCall[c].pc = "query"
    /\ \E answers \in BOOLEAN :
         toolCall' = [toolCall EXCEPT ![c].pc = "store", ![c].user = answers /\ Enabled(toolCall[c].key)]
    /\ UNCHANGED <<now, apikey, bucket, granted, rewound, keyCache, client>>

\* Changed form of Stamp: the age of an entry counts from its storing.
StampAtStore(c) == now

\* An entry is as old as the call that read it.
Stamp(c) == toolCall[c].began

CallStores(c) ==
    /\ toolCall[c].pc = "store"
    /\ keyCache' = [keyCache EXCEPT ![toolCall[c].key] = [user |-> toolCall[c].user, stamp |-> Stamp(c)]]
    /\ toolCall' = [toolCall EXCEPT ![c].pc = "known", ![c].began = 0]
    /\ UNCHANGED <<now, apikey, bucket, granted, rewound, client>>

\* Under what the audit found the call asks for the permission; under what it
\* finds then, the owner of the key or else the identity of the process, the
\* tool runs, which only reads, or is refused.
CallResolves(c) ==
    /\ toolCall[c].pc = "known"
    /\ toolCall' = [toolCall EXCEPT ![c] =
            IF @.turn = "permit" THEN NoCall
            ELSE [@ EXCEPT !.pc = "ask", !.turn = "permit", !.user = FALSE]]
    /\ UNCHANGED <<now, apikey, bucket, granted, rewound, keyCache, client>>

-----------------------------------------------------------------------------
Tick ==
    /\ now < MaxTime
    /\ now' = now + 1
    /\ client' = [c \in Client |-> IF client[c].wait = 0 THEN client[c]
                                   ELSE [client[c] EXCEPT !.wait = @ - 1]]
    /\ UNCHANGED <<apikey, bucket, granted, rewound, keyCache, toolCall>>

KeysNext ==
    \/ \E k \in Key : CreateKey(k) \/ RevokeKey(k)
    \/ \E c \in Client : Gate(c) \/ Attempt(c) \/ TakesToken(c) \/ ClientWakes(c) \/ \E k \in Key : ClientAsks(c, k)
    \/ \E c \in Call : \/ CallFromCache(c) \/ CallQueries(c) \/ CallReads(c) \/ CallStores(c)
                       \/ CallResolves(c) \/ \E k \in Key : CallBegins(c, k)
    \/ Tick

-----------------------------------------------------------------------------
\* A bucket lets through no more than its capacity and what time refilled,
\* whoever asks and however often it refused in between, but for the ticks it
\* was set back by: a script that runs late sets its :ts to the earlier time
\* its caller read, and the next one fills it for those ticks again.
BucketBound == \A k \in Key : granted[k] * Unit <= Capacity + Refill * (now + rewound[k])

\* Two instances do not let more through (apikeys.py:183).  TLC refutes it:
\* ticks a late script set the bucket back by are counted twice.
RefilledOnce == \A k \in Key : granted[k] * Unit <= Capacity + Refill * now

\* A revoked key works from the MCP server's cache for less than CacheLife.
KeyDiesInTime == \A k \in Key :
    Fresh(k) /\ keyCache[k].user => Enabled(k) \/ now - apikey[k].since < CacheLife
=============================================================================
