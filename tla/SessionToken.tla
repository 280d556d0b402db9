------------------------------ MODULE SessionToken ------------------------------
(***************************************************************************)
(* Authentication by session tokens (src/weni_commons/auth/).  Connect     *)
(* issues and invalidates tokens in a DynamoDB table all services share;   *)
(* each service keeps those it has seen in a Redis of its own, which       *)
(* nobody tells when a token is invalidated.  The workers of a service     *)
(* authenticate requests concurrently, one store call at a time.           *)
(***************************************************************************)
EXTENDS Integers

CONSTANTS
    Token,      \* token hashes
    Expiry,     \* what Connect may write as expire_at
    Service,    \* the services, each with its Redis
    Connect,    \* the service that issues and invalidates
    Request,    \* workers, each authenticating one request at a time
    ServedBy,   \* worker -> its service
    MaxTtl,     \* WENI_SESSION_TOKEN_MAX_REDIS_TTL, in seconds
    Second,     \* ticks of the clock in a second
    Flight,     \* ticks a worker has for one request before it is killed
    Lag,        \* ticks a replica of the table may be behind it
    Horizon,    \* bound: the clock stops here
    Absent,     \* no item, no entry, not issued
    Never,      \* no expire_at; not invalidated
    Unreadable  \* an expire_at that datetime.fromisoformat rejects

VARIABLES
    now,     \* the clock
    table,   \* DynamoDB: token -> its expire_at, as last written
    cache,   \* Redis: service -> token -> when the entry expires
    pc,      \* where a worker is
    token,   \* the token its request carries
    read,    \* the expire_at it read from the table
    ttl,     \* seconds it is about to cache the token for
    began,   \* when its request arrived
    issued,  \* history: token -> the expire_at it was issued with
    young,   \* history: token -> ticks for which a replica may still miss its item
    gone     \* history: token -> when it was invalidated

stores  == <<table, cache, issued, young, gone>>
worker  == <<pc, token, read, ttl, began>>
vars    == <<now, stores, worker>>

ASSUME SessionAssumption ==
    /\ MaxTtl \in Nat \ {0} /\ Second \in Nat \ {0} /\ Flight \in Nat
    /\ Lag \in Nat /\ Horizon \in Nat
    /\ Connect \in Service /\ ServedBy \in [Request -> Service]
    /\ Expiry \subseteq Nat \cup {Never, Unreadable}
    /\ Absent \notin Nat \cup {Never, Unreadable}
    /\ Never \notin Nat /\ Unreadable \notin Nat /\ Never # Unreadable

-----------------------------------------------------------------------------
Verdicts == {"accepted", "refused", "failed"}
Rest == {"idle"} \cup Verdicts

Goto(r, where) == pc' = [pc EXCEPT ![r] = where]

\* The answer; the local variables die with the call.
Answer(r, verdict) ==
    /\ Goto(r, verdict)
    /\ read' = [read EXCEPT ![r] = Absent]
    /\ ttl' = [ttl EXCEPT ![r] = 0]
    /\ began' = [began EXCEPT ![r] = 0]

\* wrong: the token's own lifetime, without the ceiling
TtlUncapped(e) ==
    CASE e = Never      -> MaxTtl
      [] e = Unreadable -> 0
      [] e \in Nat      -> IF e <= now THEN 0 ELSE (e - now) \div Second

\* compute_redis_ttl: int() drops what is left of a second
Ttl(e) ==
    CASE e = Never      -> MaxTtl
      [] e = Unreadable -> 0
      [] e \in Nat      -> LET left == (e - now) \div Second IN
                           IF e <= now THEN 0 ELSE IF left < MaxTtl THEN left ELSE MaxTtl

\* SETEX with a ttl of s seconds; warm_cache leaves the cache alone for s <= 0
Cached(s) == IF s <= 0 THEN Absent ELSE now + s * Second

-----------------------------------------------------------------------------
(* The world. *)

\* Time passes; Redis drops what has expired; no worker outlives its request.
Tick ==
    /\ now < Horizon
    /\ \A r \in Request : pc[r] \notin Rest => now < began[r] + Flight
    /\ now' = now + 1
    /\ cache' = [s \in Service |-> [t \in Token |->
                    IF cache[s][t] # Absent /\ cache[s][t] > now' THEN cache[s][t] ELSE Absent]]
    /\ young' = [t \in Token |-> IF young[t] = 0 THEN 0 ELSE young[t] - 1]
    /\ UNCHANGED <<table, issued, gone, worker>>

\* Connect issues a token: put, then its own cache.
Issue(t) ==
    /\ issued[t] = Absent
    /\ \E e \in Expiry :
          /\ issued' = [issued EXCEPT ![t] = e]
          /\ table' = [table EXCEPT ![t] = e]
          /\ cache' = [cache EXCEPT ![Connect][t] = Cached(Ttl(e))]
    /\ young' = [young EXCEPT ![t] = Lag + 1]
    /\ UNCHANGED <<now, gone, worker>>

\* Connect invalidates a token: delete ...
Invalidate(t) ==
    /\ issued[t] # Absent /\ gone[t] = Never
    /\ table' = [table EXCEPT ![t] = Absent]
    /\ gone' = [gone EXCEPT ![t] = now]
    /\ UNCHANGED <<now, cache, issued, young, worker>>

\* ... and evict_cache, in Connect's own Redis.  A full Redis forgets as well.
Evict(s, t) ==
    /\ cache[s][t] # Absent
    /\ cache' = [cache EXCEPT ![s][t] = Absent]
    /\ UNCHANGED <<now, table, issued, young, gone, worker>>

\* DynamoDB removes expired items by their ttl attribute, some time later.
NativeTtl(t) ==
    /\ table[t] \in Nat /\ table[t] <= now
    /\ table' = [table EXCEPT ![t] = Absent]
    /\ UNCHANGED <<now, cache, issued, young, gone, worker>>

-----------------------------------------------------------------------------
(* SessionTokenAuthentication.authenticate *)

Cache(r) == cache[ServedBy[r]][token[r]]

\* A request arrives with "Authorization: Bearer <hash>".
Arrive(r) ==
    /\ pc[r] \in Rest
    /\ \E t \in Token : token' = [token EXCEPT ![r] = t]
    /\ began' = [began EXCEPT ![r] = now]
    /\ Goto(r, "cache")
    /\ UNCHANGED <<now, stores, read, ttl>>

\* _from_redis: a hit is not checked any further
Hit(r) ==
    /\ pc[r] = "cache"
    /\ Cache(r) # Absent
    /\ Goto(r, "resolve")
    /\ UNCHANGED <<now, stores, token, read, ttl, began>>

Miss(r) ==
    /\ pc[r] = "cache"
    /\ Cache(r) = Absent
    /\ Goto(r, "table")
    /\ UNCHANGED <<now, stores, token, read, ttl, began>>

\* What get_item may answer: without ConsistentRead it asks any replica, and one
\* that is behind misses an item just put and still has one just deleted.  (The
\* removal by NativeTtl is late already.)
Readable(t) ==
    {table[t]}
        \cup {e \in {Absent} : young[t] > 0}
        \cup {e \in {issued[t]} : gone[t] # Never /\ now <= gone[t] + Lag}

\* get_item
ReadItem(r) ==
    /\ pc[r] = "table"
    /\ \E e \in Readable(token[r]) \ {Absent} : read' = [read EXCEPT ![r] = e]
    /\ Goto(r, "ttl")
    /\ UNCHANGED <<now, stores, token, ttl, began>>

NoItem(r) ==
    /\ pc[r] = "table"
    /\ Absent \in Readable(token[r])
    /\ Answer(r, "refused")
    /\ UNCHANGED <<now, stores, token>>

\* wrong: what cannot be cached is accepted all the same
ComputeTtlLenient(r) ==
    /\ pc[r] = "ttl"
    /\ ttl' = [ttl EXCEPT ![r] = Ttl(read[r])]
    /\ Goto(r, IF Ttl(read[r]) <= 0 THEN "resolve" ELSE "warm")
    /\ UNCHANGED <<now, stores, token, read, began>>

\* wrong: leaves it to the cache to refuse a ttl of zero
ComputeTtlAlways(r) ==
    /\ pc[r] = "ttl"
    /\ ttl' = [ttl EXCEPT ![r] = Ttl(read[r])]
    /\ Goto(r, "warm")
    /\ UNCHANGED <<now, stores, token, read, began>>

\* A token without a second left, or with an unreadable expire_at, is refused.
ComputeTtl(r) ==
    /\ pc[r] = "ttl"
    /\ IF Ttl(read[r]) <= 0
         THEN Answer(r, "refused")
         ELSE /\ ttl' = [ttl EXCEPT ![r] = Ttl(read[r])]
              /\ Goto(r, "warm")
              /\ UNCHANGED <<read, began>>
    /\ UNCHANGED <<now, stores, token>>

\* SETEX with what was read, whatever the table says by now
WarmCache(r) ==
    /\ pc[r] = "warm"
    /\ cache' = [cache EXCEPT ![ServedBy[r]][token[r]] = Cached(ttl[r])]
    /\ Goto(r, "resolve")
    /\ UNCHANGED <<now, table, issued, young, gone, token, read, ttl, began>>

\* resolve_session_user finds the user, or one to stand in for it.
Resolve(r) ==
    /\ pc[r] = "resolve"
    /\ Answer(r, "accepted")
    /\ UNCHANGED <<now, stores, token>>

\* Any exception, of Redis, DynamoDB or the database, is logged and the answer
\* is None; a killed worker answers nothing.
GiveUp(r) ==
    /\ pc[r] \notin Rest
    /\ Answer(r, "failed")
    /\ UNCHANGED <<now, stores, token>>

-----------------------------------------------------------------------------
Init ==
    /\ now = 0
    /\ table = [t \in Token |-> Absent]
    /\ cache = [s \in Service |-> [t \in Token |-> Absent]]
    /\ pc = [r \in Request |-> "idle"]
    /\ token = [r \in Request |-> Absent]
    /\ read = [r \in Request |-> Absent]
    /\ ttl = [r \in Request |-> 0]
    /\ began = [r \in Request |-> 0]
    /\ issued = [t \in Token |-> Absent]
    /\ young = [t \in Token |-> 0]
    /\ gone = [t \in Token |-> Never]

Authenticate(r) ==
    \/ Arrive(r) \/ Hit(r) \/ Miss(r) \/ ReadItem(r) \/ NoItem(r)
    \/ ComputeTtl(r) \/ WarmCache(r) \/ Resolve(r) \/ GiveUp(r)

Next ==
    \/ Tick
    \/ \E t \in Token : Issue(t) \/ Invalidate(t) \/ NativeTtl(t) \/ \E s \in Service : Evict(s, t)
    \/ \E r \in Request : Authenticate(r)

Spec == Init /\ [][Next]_vars

-----------------------------------------------------------------------------
(* Properties. *)

\* Every variable has the type its comment gives it, and SETEX is never called
\* with a ttl Redis would reject or above the ceiling.
SessionTypeOK ==
    /\ now \in Nat
    /\ table \in [Token -> Expiry \cup {Absent}]
    /\ cache \in [Service -> [Token -> Nat \cup {Absent}]]
    /\ pc \in [Request -> Rest \cup {"cache", "table", "ttl", "warm", "resolve"}]
    /\ token \in [Request -> Token \cup {Absent}]
    /\ \A r \in Request : pc[r] \notin Rest => token[r] \in Token
    /\ read \in [Request -> Expiry \cup {Absent}]
    /\ \A r \in Request : pc[r] \in {"ttl", "warm"} => read[r] # Absent
    /\ ttl \in [Request -> 0..MaxTtl]
    /\ \A r \in Request : pc[r] = "warm" => ttl[r] > 0
    /\ began \in [Request -> Nat]
    /\ issued \in [Token -> Expiry \cup {Absent}]
    /\ young \in [Token -> 0..(Lag + 1)]
    /\ gone \in [Token -> Nat \cup {Never}]

\* Whatever was read, computed and written in which order by whom, no Redis
\* keeps a token past its expire_at, nor past the ceiling after its
\* invalidation, but for the time the caching request was under way and the
\* time a replica of the table went on answering with the deleted item
\* (docs/api_gateway/en/03-authentication.md, "The cache has a time ceiling").
CacheBounded ==
    \A s \in Service, t \in Token : cache[s][t] # Absent =>
        /\ issued[t] \notin {Absent, Unreadable}
        /\ issued[t] \in Nat => cache[s][t] <= issued[t] + Flight
        /\ gone[t] # Never => cache[s][t] <= gone[t] + MaxTtl * Second + Lag + Flight

\* What a client sees of a worker.
Seen == [r \in Request |-> IF pc[r] \in Rest THEN pc[r] ELSE "pending"]

Contract == INSTANCE SessionContract WITH answer <- Seen

\* The caches cannot be told from the contract: a token is accepted only if it
\* was valid within the window, and refused only if it is not valid or was issued
\* a moment ago.
ImplementsContract == Contract!Spec
=============================================================================
