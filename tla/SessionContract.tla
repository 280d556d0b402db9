---------------------------- MODULE SessionContract ----------------------------
(***************************************************************************)
(* What the services promise about Connect's session tokens, without any   *)
(* cache: a token is refused only when it is not valid any more or was     *)
(* issued a moment ago, and accepted only if it was valid not long ago.    *)
(***************************************************************************)
EXTENDS Integers

CONSTANTS
    Token,      \* token hashes
    Expiry,     \* what Connect may write as expire_at
    Request,    \* slots for requests being authenticated
    MaxTtl,     \* WENI_SESSION_TOKEN_MAX_REDIS_TTL, in seconds
    Second,     \* ticks of the clock in a second
    Flight,     \* ticks a worker spends on one request, at most
    Lag,        \* ticks in which what Connect does reaches every reader
    Horizon,    \* bound: the clock stops here
    Absent,     \* no item, no entry, not issued
    Never,      \* no expire_at; not invalidated
    Unreadable  \* an expire_at that is no ISO timestamp

VARIABLES
    now,      \* the clock
    issued,   \* token -> the expire_at it was issued with
    young,    \* token -> ticks for which a reader need not know of it yet
    gone,     \* token -> when it was invalidated
    token,    \* request -> the token it carries
    answer    \* request -> the verdict on it

contract == <<now, issued, young, gone, token, answer>>

Rest == {"idle", "accepted", "refused", "failed"}

-----------------------------------------------------------------------------
\* The token was issued, is not invalidated and lasts another d ticks.
Lasts(t, d) ==
    /\ issued[t] # Absent /\ issued[t] # Unreadable
    /\ gone[t] = Never
    /\ issued[t] \in Nat => now + d <= issued[t]

\* Accepting it now is excusable: it has not expired, give or take the time two
\* requests are under way (one that caches it and one that finds it there), and
\* was not invalidated longer ago than that, the ceiling of the cache and the time
\* until every reader knows.
Excusable(t) ==
    /\ issued[t] # Absent /\ issued[t] # Unreadable
    /\ issued[t] \in Nat => now < issued[t] + 2 * Flight
    /\ gone[t] # Never => now < gone[t] + MaxTtl * Second + Lag + 2 * Flight

Verdict(r, v) == answer' = [answer EXCEPT ![r] = v]

-----------------------------------------------------------------------------
Init ==
    /\ now = 0
    /\ issued = [t \in Token |-> Absent]
    /\ young = [t \in Token |-> 0]
    /\ gone = [t \in Token |-> Never]
    /\ token = [r \in Request |-> Absent]
    /\ answer = [r \in Request |-> "idle"]

Tick ==
    /\ now < Horizon
    /\ now' = now + 1
    /\ young' = [t \in Token |-> IF young[t] = 0 THEN 0 ELSE young[t] - 1]
    /\ UNCHANGED <<issued, gone, token, answer>>

Issue(t) ==
    /\ issued[t] = Absent
    /\ \E e \in Expiry : issued' = [issued EXCEPT ![t] = e]
    /\ young' = [young EXCEPT ![t] = Lag + 1]
    /\ UNCHANGED <<now, gone, token, answer>>

Invalidate(t) ==
    /\ issued[t] # Absent /\ gone[t] = Never
    /\ gone' = [gone EXCEPT ![t] = now]
    /\ UNCHANGED <<now, issued, young, token, answer>>

Ask(r, t) ==
    /\ answer[r] \in Rest
    /\ token' = [token EXCEPT ![r] = t]
    /\ Verdict(r, "pending")
    /\ UNCHANGED <<now, issued, young, gone>>

Accept(r) ==
    /\ answer[r] = "pending"
    /\ Excusable(token[r])
    /\ Verdict(r, "accepted")
    /\ UNCHANGED <<now, issued, young, gone, token>>

\* A token with less than a second left may be refused already, one just issued
\* still.
Refuse(r) ==
    /\ answer[r] = "pending"
    /\ ~Lasts(token[r], Second) \/ young[token[r]] > 0
    /\ Verdict(r, "refused")
    /\ UNCHANGED <<now, issued, young, gone, token>>

\* A store is down: the token is not accepted, whether it is valid or not.
GiveUp(r) ==
    /\ answer[r] = "pending"
    /\ Verdict(r, "failed")
    /\ UNCHANGED <<now, issued, young, gone, token>>

Next ==
    \/ Tick
    \/ \E t \in Token : Issue(t) \/ Invalidate(t)
    \/ \E r \in Request : (\E t \in Token : Ask(r, t)) \/ Accept(r) \/ Refuse(r) \/ GiveUp(r)

Spec == Init /\ [][Next]_contract
=============================================================================
