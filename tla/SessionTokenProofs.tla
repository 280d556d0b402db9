--------------------------- MODULE SessionTokenProofs ---------------------------
(***************************************************************************)
(* Theorems about SessionToken for any number of tokens, services and      *)
(* workers, any expiries and any ceiling, checked by TLAPS.                *)
(***************************************************************************)
EXTENDS SessionToken, TLAPS

-----------------------------------------------------------------------------
(* Arithmetic. *)

Ceiling == MaxTtl * Second

LEMMA DivisionBounds ==
    ASSUME NEW a \in Nat, NEW d \in Nat \ {0}
    PROVE  /\ a \div d \in Nat
           /\ (a \div d) * d <= a
           /\ a < (a \div d) * d + d
           /\ a >= d => a \div d >= 1
OBVIOUS

LEMMA ProductsGrow ==
    ASSUME NEW a \in Nat, NEW b \in Nat, NEW d \in Nat \ {0}, a <= b
    PROVE  a * d \in Nat /\ a * d <= b * d /\ (a > 0 => a * d > 0)
OBVIOUS

LEMMA TtlFacts ==
    ASSUME now \in Nat, NEW e \in Expiry
    PROVE  /\ Ttl(e) \in 0..MaxTtl
           /\ Ttl(e) * Second \in Nat /\ Ttl(e) * Second <= Ceiling
           /\ Ttl(e) > 0 => Ttl(e) * Second > 0
           /\ Ttl(e) > 0 => e # Unreadable
           /\ Ttl(e) > 0 /\ e \in Nat => now + Ttl(e) * Second <= e
           /\ Ttl(e) <= 0 => e = Unreadable \/ (e \in Nat /\ e < now + Second)
<1> USE SessionAssumption
<1>1. CASE e \notin Nat
  <2>1. Ttl(e) \in 0..MaxTtl /\ (Ttl(e) <= 0 => e = Unreadable) /\ (Ttl(e) > 0 => e # Unreadable)
    BY <1>1 DEF Ttl
  <2>2. Ttl(e) \in Nat /\ Ttl(e) <= MaxTtl
    BY <2>1
  <2> QED
    BY <1>1, <2>1, <2>2, ProductsGrow DEF Ceiling
<1>2. CASE e \in Nat /\ e <= now
  <2>1. Ttl(e) = 0
    BY <1>2 DEF Ttl
  <2>2. 0 * Second \in Nat /\ 0 * Second <= Ceiling
    BY ProductsGrow DEF Ceiling
  <2> QED
    BY <1>2, <2>1, <2>2
<1>3. CASE e \in Nat /\ e > now
  <2> DEFINE left == (e - now) \div Second
  <2>1. e - now \in Nat
    BY <1>3
  <2>2. /\ left \in Nat /\ left * Second <= e - now
        /\ e - now >= Second => left >= 1
    BY <2>1, DivisionBounds
  <2>3. Ttl(e) = IF left < MaxTtl THEN left ELSE MaxTtl
    BY <1>3 DEF Ttl
  <2> HIDE DEF left
  <2>4. Ttl(e) \in Nat /\ Ttl(e) <= MaxTtl /\ Ttl(e) <= left
    BY <2>2, <2>3
  <2>5. /\ Ttl(e) * Second \in Nat /\ Ttl(e) * Second <= left * Second
        /\ Ttl(e) > 0 => Ttl(e) * Second > 0
    BY <2>2, <2>4, ProductsGrow
  <2>6. Ttl(e) * Second <= Ceiling
    BY <2>4, ProductsGrow DEF Ceiling
  <2>7. Ttl(e) <= 0 => e - now < Second
    BY <2>1, <2>2, <2>3
  <2>8. left * Second \in Nat
    BY <2>2, ProductsGrow
  <2> HIDE DEF Ceiling
  <2>9. now + Ttl(e) * Second <= e
    <3> DEFINE a == Ttl(e) * Second
               b == left * Second
    <3>1. a \in Nat /\ b \in Nat /\ a <= b /\ b <= e - now
      BY <2>2, <2>5, <2>8
    <3> HIDE DEF a, b
    <3>2. now + a <= e
      BY <1>3, <3>1
    <3> QED
      BY <3>2 DEF a
  <2> QED
    BY <1>3, <2>4, <2>5, <2>6, <2>7, <2>9
<1> QED
  BY <1>1, <1>2, <1>3

-----------------------------------------------------------------------------
\* SessionTypeOK: what is read from the table is an expiry, and what is cached is
\* cached for at least one second.
THEOREM SessionTypeCorrect == Spec => []SessionTypeOK
<1> USE SessionAssumption
<1>1. Init => SessionTypeOK
  BY DEF Init, SessionTypeOK, Rest
<1>2. SessionTypeOK /\ [Next]_vars => SessionTypeOK'
  <2> SUFFICES ASSUME SessionTypeOK, [Next]_vars PROVE SessionTypeOK'
    OBVIOUS
  <2> USE DEF stores, worker
  <2>1. CASE UNCHANGED vars
    BY <2>1 DEF vars, SessionTypeOK
  <2>2. CASE Tick
    BY <2>2 DEF Tick, SessionTypeOK
  <2>3. ASSUME NEW t \in Token, Issue(t) PROVE SessionTypeOK'
    <3>1. PICK e \in Expiry :
              /\ issued' = [issued EXCEPT ![t] = e]
              /\ table' = [table EXCEPT ![t] = e]
              /\ cache' = [cache EXCEPT ![Connect][t] = Cached(Ttl(e))]
      BY <2>3 DEF Issue
    <3>2. now \in Nat /\ Ttl(e) * Second \in Nat
      BY TtlFacts DEF SessionTypeOK
    <3>3. Cached(Ttl(e)) \in Nat \cup {Absent}
      BY <3>2 DEF Cached
    <3> QED
      BY <2>3, <3>1, <3>3 DEF Issue, SessionTypeOK
  <2>4. ASSUME NEW t \in Token, Invalidate(t) PROVE SessionTypeOK'
    BY <2>4 DEF Invalidate, SessionTypeOK
  <2>5. ASSUME NEW t \in Token, NativeTtl(t) PROVE SessionTypeOK'
    BY <2>5 DEF NativeTtl, SessionTypeOK
  <2>6. ASSUME NEW t \in Token, NEW s \in Service, Evict(s, t) PROVE SessionTypeOK'
    BY <2>6 DEF Evict, SessionTypeOK
  <2>7. ASSUME NEW r \in Request, Arrive(r) PROVE SessionTypeOK'
    BY <2>7 DEF Arrive, Goto, SessionTypeOK, Rest, Verdicts
  <2>8. ASSUME NEW r \in Request, Hit(r) \/ Miss(r) PROVE SessionTypeOK'
    BY <2>8 DEF Hit, Miss, Goto, SessionTypeOK, Rest, Verdicts
  <2>9. ASSUME NEW r \in Request, ReadItem(r) PROVE SessionTypeOK'
    <3>1. PICK e \in Readable(token[r]) \ {Absent} : read' = [read EXCEPT ![r] = e]
      BY <2>9 DEF ReadItem
    <3>2. e \in Expiry
      BY <2>9, <3>1 DEF ReadItem, Readable, SessionTypeOK, Rest, Verdicts
    <3> QED
      BY <2>9, <3>1, <3>2 DEF ReadItem, Goto, SessionTypeOK, Rest, Verdicts
  <2>10. ASSUME NEW r \in Request, NEW v \in Verdicts, Answer(r, v),
                UNCHANGED <<now, stores, token>>
         PROVE  SessionTypeOK'
    BY <2>10 DEF Answer, Goto, SessionTypeOK, Rest, Verdicts
  <2>11. ASSUME NEW r \in Request, NoItem(r) \/ Resolve(r) \/ GiveUp(r) PROVE SessionTypeOK'
    BY <2>10, <2>11 DEF NoItem, Resolve, GiveUp, Verdicts
  <2>12. ASSUME NEW r \in Request, ComputeTtl(r) PROVE SessionTypeOK'
    <3>1. CASE Ttl(read[r]) <= 0
      BY <2>10, <2>12, <3>1 DEF ComputeTtl, Verdicts
    <3>2. CASE ~(Ttl(read[r]) <= 0)
      <4>1. read[r] \in Expiry /\ now \in Nat
        BY <2>12 DEF ComputeTtl, SessionTypeOK
      <4>2. Ttl(read[r]) \in 0..MaxTtl
        BY <4>1, TtlFacts
      <4>3. Ttl(read[r]) > 0
        BY <3>2, <4>2
      <4> QED
        BY <2>12, <3>2, <4>2, <4>3 DEF ComputeTtl, Goto, SessionTypeOK, Rest, Verdicts
    <3> QED
      BY <3>1, <3>2
  <2>13. ASSUME NEW r \in Request, WarmCache(r) PROVE SessionTypeOK'
    <3>1. ttl[r] * Second \in Nat
      BY ProductsGrow DEF SessionTypeOK
    <3>2. Cached(ttl[r]) \in Nat \cup {Absent}
      BY <3>1 DEF Cached, SessionTypeOK
    <3> QED
      BY <2>13, <3>2 DEF WarmCache, Goto, SessionTypeOK, Rest, Verdicts
  <2> QED
    BY <2>1, <2>2, <2>3, <2>4, <2>5, <2>6, <2>7, <2>8, <2>9, <2>11, <2>12, <2>13
    DEF Next, Authenticate
<1> QED
  BY <1>1, <1>2, PTL DEF Spec

-----------------------------------------------------------------------------
(* The inductive invariant behind CacheBounded: what the table says of a   *)
(* token, how long an entry may still live, and what a worker under way    *)
(* has learnt since its request arrived.                                   *)

Ledger ==
    \A t \in Token :
        /\ issued[t] = Absent => table[t] = Absent /\ gone[t] = Never
        /\ table[t] # Absent => table[t] = issued[t] /\ gone[t] = Never
        /\ table[t] = Absent /\ issued[t] # Absent /\ gone[t] = Never
              => issued[t] \in Nat /\ issued[t] <= now

CacheFresh ==
    \A s \in Service, t \in Token : cache[s][t] # Absent =>
        now < cache[s][t] /\ cache[s][t] <= now + Ceiling

OnTime(r) == began[r] <= now /\ now <= began[r] + Flight

\* A replica had the item when r read it, after began[r].
ReadWell(r) ==
    /\ read[r] = issued[token[r]]
    /\ gone[token[r]] # Never => began[r] <= gone[token[r]] + Lag

FitsExpiry(r) ==
    /\ issued[token[r]] # Unreadable
    /\ issued[token[r]] \in Nat => began[r] + ttl[r] * Second <= issued[token[r]]

\* The token may be accepted as long as the request is on time.
Acceptable(r) ==
    /\ issued[token[r]] \notin {Absent, Unreadable}
    /\ issued[token[r]] \in Nat => began[r] < issued[token[r]] + Flight
    /\ gone[token[r]] # Never => began[r] < gone[token[r]] + Ceiling + Lag + Flight

UnderWay ==
    \A r \in Request : pc[r] \notin Rest =>
        /\ OnTime(r)
        /\ pc[r] \in {"ttl", "warm"} => ReadWell(r)
        /\ pc[r] = "warm" => FitsExpiry(r)
        /\ pc[r] = "resolve" => Acceptable(r)

SessionInv == Ledger /\ CacheFresh /\ CacheBounded /\ UnderWay

LEMMA CeilingPositive == Ceiling \in Nat /\ Ceiling > 0
BY SessionAssumption, ProductsGrow DEF Ceiling

\* What a step that leaves the stores and the clock alone has to show.
LEMMA OnlyWorkers ==
    ASSUME SessionInv, UNCHANGED <<now, stores>>
    PROVE  Ledger' /\ CacheFresh' /\ CacheBounded'
BY DEF SessionInv, stores, Ledger, CacheFresh, CacheBounded, Ceiling

LEMMA AnswerKeepsInv ==
    ASSUME SessionTypeOK, SessionInv, NEW r \in Request, NEW v \in Verdicts, Answer(r, v),
           UNCHANGED <<now, stores, token>>
    PROVE  SessionInv'
<1>1. \A q \in Request : q # r => /\ pc'[q] = pc[q] /\ read'[q] = read[q]
                                  /\ ttl'[q] = ttl[q] /\ began'[q] = began[q]
  BY DEF Answer, Goto, SessionTypeOK
<1>2. pc'[r] \in Rest
  BY DEF Answer, Goto, SessionTypeOK, Rest
<1>3. UnderWay'
  BY <1>1, <1>2 DEF SessionInv, UnderWay, OnTime, ReadWell, FitsExpiry, Acceptable, stores, Ceiling
<1> QED
  BY <1>3, OnlyWorkers DEF SessionInv

LEMMA ClockKeepsInv ==
    ASSUME SessionTypeOK, SessionInv, Tick
    PROVE  SessionInv'
<1> USE SessionAssumption, CeilingPositive
<1>1. now \in Nat /\ now' = now + 1
  BY DEF Tick, SessionTypeOK
<1>2. Ledger'
  <2> SUFFICES ASSUME NEW t \in Token, issued[t] \in Nat, issued[t] <= now PROVE issued[t] <= now'
    BY DEF SessionInv, Ledger, Tick
  <2> QED
    BY <1>1
<1>3. \A s \in Service, t \in Token : cache'[s][t] # Absent =>
          cache'[s][t] = cache[s][t] /\ cache[s][t] \in Nat /\ now' < cache[s][t]
  BY <1>1 DEF Tick, SessionTypeOK
<1>4. CacheFresh'
  BY <1>1, <1>3 DEF SessionInv, CacheFresh, Ceiling
<1>5. CacheBounded'
  BY <1>3 DEF SessionInv, CacheBounded, Tick, Ceiling
<1>6. UnderWay'
  <2>1. ASSUME NEW r \in Request, pc[r] \notin Rest PROVE OnTime(r)'
    BY <1>1, <2>1 DEF SessionInv, UnderWay, OnTime, Tick, worker, SessionTypeOK
  <2> QED
    BY <2>1 DEF SessionInv, UnderWay, ReadWell, FitsExpiry, Acceptable, Tick, worker, Ceiling
<1> QED
  BY <1>2, <1>4, <1>5, <1>6 DEF SessionInv

LEMMA IssueKeepsInv ==
    ASSUME SessionTypeOK, SessionInv, NEW t \in Token, Issue(t)
    PROVE  SessionInv'
<1> USE SessionAssumption, CeilingPositive
<1>1. PICK e \in Expiry : /\ issued' = [issued EXCEPT ![t] = e]
                          /\ table' = [table EXCEPT ![t] = e]
                          /\ cache' = [cache EXCEPT ![Connect][t] = Cached(Ttl(e))]
  BY DEF Issue
<1>2. /\ issued[t] = Absent /\ gone[t] = Never /\ e # Absent
      /\ \A s \in Service : cache[s][t] = Absent
  BY DEF Issue, SessionInv, Ledger, CacheBounded
<1>3. Ledger'
  BY <1>1, <1>2 DEF Issue, SessionInv, Ledger, SessionTypeOK
<1>4. \A s \in Service, u \in Token : cache'[s][u] # Absent =>
          \/ u # t /\ cache'[s][u] = cache[s][u]
          \/ u = t /\ Ttl(e) > 0 /\ cache'[s][u] = now + Ttl(e) * Second
  <2>1. \A s \in Service, u \in Token :
            cache'[s][u] = IF s = Connect /\ u = t THEN Cached(Ttl(e)) ELSE cache[s][u]
    BY <1>1 DEF SessionTypeOK
  <2>2. Ttl(e) \in 0..MaxTtl
    BY TtlFacts DEF SessionTypeOK
  <2>3. Cached(Ttl(e)) # Absent => Ttl(e) > 0 /\ Cached(Ttl(e)) = now + Ttl(e) * Second
    BY <2>2 DEF Cached
  <2> QED
    BY <1>2, <2>1, <2>3
<1>5. now \in Nat /\ now' = now /\ Ttl(e) * Second \in Nat
  BY TtlFacts DEF Issue, SessionTypeOK
<1>6. Ttl(e) > 0 => /\ now < now + Ttl(e) * Second
                    /\ now + Ttl(e) * Second <= now + Ceiling
                    /\ e # Unreadable
                    /\ e \in Nat => now + Ttl(e) * Second <= e + Flight
  BY <1>5, TtlFacts
<1>7. CacheFresh'
  BY <1>4, <1>5, <1>6 DEF SessionInv, CacheFresh, Ceiling
<1>8. CacheBounded'
  BY <1>1, <1>2, <1>4, <1>6 DEF SessionInv, CacheBounded, Issue, SessionTypeOK
<1>9. \A r \in Request : pc[r] \in {"ttl", "warm", "resolve"} => token[r] \in Token /\ token[r] # t
  BY <1>2 DEF SessionInv, UnderWay, ReadWell, Acceptable, SessionTypeOK, Rest, Verdicts
<1>10. \A u \in Token : u # t => issued'[u] = issued[u] /\ gone'[u] = gone[u]
  BY <1>1 DEF Issue, SessionTypeOK
<1>11. UnderWay'
  BY <1>9, <1>10
  DEF SessionInv, UnderWay, OnTime, ReadWell, FitsExpiry, Acceptable, Issue, worker, Ceiling
<1> QED
  BY <1>3, <1>7, <1>8, <1>11 DEF SessionInv

LEMMA InvalidateKeepsInv ==
    ASSUME SessionTypeOK, SessionInv, NEW t \in Token, Invalidate(t)
    PROVE  SessionInv'
<1> USE SessionAssumption, CeilingPositive
<1>1. /\ gone[t] = Never /\ gone'[t] = now /\ now \in Nat /\ now' = now
      /\ \A u \in Token : u # t => gone'[u] = gone[u]
  BY DEF Invalidate, SessionTypeOK
<1>2. Ledger'
  BY <1>1 DEF Invalidate, SessionInv, Ledger, SessionTypeOK
<1>3. CacheFresh'
  BY DEF Invalidate, SessionInv, CacheFresh, Ceiling
<1>4. CacheBounded'
  <2> SUFFICES ASSUME NEW s \in Service, cache[s][t] # Absent
               PROVE  cache[s][t] <= now + Ceiling + Lag + Flight
    BY <1>1 DEF Invalidate, SessionInv, CacheBounded, Ceiling
  <2> QED
    BY <1>1 DEF SessionInv, CacheFresh, SessionTypeOK
<1>5. UnderWay'
  <2> SUFFICES ASSUME NEW r \in Request, pc[r] \notin Rest, token[r] = t
               PROVE  /\ began[r] <= now /\ began[r] <= now + Lag
                      /\ pc[r] = "resolve" => began[r] < now + Ceiling + Lag + Flight
    BY <1>1
    DEF Invalidate, worker, SessionInv, UnderWay, OnTime, ReadWell, FitsExpiry, Acceptable,
        SessionTypeOK, Ceiling
  <2> QED
    BY <1>1 DEF SessionInv, UnderWay, OnTime, SessionTypeOK
<1> QED
  BY <1>2, <1>3, <1>4, <1>5 DEF SessionInv

LEMMA RemovalKeepsInv ==
    ASSUME SessionTypeOK, SessionInv, NEW t \in Token,
           NativeTtl(t) \/ \E s \in Service : Evict(s, t)
    PROVE  SessionInv'
<1>1. Ledger'
  BY DEF NativeTtl, Evict, SessionInv, Ledger, SessionTypeOK
<1>2. \A s \in Service, u \in Token : cache'[s][u] \in {cache[s][u], Absent}
  BY DEF NativeTtl, Evict, SessionTypeOK
<1>3. UNCHANGED <<now, issued, young, gone, worker>>
  BY DEF NativeTtl, Evict
<1>4. CacheFresh' /\ CacheBounded'
  BY <1>2, <1>3 DEF SessionInv, CacheFresh, CacheBounded, Ceiling
<1>5. UnderWay'
  BY <1>3 DEF SessionInv, UnderWay, OnTime, ReadWell, FitsExpiry, Acceptable, worker, Ceiling
<1> QED
  BY <1>1, <1>4, <1>5 DEF SessionInv

LEMMA WorkersApart ==
    ASSUME SessionInv, UNCHANGED <<now, issued, gone>>,
           NEW q \in Request, pc[q] \notin Rest,
           pc'[q] = pc[q], token'[q] = token[q], read'[q] = read[q],
           ttl'[q] = ttl[q], began'[q] = began[q]
    PROVE  /\ OnTime(q)'
           /\ pc'[q] \in {"ttl", "warm"} => ReadWell(q)'
           /\ pc'[q] = "warm" => FitsExpiry(q)'
           /\ pc'[q] = "resolve" => Acceptable(q)'
BY DEF SessionInv, UnderWay, OnTime, ReadWell, FitsExpiry, Acceptable, Ceiling

LEMMA LookupKeepsInv ==
    ASSUME SessionTypeOK, SessionInv, NEW r \in Request,
           Arrive(r) \/ Hit(r) \/ Miss(r) \/ ReadItem(r)
    PROVE  SessionInv'
<1> USE SessionAssumption, CeilingPositive
<1>1. UNCHANGED <<now, stores>>
  BY DEF Arrive, Hit, Miss, ReadItem
<1>2. \A q \in Request : q # r => /\ pc'[q] = pc[q] /\ token'[q] = token[q]
                                  /\ read'[q] = read[q] /\ ttl'[q] = ttl[q]
                                  /\ began'[q] = began[q]
  BY DEF Arrive, Hit, Miss, ReadItem, Goto, SessionTypeOK
<1>3. /\ OnTime(r)'
      /\ pc'[r] \in {"ttl", "warm"} => ReadWell(r)'
      /\ pc'[r] # "warm"
      /\ pc'[r] = "resolve" => Acceptable(r)'
  <2>1. CASE Arrive(r)
    BY <2>1 DEF Arrive, Goto, OnTime, SessionTypeOK
  <2>2. CASE Hit(r)
    <3>1. /\ token[r] \in Token /\ ServedBy[r] \in Service
          /\ Cache(r) \in Nat /\ now \in Nat /\ began[r] \in Nat /\ began[r] <= now
          /\ now < Cache(r)
      <4>1. /\ token[r] \in Token /\ ServedBy[r] \in Service /\ now \in Nat /\ began[r] \in Nat
            /\ pc[r] \notin Rest /\ Cache(r) # Absent
        BY <2>2 DEF Hit, SessionTypeOK, Rest, Verdicts
      <4>2. Cache(r) \in Nat
        BY <4>1 DEF Cache, SessionTypeOK
      <4>3. began[r] <= now
        BY <4>1 DEF SessionInv, UnderWay, OnTime
      <4>4. now < Cache(r)
        BY <4>1 DEF Cache, SessionInv, CacheFresh
      <4> QED
        BY <4>1, <4>2, <4>3, <4>4
    <3>2. /\ issued[token[r]] \notin {Absent, Unreadable}
          /\ issued[token[r]] \in Nat => Cache(r) <= issued[token[r]] + Flight
          /\ gone[token[r]] # Never => Cache(r) <= gone[token[r]] + Ceiling + Lag + Flight
      BY <2>2, <3>1 DEF Hit, Cache, SessionInv, CacheBounded, Ceiling
    <3>3. gone[token[r]] \in Nat \cup {Never}
      BY <3>1 DEF SessionTypeOK
    <3>4. Acceptable(r)
      BY <3>1, <3>2, <3>3 DEF Acceptable
    <3>5. Acceptable(r)' /\ OnTime(r)'
      BY <2>2, <3>4
      DEF Hit, stores, Acceptable, Ceiling, OnTime, SessionInv, UnderWay, Rest, Verdicts
    <3> QED
      BY <2>2, <3>5 DEF Hit, Goto, SessionTypeOK
  <2>3. CASE Miss(r)
    BY <2>3 DEF Miss, Goto, OnTime, SessionInv, UnderWay, SessionTypeOK, Rest, Verdicts
  <2>4. CASE ReadItem(r)
    <3>1. token[r] \in Token
      BY <2>4 DEF ReadItem, SessionTypeOK, Rest, Verdicts
    <3>2. /\ read'[r] = issued[token[r]]
          /\ gone[token[r]] # Never => now <= gone[token[r]] + Lag
      BY <2>4, <3>1 DEF ReadItem, Readable, SessionInv, Ledger, SessionTypeOK
    <3>3. /\ now \in Nat /\ began[r] \in Nat /\ began[r] <= now
          /\ gone[token[r]] \in Nat \cup {Never}
      BY <2>4, <3>1
      DEF ReadItem, OnTime, SessionInv, UnderWay, SessionTypeOK, Rest, Verdicts
    <3>4. gone[token[r]] # Never => began[r] <= gone[token[r]] + Lag
      BY <3>2, <3>3
    <3>5. OnTime(r) /\ UNCHANGED <<now, stores, token, ttl, began>> /\ pc'[r] = "ttl"
      BY <2>4 DEF ReadItem, Goto, SessionInv, UnderWay, SessionTypeOK, Rest, Verdicts
    <3>6. OnTime(r)' /\ ReadWell(r)'
      BY <3>2, <3>4, <3>5 DEF stores, OnTime, ReadWell
    <3> QED
      BY <3>5, <3>6
  <2> QED
    BY <2>1, <2>2, <2>3, <2>4
<1>4. UnderWay'
  <2> SUFFICES ASSUME NEW q \in Request, pc'[q] \notin Rest
               PROVE  /\ OnTime(q)'
                      /\ pc'[q] \in {"ttl", "warm"} => ReadWell(q)'
                      /\ pc'[q] = "warm" => FitsExpiry(q)'
                      /\ pc'[q] = "resolve" => Acceptable(q)'
    BY DEF UnderWay
  <2>1. CASE q = r
    BY <1>3, <2>1
  <2>2. CASE q # r
    BY <1>1, <1>2, <2>2, WorkersApart DEF stores
  <2> QED
    BY <2>1, <2>2
<1> QED
  BY <1>1, <1>4, OnlyWorkers DEF SessionInv

LEMMA TtlKeepsInv ==
    ASSUME SessionTypeOK, SessionInv, NEW r \in Request, ComputeTtl(r)
    PROVE  SessionInv'
<1> USE SessionAssumption, CeilingPositive
<1>1. CASE Ttl(read[r]) <= 0
  BY <1>1, AnswerKeepsInv DEF ComputeTtl, Verdicts
<1>2. CASE ~(Ttl(read[r]) <= 0)
  <2>1. /\ pc[r] = "ttl" /\ pc'[r] = "warm" /\ ttl'[r] = Ttl(read[r])
        /\ UNCHANGED <<now, stores, token, read, began>>
        /\ \A q \in Request : q # r => pc'[q] = pc[q] /\ ttl'[q] = ttl[q]
    BY <1>2 DEF ComputeTtl, Goto, SessionTypeOK
  <2>2. now \in Nat /\ began[r] \in Nat /\ read[r] \in Expiry
    BY <2>1 DEF SessionTypeOK
  <2>3. OnTime(r) /\ ReadWell(r)
    BY <2>1 DEF SessionInv, UnderWay, Rest, Verdicts
  <2>4. Ttl(read[r]) \in 0..MaxTtl /\ Ttl(read[r]) * Second \in Nat
    BY <2>2, TtlFacts
  <2>5. /\ read[r] # Unreadable
        /\ read[r] \in Nat => now + Ttl(read[r]) * Second <= read[r]
    <3>1. Ttl(read[r]) > 0
      BY <1>2, <2>4
    <3> QED
      BY <2>2, <3>1, TtlFacts
  <2>6. FitsExpiry(r)'
    <3>1. issued[token[r]] \in Nat => began[r] + Ttl(read[r]) * Second <= issued[token[r]]
      BY <2>2, <2>3, <2>4, <2>5 DEF OnTime, ReadWell
    <3> QED
      BY <2>1, <2>3, <2>5, <3>1 DEF FitsExpiry, ReadWell, stores
  <2>7. OnTime(r)' /\ ReadWell(r)'
    BY <2>1, <2>3 DEF OnTime, ReadWell, stores
  <2>8. UnderWay'
    <3> SUFFICES ASSUME NEW q \in Request, pc'[q] \notin Rest
                 PROVE  /\ OnTime(q)'
                        /\ pc'[q] \in {"ttl", "warm"} => ReadWell(q)'
                        /\ pc'[q] = "warm" => FitsExpiry(q)'
                        /\ pc'[q] = "resolve" => Acceptable(q)'
      BY DEF UnderWay
    <3>1. CASE q = r
      BY <2>1, <2>6, <2>7, <3>1
    <3>2. CASE q # r
      BY <2>1, <3>2, WorkersApart DEF stores
    <3> QED
      BY <3>1, <3>2
  <2> QED
    BY <2>1, <2>8, OnlyWorkers DEF SessionInv
<1> QED
  BY <1>1, <1>2

LEMMA WarmKeepsInv ==
    ASSUME SessionTypeOK, SessionInv, NEW r \in Request, WarmCache(r)
    PROVE  SessionInv'
<1> USE SessionAssumption, CeilingPositive
<1> DEFINE t == token[r]
           span == ttl[r] * Second
<1>1. /\ pc[r] = "warm" /\ pc'[r] = "resolve" /\ ServedBy[r] \in Service
      /\ UNCHANGED <<now, table, issued, young, gone, token, read, ttl, began>>
      /\ \A q \in Request : q # r => pc'[q] = pc[q]
  BY DEF WarmCache, Goto, SessionTypeOK
<1>2. /\ t \in Token /\ ttl[r] \in 0..MaxTtl /\ ttl[r] > 0 /\ read[r] # Absent
      /\ now \in Nat /\ began[r] \in Nat /\ gone[t] \in Nat \cup {Never}
      /\ issued[t] \in Expiry \cup {Absent}
  BY <1>1 DEF SessionTypeOK, Rest, Verdicts
<1>3. span \in Nat /\ span > 0 /\ span <= Ceiling
  BY <1>2, ProductsGrow DEF Ceiling
<1>4. OnTime(r) /\ ReadWell(r) /\ FitsExpiry(r)
  BY <1>1 DEF SessionInv, UnderWay, Rest, Verdicts
<1>5. /\ issued[t] \notin {Absent, Unreadable}
      /\ issued[t] \in Nat => began[r] + span <= issued[t]
      /\ gone[t] # Never => began[r] <= gone[t] + Lag
  BY <1>2, <1>4 DEF ReadWell, FitsExpiry
<1> HIDE DEF span
<1>6. /\ issued[t] \in Nat => now + span <= issued[t] + Flight
      /\ gone[t] # Never => now + span <= gone[t] + Ceiling + Lag + Flight
  BY <1>2, <1>3, <1>4, <1>5 DEF OnTime
<1>7. \A s \in Service, u \in Token :
          cache'[s][u] = IF s = ServedBy[r] /\ u = t THEN now + span ELSE cache[s][u]
  BY <1>1, <1>2 DEF WarmCache, Cached, span, SessionTypeOK
<1>8. Ledger'
  BY <1>1 DEF SessionInv, Ledger
<1>9. CacheFresh'
  <2>1. now < now + span /\ now + span <= now + Ceiling
    BY <1>2, <1>3
  <2> QED
    BY <1>1, <1>7, <2>1 DEF SessionInv, CacheFresh, Ceiling
<1>10. CacheBounded'
  BY <1>1, <1>5, <1>6, <1>7 DEF SessionInv, CacheBounded, Ceiling
<1>11. Acceptable(r) /\ OnTime(r)
  BY <1>2, <1>3, <1>4, <1>5 DEF Acceptable
<1>12. Acceptable(r)' /\ OnTime(r)'
  BY <1>1, <1>11 DEF Acceptable, OnTime, Ceiling
<1>13. UnderWay'
  <2> SUFFICES ASSUME NEW q \in Request, pc'[q] \notin Rest
               PROVE  /\ OnTime(q)'
                      /\ pc'[q] \in {"ttl", "warm"} => ReadWell(q)'
                      /\ pc'[q] = "warm" => FitsExpiry(q)'
                      /\ pc'[q] = "resolve" => Acceptable(q)'
    BY DEF UnderWay
  <2>1. CASE q = r
    BY <1>1, <1>12, <2>1
  <2>2. CASE q # r
    BY <1>1, <2>2, WorkersApart
  <2> QED
    BY <2>1, <2>2
<1> QED
  BY <1>8, <1>9, <1>10, <1>13 DEF SessionInv

LEMMA SessionInvHolds == Spec => []SessionInv
<1>1. Init => SessionInv
  BY DEF Init, SessionInv, Ledger, CacheFresh, CacheBounded, UnderWay, Rest
<1>2. SessionTypeOK /\ SessionInv /\ [Next]_vars => SessionInv'
  <2> SUFFICES ASSUME SessionTypeOK, SessionInv, [Next]_vars PROVE SessionInv'
    OBVIOUS
  <2>1. CASE UNCHANGED vars
    BY <2>1, OnlyWorkers
    DEF vars, stores, worker, SessionInv, UnderWay, OnTime, ReadWell, FitsExpiry, Acceptable, Ceiling
  <2>2. ASSUME NEW r \in Request, NoItem(r) \/ Resolve(r) \/ GiveUp(r) PROVE SessionInv'
    BY <2>2, AnswerKeepsInv DEF NoItem, Resolve, GiveUp, Verdicts
  <2> QED
    BY <2>1, <2>2, ClockKeepsInv, IssueKeepsInv, InvalidateKeepsInv, RemovalKeepsInv,
       LookupKeepsInv, TtlKeepsInv, WarmKeepsInv
    DEF Next, Authenticate
<1> QED
  BY <1>1, <1>2, SessionTypeCorrect, PTL DEF Spec

\* CacheBounded: no Redis keeps a token past its expiry, or past the ceiling
\* after its invalidation, but for the time the caching request was under way and
\* the lag of the replica it read.
THEOREM CachesStayBounded == Spec => []CacheBounded
BY SessionInvHolds, PTL DEF SessionInv

-----------------------------------------------------------------------------
(* Every step of the workers and the stores is a step of the contract, or *)
(* changes nothing a client sees.                                          *)

LEMMA InvisibleStep ==
    ASSUME SessionTypeOK, NEW r \in Request,
           pc[r] \notin Rest, pc'[r] \notin Rest, \A q \in Request : q # r => pc'[q] = pc[q],
           UNCHANGED <<now, issued, young, gone, token>>
    PROVE  UNCHANGED Contract!contract
BY DEF Contract!contract, Seen

LEMMA AnswerSeen ==
    ASSUME SessionTypeOK, NEW r \in Request, NEW v \in Verdicts, pc[r] \notin Rest, Answer(r, v)
    PROVE  Seen[r] = "pending" /\ Contract!Verdict(r, v)
<1>1. pc'[r] = v /\ \A q \in Request : q # r => pc'[q] = pc[q]
  BY DEF Answer, Goto, SessionTypeOK
<1>2. Seen' = [Seen EXCEPT ![r] = v]
  BY <1>1 DEF Seen, Rest
<1> QED
  BY <1>2 DEF Contract!Verdict, Seen

LEMMA AcceptanceExcusable ==
    ASSUME SessionTypeOK, SessionInv, NEW r \in Request, pc[r] = "resolve"
    PROVE  Contract!Excusable(token[r])
<1> USE SessionAssumption, CeilingPositive
<1>1. /\ token[r] \in Token /\ now \in Nat /\ began[r] \in Nat
      /\ gone[token[r]] \in Nat \cup {Never}
  BY DEF SessionTypeOK, Rest, Verdicts
<1>2. Acceptable(r) /\ OnTime(r)
  BY DEF SessionInv, UnderWay, Rest, Verdicts
<1>3. /\ issued[token[r]] \in Nat => now < issued[token[r]] + 2 * Flight
      /\ gone[token[r]] # Never => now < gone[token[r]] + Ceiling + Lag + 2 * Flight
  BY <1>1, <1>2 DEF Acceptable, OnTime
<1> QED
  BY <1>2, <1>3 DEF Contract!Excusable, Acceptable, Ceiling

LEMMA RefusalJustified ==
    ASSUME SessionTypeOK, SessionInv, NEW r \in Request,
           NoItem(r) \/ (ComputeTtl(r) /\ Ttl(read[r]) <= 0)
    PROVE  ~Contract!Lasts(token[r], Second) \/ young[token[r]] > 0
<1> USE SessionAssumption
<1>1. token[r] \in Token /\ now \in Nat
  BY DEF NoItem, ComputeTtl, SessionTypeOK, Rest, Verdicts
<1>2. CASE NoItem(r)
  BY <1>1, <1>2 DEF NoItem, Readable, SessionInv, Ledger, SessionTypeOK, Contract!Lasts
<1>3. CASE ComputeTtl(r) /\ Ttl(read[r]) <= 0
  <2>1. read[r] = issued[token[r]] /\ read[r] \in Expiry
    BY <1>3 DEF ComputeTtl, SessionInv, UnderWay, ReadWell, SessionTypeOK, Rest, Verdicts
  <2>2. read[r] = Unreadable \/ (read[r] \in Nat /\ read[r] < now + Second)
    BY <1>1, <1>3, <2>1, TtlFacts
  <2> QED
    BY <1>1, <2>1, <2>2 DEF Contract!Lasts
<1> QED
  BY <1>2, <1>3

\* ImplementsContract: with any number of caches, workers and tokens, clients
\* see the contract.
THEOREM CachesImplementContract == Spec => ImplementsContract
<1>1. Init => Contract!Init
  BY DEF Init, Contract!Init, Seen, Rest
<1>2. SessionTypeOK /\ SessionInv /\ [Next]_vars => [Contract!Next]_Contract!contract
  <2> SUFFICES ASSUME SessionTypeOK, SessionInv, [Next]_vars
               PROVE  Contract!Next \/ UNCHANGED Contract!contract
    OBVIOUS
  <2>1. CASE UNCHANGED vars
    BY <2>1 DEF vars, stores, worker, Contract!contract, Seen
  <2>2. CASE Tick
    BY <2>2 DEF Tick, worker, Seen, Contract!Next, Contract!Tick
  <2>3. ASSUME NEW t \in Token, Issue(t) PROVE Contract!Next
    BY <2>3 DEF Issue, worker, Seen, Contract!Next, Contract!Issue
  <2>4. ASSUME NEW t \in Token, Invalidate(t) PROVE Contract!Next
    BY <2>4 DEF Invalidate, worker, Seen, Contract!Next, Contract!Invalidate
  <2>5. ASSUME NEW t \in Token, NativeTtl(t) \/ \E s \in Service : Evict(s, t)
        PROVE  UNCHANGED Contract!contract
    BY <2>5 DEF NativeTtl, Evict, worker, Contract!contract, Seen
  <2>6. ASSUME NEW r \in Request, Arrive(r) PROVE Contract!Next
    <3>1. PICK t \in Token : token' = [token EXCEPT ![r] = t]
      BY <2>6 DEF Arrive
    <3>2. Contract!Verdict(r, "pending") /\ Seen[r] \in Contract!Rest
      BY <2>6
      DEF Arrive, Goto, Contract!Verdict, Contract!Rest, Seen, SessionTypeOK, Rest, Verdicts
    <3>3. Contract!Ask(r, t)
      BY <2>6, <3>1, <3>2 DEF Arrive, stores, Contract!Ask
    <3> QED
      BY <3>3 DEF Contract!Next
  <2>7. ASSUME NEW r \in Request, Hit(r) \/ Miss(r) \/ ReadItem(r) \/ WarmCache(r)
        PROVE  UNCHANGED Contract!contract
    <3>1. /\ pc[r] \notin Rest /\ pc'[r] \notin Rest
          /\ \A q \in Request : q # r => pc'[q] = pc[q]
      BY <2>7 DEF Hit, Miss, ReadItem, WarmCache, Goto, SessionTypeOK, Rest, Verdicts
    <3>2. UNCHANGED <<now, issued, young, gone, token>>
      BY <2>7 DEF Hit, Miss, ReadItem, WarmCache, stores
    <3> QED
      BY <3>1, <3>2, InvisibleStep
  <2>8. ASSUME NEW r \in Request, NoItem(r) \/ (ComputeTtl(r) /\ Ttl(read[r]) <= 0)
        PROVE  Contract!Next
    <3>1. /\ pc[r] \notin Rest /\ Answer(r, "refused")
          /\ UNCHANGED <<now, issued, young, gone, token>>
      BY <2>8 DEF NoItem, ComputeTtl, stores, Rest, Verdicts
    <3>2. Seen[r] = "pending" /\ Contract!Verdict(r, "refused")
      BY <3>1, AnswerSeen DEF Verdicts
    <3>3. Contract!Refuse(r)
      BY <2>8, <3>1, <3>2, RefusalJustified DEF Contract!Refuse
    <3> QED
      BY <3>3 DEF Contract!Next
  <2>9. ASSUME NEW r \in Request, ComputeTtl(r), ~(Ttl(read[r]) <= 0)
        PROVE  UNCHANGED Contract!contract
    <3>1. /\ pc[r] \notin Rest /\ pc'[r] \notin Rest
          /\ \A q \in Request : q # r => pc'[q] = pc[q]
          /\ UNCHANGED <<now, issued, young, gone, token>>
      BY <2>9 DEF ComputeTtl, Goto, stores, SessionTypeOK, Rest, Verdicts
    <3> QED
      BY <3>1, InvisibleStep
  <2>10. ASSUME NEW r \in Request, Resolve(r) PROVE Contract!Next
    <3>1. /\ pc[r] = "resolve" /\ pc[r] \notin Rest /\ Answer(r, "accepted")
          /\ UNCHANGED <<now, issued, young, gone, token>>
      BY <2>10 DEF Resolve, stores, Rest, Verdicts
    <3>2. Seen[r] = "pending" /\ Contract!Verdict(r, "accepted")
      BY <3>1, AnswerSeen DEF Verdicts
    <3>3. Contract!Accept(r)
      BY <3>1, <3>2, AcceptanceExcusable DEF Contract!Accept
    <3> QED
      BY <3>3 DEF Contract!Next
  <2>11. ASSUME NEW r \in Request, GiveUp(r) PROVE Contract!Next
    <3>1. /\ pc[r] \notin Rest /\ Answer(r, "failed")
          /\ UNCHANGED <<now, issued, young, gone, token>>
      BY <2>11 DEF GiveUp, stores
    <3>2. Seen[r] = "pending" /\ Contract!Verdict(r, "failed")
      BY <3>1, AnswerSeen DEF Verdicts
    <3>3. Contract!GiveUp(r)
      BY <3>1, <3>2 DEF Contract!GiveUp
    <3> QED
      BY <3>3 DEF Contract!Next
  <2> QED
    BY <2>1, <2>2, <2>3, <2>4, <2>5, <2>6, <2>7, <2>8, <2>9, <2>10, <2>11 DEF Next, Authenticate
<1> QED
  BY <1>1, <1>2, SessionTypeCorrect, SessionInvHolds, PTL DEF Spec, ImplementsContract, Contract!Spec
=============================================================================
