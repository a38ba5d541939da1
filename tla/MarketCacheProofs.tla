------------------------- MODULE MarketCacheProofs -------------------------
(***************************************************************************)
(* Proofs about the market cache for any number of goroutines, any TTL and *)
(* timeout and any bounds: types, that a fetch under the lock is for a     *)
(* snapshot that needs it, and that no call returns an older list than one *)
(* known before it began.                                                  *)
(***************************************************************************)
EXTENDS MarketCache, TLAPS

TypeInv ==
  /\ MarketCacheAssumption
  /\ TypeOK

\* The steps, with their goroutine named.
LEMMA NextByKind ==
  ASSUME [Next]_vars
  PROVE  \/ \E p \in Caller : \/ GetMarket(p) \/ GetMarkets(p) \/ InvalidateMarketCache(p)
                              \/ Collect(p) \/ Peek(p) \/ Lock(p) \/ FetchEnds(p)
                              \/ FetchFails(p) \/ Invalidate(p) \/ Answer(p)
         \/ ListChanges \/ Tick
         \/ UNCHANGED vars
  BY DEF Next, FetchStep

\* What a goroutine does under the lock, one way at a time.
HitStep(p) == pc[p] \in {"peek", "lock"} /\ writer = Nobody /\ Hit(p)

MissStep(p) ==
  /\ pc[p] = "peek"
  /\ ~Fresh
  /\ Goto(p, "lock")
  /\ UNCHANGED <<world, cache, writer, began, got, hist>>

FetchStarts(p) ==
  /\ pc[p] = "lock"
  /\ writer = Nobody
  /\ ~Fresh
  /\ writer' = p
  /\ began' = [began EXCEPT ![p] = now]
  /\ Goto(p, "fetching")
  /\ UNCHANGED <<world, cache, got, hist>>

LEMMA LookByKind ==
  ASSUME NEW p \in Caller, Peek(p) \/ Lock(p)
  PROVE  HitStep(p) \/ MissStep(p) \/ FetchStarts(p)
  BY DEF Peek, Lock, HitStep, MissStep, FetchStarts

-----------------------------------------------------------------------------
(* Types and the clock.                                                    *)

\* A list was replaced in the past, an exchange is younger than the timeout,
\* and an answer or a snapshot was the current list since the exchange began.
ClockInv ==
  /\ \A v \in Version : v < server => replaced[v] <= now
  /\ fetchedAt <= now
  /\ \A p \in Caller : pc[p] \in Exchange =>
       /\ began[p] <= now /\ now <= began[p] + Timeout
       /\ pc[p] = "answered" =>
            got[p] <= server /\ (got[p] < server => began[p] <= replaced[got[p]])
  /\ populated => markets <= server
  /\ populated /\ markets < server => fetchedAt <= replaced[markets] + Timeout

LEMMA TypeInit == MarketCacheAssumption /\ Init => TypeInv /\ ClockInv
<1> SUFFICES ASSUME MarketCacheAssumption, Init PROVE TypeInv /\ ClockInv
  OBVIOUS
<1>1. 0 \in Version /\ 0 \in Time
  BY DEF Version, Time, MarketCacheAssumption
<1>2. TypeInv
  BY <1>1 DEF Init, TypeInv, TypeOK, Label
<1>3. ClockInv
  BY DEF Init, ClockInv, Version, Exchange
<1>4. QED
  BY <1>2, <1>3

\* A call that returns version v, for any v it may have.
LEMMA ReturnTyped ==
  ASSUME TypeInv, ClockInv, NEW p \in Caller, NEW v \in Version, v <= server, Return(p, v)
  PROVE  /\ pc' = [pc EXCEPT ![p] = "done"] /\ pc' \in [Caller -> Label]
         /\ got' \in [Caller -> Version] /\ lag' \in [Caller -> Time]
<1>1. v # server => now - replaced[v] \in Time
  <2>1. /\ v \in Nat /\ server \in Nat /\ now \in Time /\ replaced[v] \in Time
        /\ v < server => replaced[v] <= now
    BY DEF TypeInv, TypeOK, ClockInv, Version
  <2>2. QED
    BY <2>1 DEF Time, TypeInv, MarketCacheAssumption
<1>2. 0 \in Time
  BY DEF Time, TypeInv, MarketCacheAssumption
<1>3. QED
  BY <1>1, <1>2 DEF Return, Goto, TypeInv, TypeOK, Label

LEMMA TypeStep == TypeInv /\ ClockInv /\ [Next]_vars => TypeInv'
<1> SUFFICES ASSUME TypeInv, ClockInv, [Next]_vars PROVE TypeInv'
  OBVIOUS
<1>0. 0 \in Version /\ 0 \in Time
  BY DEF TypeInv, MarketCacheAssumption, Version, Time
<1> USE DEF TypeInv, TypeOK
<1>1. ASSUME NEW p \in Caller, GetMarket(p) PROVE TypeInv'
  BY <1>1 DEF GetMarket, Goto, Label, world, cache
<1>2. ASSUME NEW p \in Caller, GetMarkets(p) PROVE TypeInv'
  BY <1>2 DEF GetMarkets, Goto, Label, Exchange, world, cache
<1>3. ASSUME NEW p \in Caller, InvalidateMarketCache(p) PROVE TypeInv'
  BY <1>3 DEF InvalidateMarketCache, Goto, Label, world, cache, hist
<1>4. ASSUME NEW p \in Caller, Collect(p) PROVE TypeInv'
  <2>1. /\ got' \in [Caller -> Version] /\ floor' \in [Caller -> Version]
        /\ lag' \in [Caller -> Time] /\ pc' \in [Caller -> Label]
    BY <1>0, <1>4 DEF Collect, Goto, Label
  <2>2. QED
    BY <1>4, <2>1 DEF Collect, world, cache
<1>5. ASSUME NEW p \in Caller, HitStep(p) PROVE TypeInv'
  <2>1. markets <= server
    BY <1>5 DEF HitStep, Hit, Fresh, ClockInv
  <2>2. /\ pc' \in [Caller -> Label] /\ got' \in [Caller -> Version] /\ lag' \in [Caller -> Time]
    BY <1>5, <2>1, ReturnTyped DEF HitStep, Hit
  <2>3. QED
    BY <1>5, <2>2 DEF HitStep, Hit, world, cache
<1>6. ASSUME NEW p \in Caller, MissStep(p) PROVE TypeInv'
  BY <1>6 DEF MissStep, Goto, Label, world, cache, hist
<1>7. ASSUME NEW p \in Caller, FetchStarts(p) PROVE TypeInv'
  <2>1. began' \in [Caller -> Time] /\ pc' \in [Caller -> Label]
    BY <1>7 DEF FetchStarts, Goto, Label, Exchange
  <2>2. QED
    BY <1>7, <2>1 DEF FetchStarts, world, cache, hist
<1>8. ASSUME NEW p \in Caller, FetchEnds(p) PROVE TypeInv'
  <2>1. got[p] \in Version /\ got[p] <= server
    BY <1>8 DEF FetchEnds, ClockInv, Exchange
  <2>2. /\ pc' \in [Caller -> Label] /\ got' \in [Caller -> Version] /\ lag' \in [Caller -> Time]
    BY <1>8, <2>1, ReturnTyped DEF FetchEnds
  <2>3. /\ markets' \in Version /\ populated' \in BOOLEAN /\ fetchedAt' \in Time /\ latest' \in Version
    BY <1>8, <2>1 DEF FetchEnds, Store, cache
  <2>4. began' \in [Caller -> Time] /\ writer' \in Caller \cup {Nobody}
    BY <1>0, <1>8 DEF FetchEnds, Unlock
  <2>5. QED
    BY <1>8, <2>2, <2>3, <2>4 DEF FetchEnds, world
<1>9. ASSUME NEW p \in Caller, FetchFails(p) PROVE TypeInv'
  <2>1. began' \in [Caller -> Time] /\ writer' \in Caller \cup {Nobody} /\ pc' \in [Caller -> Label]
    BY <1>0, <1>9 DEF FetchFails, Unlock, Goto, Label
  <2>2. QED
    BY <1>9, <2>1 DEF FetchFails, world, cache, hist
<1>10. ASSUME NEW p \in Caller, Invalidate(p) PROVE TypeInv'
  BY <1>0, <1>10 DEF Invalidate, Goto, Label, world
<1>11. ASSUME NEW p \in Caller, Answer(p) PROVE TypeInv'
  BY <1>11 DEF Answer, Goto, Label, Exchange, world, cache, hist
<1>12. CASE ListChanges
  <2>1. server' \in Version /\ replaced' \in [Version -> Time]
    BY <1>12 DEF ListChanges, Version, MarketCacheAssumption
  <2>2. QED
    BY <1>12, <2>1 DEF ListChanges, cache, hist
<1>13. CASE Tick
  <2>1. now' \in Time
    BY <1>13 DEF Tick, Time, MarketCacheAssumption
  <2>2. QED
    BY <1>13, <2>1 DEF Tick, cache, hist
<1>14. CASE UNCHANGED vars
  BY <1>14 DEF vars, world, cache, hist
<1>15. QED
  BY <1>1, <1>2, <1>3, <1>4, <1>5, <1>6, <1>7, <1>8, <1>9, <1>10, <1>11, <1>12, <1>13, <1>14,
     NextByKind, LookByKind

LEMMA ClockStep == TypeInv /\ ClockInv /\ [Next]_vars => ClockInv'
<1> SUFFICES ASSUME TypeInv, ClockInv, [Next]_vars PROVE ClockInv'
  OBVIOUS
<1>0. /\ pc \in [Caller -> Label] /\ began \in [Caller -> Time] /\ got \in [Caller -> Version]
      /\ now \in Nat /\ server \in Nat /\ fetchedAt \in Nat /\ Timeout \in Nat /\ markets \in Version
      /\ replaced \in [Version -> Time] /\ Version \subseteq Nat /\ Time \subseteq Nat
      /\ server \in Version
  BY DEF TypeInv, TypeOK, MarketCacheAssumption, Version, Time
<1> USE DEF ClockInv
\* A step that starts no exchange and answers none.
<1>1. ASSUME UNCHANGED <<world, cache>>,
             \A p \in Caller : pc'[p] \in Exchange =>
               pc'[p] = pc[p] /\ began'[p] = began[p] /\ got'[p] = got[p]
      PROVE  ClockInv'
  BY <1>0, <1>1 DEF world, cache
<1>2. ASSUME NEW p \in Caller, GetMarkets(p) \/ FetchStarts(p) PROVE ClockInv'
  <2>1. /\ UNCHANGED <<world, cache>>
        /\ pc'[p] = "fetching" /\ began'[p] = now
        /\ \A q \in Caller \ {p} : pc'[q] = pc[q] /\ began'[q] = began[q] /\ got'[q] = got[q]
    BY <1>0, <1>2 DEF GetMarkets, FetchStarts, Goto
  <2>2. QED
    BY <1>0, <2>1 DEF world, cache
<1>3. ASSUME NEW p \in Caller, Answer(p) PROVE ClockInv'
  <2>1. /\ UNCHANGED <<world, cache>> /\ pc[p] = "fetching"
        /\ pc'[p] = "answered" /\ began'[p] = began[p] /\ got'[p] = server
        /\ \A q \in Caller \ {p} : pc'[q] = pc[q] /\ began'[q] = began[q] /\ got'[q] = got[q]
    BY <1>0, <1>3 DEF Answer, Goto
  <2>2. began[p] <= now /\ now <= began[p] + Timeout
    BY <2>1 DEF Exchange
  <2>3. QED
    BY <1>0, <2>1, <2>2 DEF world, cache
<1>4. ASSUME NEW p \in Caller, FetchEnds(p) PROVE ClockInv'
  <2>1. /\ UNCHANGED world
        /\ pc'[p] \notin Exchange
        /\ \A q \in Caller \ {p} : pc'[q] = pc[q] /\ began'[q] = began[q] /\ got'[q] = got[q]
    BY <1>0, <1>4 DEF FetchEnds, Return, Goto, Exchange
  <2>2. /\ began[p] <= now /\ now <= began[p] + Timeout /\ got[p] <= server
        /\ got[p] < server => began[p] <= replaced[got[p]]
    BY <1>4 DEF FetchEnds, Exchange
  <2>3. UNCHANGED cache \/ (markets' = got[p] /\ populated' = TRUE /\ fetchedAt' = now)
    BY <1>4 DEF FetchEnds, Store
  <2>4. /\ fetchedAt' <= now /\ (populated' => markets' <= server)
        /\ populated' /\ markets' < server => fetchedAt' <= replaced[markets'] + Timeout
    <3>1. CASE UNCHANGED cache
      BY <3>1 DEF cache
    <3>2. CASE markets' = got[p] /\ populated' = TRUE /\ fetchedAt' = now
      <4>1. got[p] \in Version /\ replaced[got[p]] \in Nat /\ began[p] \in Nat
        BY <1>0
      <4>2. got[p] < server => now <= replaced[got[p]] + Timeout
        BY <1>0, <2>2, <4>1
      <4>3. QED
        BY <1>0, <2>2, <3>2, <4>1, <4>2
    <3>3. QED
      BY <2>3, <3>1, <3>2
  <2>5. QED
    BY <1>0, <2>1, <2>4 DEF world
<1>5. ASSUME NEW p \in Caller, Invalidate(p) PROVE ClockInv'
  <2>1. /\ UNCHANGED <<world, fetchedAt, began, got>> /\ populated' = FALSE
        /\ pc' = [pc EXCEPT ![p] = "idle"]
    BY <1>5 DEF Invalidate, Goto
  <2>2. \A q \in Caller : pc'[q] \in Exchange => pc'[q] = pc[q]
    BY <1>0, <2>1 DEF Exchange
  <2>3. QED
    BY <1>0, <2>1, <2>2 DEF world
<1>6. ASSUME NEW p \in Caller,
             \/ GetMarket(p) \/ InvalidateMarketCache(p) \/ Collect(p)
             \/ HitStep(p) \/ MissStep(p) \/ FetchFails(p)
      PROVE  ClockInv'
  <2>1. /\ UNCHANGED <<world, cache>>
        /\ pc'[p] \notin Exchange
        /\ \A q \in Caller \ {p} : pc'[q] = pc[q] /\ began'[q] = began[q] /\ got'[q] = got[q]
    BY <1>0, <1>6 DEF GetMarket, InvalidateMarketCache, Collect, HitStep, Hit, Return, MissStep,
                      FetchFails, Goto, Exchange
  <2>2. QED
    BY <1>1, <2>1
<1>7. CASE ListChanges
  <2>1. /\ server' = server + 1 /\ UNCHANGED <<now, cache, pc, began, got>>
        /\ \A v \in Version : replaced'[v] = IF v = server THEN now ELSE replaced[v]
    BY <1>0, <1>7 DEF ListChanges
  <2>2. \A v \in Version : v < server' => replaced'[v] <= now
    BY <1>0, <2>1
  <2>3. ASSUME NEW p \in Caller, pc[p] = "answered"
        PROVE  got[p] <= server' /\ (got[p] < server' => began[p] <= replaced'[got[p]])
    <3>1. /\ got[p] \in Version /\ replaced[got[p]] \in Nat /\ began[p] \in Nat /\ got[p] \in Nat
          /\ began[p] <= now /\ got[p] <= server
          /\ got[p] < server => began[p] <= replaced[got[p]]
      BY <1>0, <2>3 DEF Exchange
    <3>2. CASE got[p] = server
      BY <1>0, <2>1, <3>1, <3>2
    <3>3. CASE got[p] < server
      BY <1>0, <2>1, <3>1, <3>3
    <3>4. QED
      BY <1>0, <3>1, <3>2, <3>3
  <2>4. populated /\ markets < server' => fetchedAt <= replaced'[markets] + Timeout
    BY <1>0, <2>1
  <2>5. QED
    BY <1>0, <2>1, <2>2, <2>3, <2>4 DEF cache
<1>8. CASE Tick
  <2>1. /\ now' = now + 1 /\ UNCHANGED <<server, replaced, cache, pc, began, got>>
        /\ \A p \in Caller : pc[p] \in Exchange => now - began[p] < Timeout
    BY <1>8 DEF Tick
  <2>2. ASSUME NEW v \in Version, v < server
        PROVE  replaced[v] <= now'
    <3>1. replaced[v] \in Nat /\ replaced[v] <= now
      BY <1>0, <2>2
    <3>2. QED
      BY <1>0, <2>1, <3>1
  <2>3. ASSUME NEW p \in Caller, pc[p] \in Exchange
        PROVE  began[p] <= now' /\ now' <= began[p] + Timeout
    <3>1. began[p] \in Nat /\ began[p] <= now /\ now - began[p] < Timeout
      BY <1>0, <2>1, <2>3
    <3>2. QED
      BY <1>0, <2>1, <3>1
  <2>4. fetchedAt <= now'
    BY <1>0, <2>1
  <2>5. QED
    BY <2>1, <2>2, <2>3, <2>4 DEF cache
<1>9. CASE UNCHANGED vars
  BY <1>1, <1>9 DEF vars, world, cache
<1>10. QED
  BY <1>2, <1>3, <1>4, <1>5, <1>6, <1>7, <1>8, <1>9, NextByKind, LookByKind

-----------------------------------------------------------------------------
(* The lock and what it protects.                                          *)

\* The lock is held through an exchange only, for a snapshot that needs it; no
\* snapshot and no answer under way is older than what is already known.
CacheInv ==
  /\ \A p \in Caller : writer = p => pc[p] \in Exchange /\ ~Fresh
  /\ latest <= server
  /\ populated => latest <= markets
  /\ \A p \in Caller :
       /\ floor[p] <= latest
       /\ pc[p] \in {"answered", "done"} => floor[p] <= got[p]
       /\ writer = p /\ pc[p] = "answered" => latest <= got[p]

LEMMA CacheInit == MarketCacheAssumption /\ Init => CacheInv
  BY DEF MarketCacheAssumption, Init, CacheInv

LEMMA CacheStep == TypeInv /\ ClockInv /\ CacheInv /\ [Next]_vars => CacheInv'
<1> SUFFICES ASSUME TypeInv, ClockInv, CacheInv, [Next]_vars PROVE CacheInv'
  OBVIOUS
<1>0. /\ pc \in [Caller -> Label] /\ got \in [Caller -> Version] /\ floor \in [Caller -> Version]
      /\ Version \subseteq Nat /\ server \in Nat /\ latest \in Nat /\ markets \in Nat
      /\ now \in Nat /\ fetchedAt \in Nat /\ fetchedAt <= now /\ TTL \in Nat
      /\ began \in [Caller -> Time] /\ writer \in Caller \cup {Nobody} /\ Nobody \notin Caller
  BY DEF TypeInv, TypeOK, ClockInv, MarketCacheAssumption, Version, Time
<1>known. ASSUME NEW q \in Caller, NEW v \in Nat, latest <= v
          PROVE  floor[q] \in Nat /\ floor[q] <= v
  <2>1. floor[q] \in Nat
    BY <1>0
  <2>2. floor[q] <= latest
    BY DEF CacheInv
  <2>3. QED
    BY <1>0, <1>known, <2>1, <2>2
<1> USE DEF CacheInv
\* A step that leaves the server, the cache and the lock alone and answers nobody.
<1>1. ASSUME UNCHANGED <<world, cache, writer, latest>>,
             \A p \in Caller : writer = p => pc'[p] \in Exchange,
             \A p \in Caller : floor'[p] <= latest,
             \A p \in Caller : pc'[p] \in {"answered", "done"} =>
               pc'[p] = pc[p] /\ got'[p] = got[p] /\ floor'[p] = floor[p]
      PROVE  CacheInv'
  <2>1. Fresh' = Fresh
    BY <1>1 DEF Fresh, world, cache
  <2>2. QED
    BY <1>1, <2>1 DEF world, cache
<1>2. ASSUME NEW p \in Caller, GetMarket(p) \/ GetMarkets(p) PROVE CacheInv'
  <2>1. /\ UNCHANGED <<world, cache, writer, latest, got>> /\ pc[p] = "idle"
        /\ pc'[p] \notin {"answered", "done"}
        /\ floor'[p] = latest
        /\ \A q \in Caller \ {p} : pc'[q] = pc[q] /\ floor'[q] = floor[q]
    BY <1>0, <1>2 DEF GetMarket, GetMarkets, Goto
  <2>2. writer # p
    BY <2>1 DEF Exchange
  <2>3. QED
    BY <1>0, <1>1, <2>1, <2>2
<1>3. ASSUME NEW p \in Caller, InvalidateMarketCache(p) \/ MissStep(p) PROVE CacheInv'
  <2>1. /\ UNCHANGED <<world, cache, writer, latest, got, floor>> /\ pc[p] \in {"idle", "peek"}
        /\ pc'[p] \notin {"answered", "done"}
        /\ \A q \in Caller \ {p} : pc'[q] = pc[q]
    BY <1>0, <1>3 DEF InvalidateMarketCache, MissStep, Goto, hist
  <2>2. writer # p
    BY <2>1 DEF Exchange
  <2>3. QED
    BY <1>0, <1>1, <2>1, <2>2
<1>4. ASSUME NEW p \in Caller, Collect(p) PROVE CacheInv'
  <2>1. /\ UNCHANGED <<world, cache, writer, latest>> /\ pc[p] \in {"done", "failed"}
        /\ pc'[p] = "idle" /\ floor'[p] = 0
        /\ \A q \in Caller \ {p} : pc'[q] = pc[q] /\ floor'[q] = floor[q] /\ got'[q] = got[q]
    BY <1>0, <1>4 DEF Collect, Goto
  <2>2. writer # p
    BY <2>1 DEF Exchange
  <2>3. QED
    BY <1>0, <1>1, <2>1, <2>2
<1>5. ASSUME NEW p \in Caller, HitStep(p) PROVE CacheInv'
  <2>1. /\ UNCHANGED <<world, cache, writer, floor>> /\ writer = Nobody
        /\ pc'[p] = "done" /\ got'[p] = markets /\ latest' = markets /\ populated
        /\ \A q \in Caller \ {p} : pc'[q] = pc[q] /\ got'[q] = got[q]
    BY <1>0, <1>5 DEF HitStep, Hit, Return, Goto, Fresh
  <2>2. latest <= markets /\ markets <= server
    BY <2>1 DEF ClockInv
  <2>3. \A q \in Caller : floor[q] \in Nat /\ floor[q] <= markets
    BY <1>0, <1>known, <2>2
  <2>4. QED
    BY <1>0, <2>1, <2>2, <2>3 DEF world, cache
<1>6. ASSUME NEW p \in Caller, FetchStarts(p) PROVE CacheInv'
  <2>1. /\ UNCHANGED <<world, cache, floor, got, latest>> /\ writer' = p /\ ~Fresh
        /\ pc'[p] = "fetching"
        /\ \A q \in Caller \ {p} : pc'[q] = pc[q]
    BY <1>0, <1>6 DEF FetchStarts, Goto, hist
  <2>2. ~Fresh'
    BY <2>1 DEF Fresh, world, cache
  <2>3. QED
    BY <1>0, <2>1, <2>2 DEF Exchange, world, cache
<1>7. ASSUME NEW p \in Caller, FetchEnds(p) PROVE CacheInv'
  <2>1. /\ UNCHANGED <<world, floor>> /\ pc[p] = "answered"
        /\ pc'[p] = "done" /\ got'[p] = got[p]
        /\ \A q \in Caller \ {p} : pc'[q] = pc[q] /\ got'[q] = got[q]
    BY <1>0, <1>7 DEF FetchEnds, Return, Goto
  <2>2. floor[p] <= got[p] /\ got[p] <= server /\ got[p] \in Nat /\ \A q \in Caller : floor[q] \in Nat
    BY <1>0, <2>1 DEF ClockInv, Exchange
  <2>3. CASE writer = p
    <3>1. writer' = Nobody /\ markets' = got[p] /\ latest' = got[p] /\ latest <= got[p]
      BY <1>7, <2>1, <2>3 DEF FetchEnds, Store, Unlock
    <3>2. \A q \in Caller : floor[q] <= got[p]
      BY <1>0, <2>2, <3>1
    <3>3. QED
      BY <1>0, <2>1, <2>2, <3>1, <3>2 DEF world
  <2>4. CASE writer # p
    <3>1. UNCHANGED <<cache, latest, writer>>
      BY <1>7, <2>4 DEF FetchEnds, Unlock
    <3>2. Fresh' = Fresh
      BY <2>1, <3>1 DEF Fresh, world, cache
    <3>3. QED
      BY <1>0, <2>1, <2>2, <2>4, <3>1, <3>2 DEF world, cache
  <2>5. QED
    BY <2>3, <2>4
<1>8. ASSUME NEW p \in Caller, FetchFails(p) PROVE CacheInv'
  <2>1. /\ UNCHANGED <<world, cache, latest, got, floor>>
        /\ pc'[p] = "failed" /\ writer' # p /\ writer' \in {writer, Nobody}
        /\ \A q \in Caller \ {p} : pc'[q] = pc[q]
    BY <1>0, <1>8 DEF FetchFails, Unlock, Goto, hist
  <2>2. Fresh' = Fresh
    BY <2>1 DEF Fresh, world, cache
  <2>3. QED
    BY <1>0, <2>1, <2>2 DEF world, cache
<1>9. ASSUME NEW p \in Caller, Invalidate(p) PROVE CacheInv'
  <2>1. /\ UNCHANGED <<world, writer, got, floor>> /\ writer = Nobody
        /\ populated' = FALSE /\ latest' = server
        /\ pc'[p] = "idle"
        /\ \A q \in Caller \ {p} : pc'[q] = pc[q]
    BY <1>0, <1>9 DEF Invalidate, Goto
  <2>2. \A q \in Caller : floor[q] \in Nat /\ floor[q] <= server
    BY <1>0, <1>known
  <2>3. QED
    BY <1>0, <2>1, <2>2 DEF world
<1>10. ASSUME NEW p \in Caller, Answer(p) PROVE CacheInv'
  <2>1. /\ UNCHANGED <<world, cache, writer, latest, floor>>
        /\ pc[p] = "fetching" /\ pc'[p] = "answered" /\ got'[p] = server
        /\ \A q \in Caller \ {p} : pc'[q] = pc[q] /\ got'[q] = got[q]
    BY <1>0, <1>10 DEF Answer, Goto, hist
  <2>2. Fresh' = Fresh
    BY <2>1 DEF Fresh, world, cache
  <2>3. floor[p] \in Nat /\ floor[p] <= server /\ latest <= server
    BY <1>0, <1>known
  <2>4. QED
    BY <1>0, <2>1, <2>2, <2>3 DEF Exchange, world, cache
<1>11. CASE ListChanges
  <2>1. server' = server + 1 /\ UNCHANGED <<now, cache, writer, pc, got, hist>>
    BY <1>11 DEF ListChanges
  <2>2. Fresh' = Fresh
    BY <2>1 DEF Fresh, cache
  <2>3. latest <= server'
    BY <1>0, <2>1
  <2>4. QED
    BY <2>1, <2>2, <2>3 DEF cache, hist
<1>12. CASE Tick
  <2>1. now' = now + 1 /\ UNCHANGED <<server, cache, writer, pc, got, hist>>
    BY <1>12 DEF Tick
  <2>2. ~Fresh => ~Fresh'
    BY <1>0, <2>1 DEF Fresh, cache
  <2>3. QED
    BY <2>1, <2>2 DEF cache, hist
<1>13. CASE UNCHANGED vars
  <2>1. Fresh' = Fresh
    BY <1>13 DEF Fresh, vars, world, cache
  <2>2. QED
    BY <1>13, <2>1 DEF vars, world, cache, hist
<1>14. QED
  BY <1>2, <1>3, <1>4, <1>5, <1>6, <1>7, <1>8, <1>9, <1>10, <1>11, <1>12, <1>13,
     NextByKind, LookByKind

-----------------------------------------------------------------------------
(* How long ago a returned list was replaced.                              *)

LEMMA LagInit == MarketCacheAssumption /\ Init => BoundedLag
  BY DEF MarketCacheAssumption, Init, BoundedLag

\* A call that returns a list replaced less than the bound ago, or not replaced.
LEMMA ReturnLag ==
  ASSUME TypeInv, BoundedLag, NEW p \in Caller, NEW v \in Version, Return(p, v),
         v # server => now - replaced[v] < TTL + Timeout
  PROVE  BoundedLag'
<1>1. /\ pc \in [Caller -> Label] /\ lag \in [Caller -> Time] /\ 0 < TTL + Timeout
  BY DEF TypeInv, TypeOK, MarketCacheAssumption
<1>2. /\ \A q \in Caller \ {p} : pc'[q] = pc[q] /\ lag'[q] = lag[q]
      /\ v = server => lag'[p] = 0
      /\ v # server => lag'[p] = now - replaced[v]
  BY <1>1 DEF Return, Goto
<1>3. lag'[p] < TTL + Timeout
  BY <1>1, <1>2
<1>4. QED
  BY <1>2, <1>3 DEF BoundedLag

LEMMA LagStep == TypeInv /\ ClockInv /\ BoundedLag /\ [Next]_vars => BoundedLag'
<1> SUFFICES ASSUME TypeInv, ClockInv, BoundedLag, [Next]_vars PROVE BoundedLag'
  OBVIOUS
<1>0. /\ pc \in [Caller -> Label] /\ lag \in [Caller -> Time] /\ got \in [Caller -> Version]
      /\ began \in [Caller -> Time] /\ replaced \in [Version -> Time]
      /\ Version \subseteq Nat /\ Time \subseteq Nat
      /\ markets \in Version /\ server \in Nat /\ now \in Nat /\ fetchedAt \in Nat
      /\ TTL \in Nat \ {0} /\ Timeout \in Nat \ {0}
  BY DEF TypeInv, TypeOK, MarketCacheAssumption, Version, Time
<1>1. ASSUME NEW p \in Caller, HitStep(p) PROVE BoundedLag'
  <2>1. populated /\ now - fetchedAt < TTL /\ Return(p, markets) /\ markets <= server
    BY <1>1 DEF HitStep, Hit, Fresh, ClockInv
  <2>2. markets # server => fetchedAt <= replaced[markets] + Timeout
    BY <1>0, <2>1 DEF ClockInv
  <2>3. replaced[markets] \in Nat
    BY <1>0
  <2>4. markets # server => now - replaced[markets] < TTL + Timeout
    BY <1>0, <2>1, <2>2, <2>3
  <2>5. QED
    BY <1>0, <2>1, <2>4, ReturnLag
<1>2. ASSUME NEW p \in Caller, FetchEnds(p) PROVE BoundedLag'
  <2>1. /\ Return(p, got[p]) /\ now <= began[p] + Timeout /\ got[p] <= server
        /\ got[p] < server => began[p] <= replaced[got[p]]
    BY <1>2 DEF FetchEnds, ClockInv, Exchange
  <2>2. got[p] \in Version /\ got[p] \in Nat /\ began[p] \in Nat /\ replaced[got[p]] \in Nat
    BY <1>0
  <2>3. got[p] # server => now - replaced[got[p]] < TTL + Timeout
    BY <1>0, <2>1, <2>2
  <2>4. QED
    BY <2>1, <2>2, <2>3, ReturnLag
\* Every other step returns no list.
<1>3. ASSUME \A q \in Caller : pc'[q] = "done" => pc[q] = "done" /\ lag'[q] = lag[q]
      PROVE  BoundedLag'
  BY <1>3 DEF BoundedLag
<1>4. ASSUME NEW p \in Caller,
             \/ GetMarket(p) \/ GetMarkets(p) \/ InvalidateMarketCache(p) \/ MissStep(p)
             \/ FetchStarts(p) \/ FetchFails(p) \/ Invalidate(p) \/ Answer(p)
      PROVE  BoundedLag'
  <2>1. lag' = lag /\ pc'[p] # "done" /\ \A q \in Caller \ {p} : pc'[q] = pc[q]
    BY <1>0, <1>4 DEF GetMarket, GetMarkets, InvalidateMarketCache, MissStep, FetchStarts,
                      FetchFails, Invalidate, Answer, Goto, hist
  <2>2. QED
    BY <1>3, <2>1
<1>5. ASSUME NEW p \in Caller, Collect(p) PROVE BoundedLag'
  <2>1. pc'[p] = "idle" /\ \A q \in Caller \ {p} : pc'[q] = pc[q] /\ lag'[q] = lag[q]
    BY <1>0, <1>5 DEF Collect, Goto
  <2>2. QED
    BY <1>3, <2>1
<1>6. CASE ListChanges \/ Tick \/ UNCHANGED vars
  <2>1. UNCHANGED <<pc, lag>>
    BY <1>6 DEF ListChanges, Tick, vars, hist
  <2>2. QED
    BY <1>3, <2>1
<1>7. QED
  BY <1>1, <1>2, <1>4, <1>5, <1>6, NextByKind, LookByKind

-----------------------------------------------------------------------------
(* The theorems.                                                           *)

THEOREM InvariantHolds == Spec => [](TypeInv /\ ClockInv /\ CacheInv /\ BoundedLag)
<1>1. Init => TypeInv /\ ClockInv /\ CacheInv /\ BoundedLag
  BY MarketCacheAssumption, TypeInit, CacheInit, LagInit
<1>2. TypeInv /\ ClockInv /\ CacheInv /\ BoundedLag /\ [Next]_vars
        => TypeInv' /\ ClockInv' /\ CacheInv' /\ BoundedLag'
  BY TypeStep, ClockStep, CacheStep, LagStep
<1>3. QED
  BY <1>1, <1>2, PTL DEF Spec

\* The cache, the lock and the calls keep their types, whatever the numbers of
\* goroutines, ticks and versions.
THEOREM TypeCorrect == Spec => []TypeOK
<1>1. TypeInv => TypeOK
  BY DEF TypeInv
<1>2. QED
  BY <1>1, InvariantHolds, PTL

\* Whoever fetches under the write lock found the snapshot missing or expired,
\* and nothing refreshes it until that fetch ends.
THEOREM FetchesNeeded == Spec => []NoRedundantFetch
<1>1. CacheInv => NoRedundantFetch
  BY DEF CacheInv, NoRedundantFetch
<1>2. QED
  BY <1>1, InvariantHolds, PTL

\* The write lock is never left behind, nor held longer than the timeout of the HTTP
\* client, whichever way the exchange under it ends.
THEOREM LockIsFreed == Spec => []LockedForOneExchange
<1>1. TypeInv /\ ClockInv /\ CacheInv => LockedForOneExchange
  BY DEF CacheInv, ClockInv, LockedForOneExchange, TypeInv, TypeOK, Time, MarketCacheAssumption
<1>2. QED
  BY <1>1, InvariantHolds, PTL

\* No call of any goroutine returns an older list than one a cached call had
\* returned before it began, or than the server's at the last invalidation.
THEOREM CallsNeverOlder == Spec => []NeverOlder
<1>1. TypeInv /\ CacheInv => NeverOlder
  BY DEF CacheInv, NeverOlder, TypeInv, TypeOK, Version
<1>2. QED
  BY <1>1, InvariantHolds, PTL

\* A returned list was replaced on the server less than TTL + Timeout ago.
THEOREM LagBounded == Spec => []BoundedLag
  BY InvariantHolds, PTL
=============================================================================
