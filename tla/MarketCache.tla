---------------------------- MODULE MarketCache ----------------------------
(***************************************************************************)
(* The market list cache of package restinfo: GetMarket looks at a cached  *)
(* snapshot under a read lock, fetches a new one under the write lock when *)
(* the snapshot is missing or older than the TTL, and is shared by any     *)
(* number of goroutines, some of which call InvalidateMarketCache or fetch *)
(* past the cache (GetMarkets, or GetMarket with a negative TTL).          *)
(*                                                                         *)
(* The list is its version: the server replaces version v by v + 1 whenever *)
(* it likes, and an answer carries the version the server had when it was  *)
(* made.  Looking at the cache under the read lock is one step, enabled    *)
(* while nobody holds the write lock; a fetch keeps the write lock through *)
(* the whole exchange with the server.  Time is counted in ticks.          *)
(***************************************************************************)
EXTENDS Naturals

CONSTANTS
  Caller,      \* the goroutines that use the client
  Nobody,      \* "no goroutine"
  TTL,         \* Client.marketCacheTTL
  Timeout,     \* the timeout of the HTTP client
  MaxTime,     \* bound on the clock
  MaxVersion   \* bound on the versions of the list

ASSUME MarketCacheAssumption ==
  /\ Nobody \notin Caller
  /\ TTL \in Nat \ {0} /\ Timeout \in Nat \ {0}
  /\ MaxTime \in Nat /\ MaxVersion \in Nat

VARIABLES
  now,         \* the clock
  server,      \* the version the server has
  replaced,    \* when a version was replaced; 0 while it was not
  markets, populated, fetchedAt,   \* marketCache
  writer,      \* who holds the write lock
  pc,          \* where each goroutine is
  began,       \* when its request was sent
  got,         \* the version it was answered, or returns
  floor,       \* history: the oldest version its call may return
  latest,      \* history: the newest version known to callers of the cache
  lag          \* history: for how long its result was out of date on return

cache == <<markets, populated, fetchedAt>>
world == <<now, server, replaced>>
hist  == <<floor, latest, lag>>
vars  == <<world, cache, writer, pc, began, got, hist>>

Version == 0 .. MaxVersion
Time == 0 .. MaxTime
Exchange == {"fetching", "answered"}
Label == {"idle", "peek", "lock", "invalidate", "done", "failed"} \cup Exchange

TypeOK ==
  /\ now \in Time /\ server \in Version /\ replaced \in [Version -> Time]
  /\ markets \in Version /\ populated \in BOOLEAN /\ fetchedAt \in Time
  /\ writer \in Caller \cup {Nobody}
  /\ pc \in [Caller -> Label]
  /\ began \in [Caller -> Time] /\ got \in [Caller -> Version]
  /\ floor \in [Caller -> Version] /\ latest \in Version
  /\ lag \in [Caller -> Time]

Init ==
  /\ now = 0 /\ server = 0 /\ replaced = [v \in Version |-> 0]
  /\ markets = 0 /\ populated = FALSE /\ fetchedAt = 0
  /\ writer = Nobody
  /\ pc = [p \in Caller |-> "idle"]
  /\ began = [p \in Caller |-> 0] /\ got = [p \in Caller |-> 0]
  /\ floor = [p \in Caller |-> 0] /\ latest = 0
  /\ lag = [p \in Caller |-> 0]

\* Faulty variant: a snapshot is still served when it is exactly TTL old.
FreshInclusive == populated /\ now - fetchedAt <= TTL

Fresh == populated /\ now - fetchedAt < TTL

Goto(p, l) == pc' = [pc EXCEPT ![p] = l]

\* A call returns version v.
Return(p, v) ==
  /\ got' = [got EXCEPT ![p] = v]
  /\ lag' = [lag EXCEPT ![p] = IF v = server THEN 0 ELSE now - replaced[v]]
  /\ Goto(p, "done")

-----------------------------------------------------------------------------
(* The calls.                                                              *)

GetMarket(p) ==
  /\ pc[p] = "idle"
  /\ floor' = [floor EXCEPT ![p] = latest]
  /\ Goto(p, "peek")
  /\ UNCHANGED <<world, cache, writer, began, got, latest, lag>>

\* GetMarkets, and GetMarket when caching is disabled, ask the server at once.
GetMarkets(p) ==
  /\ pc[p] = "idle"
  /\ floor' = [floor EXCEPT ![p] = latest]
  /\ began' = [began EXCEPT ![p] = now]
  /\ Goto(p, "fetching")
  /\ UNCHANGED <<world, cache, writer, got, latest, lag>>

InvalidateMarketCache(p) ==
  /\ pc[p] = "idle"
  /\ Goto(p, "invalidate")
  /\ UNCHANGED <<world, cache, writer, began, got, hist>>

\* The caller has its answer; what the call kept is forgotten.
Collect(p) ==
  /\ pc[p] \in {"done", "failed"}
  /\ Goto(p, "idle")
  /\ got' = [got EXCEPT ![p] = 0]
  /\ floor' = [floor EXCEPT ![p] = 0]
  /\ lag' = [lag EXCEPT ![p] = 0]
  /\ UNCHANGED <<world, cache, writer, began, latest>>

-----------------------------------------------------------------------------
(* marketsCached.                                                          *)

Hit(p) ==
  /\ Fresh
  /\ Return(p, markets)
  /\ latest' = markets
  /\ UNCHANGED <<world, cache, writer, began, floor>>

\* The first look, under the read lock.
Peek(p) ==
  /\ pc[p] = "peek"
  /\ writer = Nobody
  /\ \/ Hit(p)
     \/ /\ ~Fresh
        /\ Goto(p, "lock")
        /\ UNCHANGED <<world, cache, writer, began, got, hist>>

\* Faulty variant: the write lock is taken and the cache not looked at again.
LockAndFetch(p) ==
  /\ pc[p] = "lock"
  /\ writer = Nobody
  /\ writer' = p
  /\ began' = [began EXCEPT ![p] = now]
  /\ Goto(p, "fetching")
  /\ UNCHANGED <<world, cache, got, hist>>

\* The second look, under the write lock, which a fetch then keeps.
Lock(p) ==
  /\ pc[p] = "lock"
  /\ writer = Nobody
  /\ \/ Hit(p)
     \/ /\ ~Fresh
        /\ writer' = p
        /\ began' = [began EXCEPT ![p] = now]
        /\ Goto(p, "fetching")
        /\ UNCHANGED <<world, cache, got, hist>>

Unlock(p) == writer' = IF writer = p THEN Nobody ELSE writer

\* The snapshot is stamped when the answer is in, not when it was asked for.
Store(p) ==
  /\ markets' = got[p] /\ populated' = TRUE /\ fetchedAt' = now
  /\ latest' = got[p]

\* The answer arrives; a fetch under the write lock stores it.
FetchEnds(p) ==
  /\ pc[p] = "answered"
  /\ IF writer = p THEN Store(p) ELSE UNCHANGED <<cache, latest>>
  /\ Return(p, got[p])
  /\ began' = [began EXCEPT ![p] = 0]
  /\ Unlock(p)
  /\ UNCHANGED <<world, floor>>

\* Faulty variant: an error return that keeps the lock.
FetchFailsLocked(p) ==
  /\ pc[p] \in Exchange
  /\ Goto(p, "failed")
  /\ began' = [began EXCEPT ![p] = 0]
  /\ UNCHANGED <<world, cache, writer, got, hist>>

\* The request failed, the server refused it or the context was cancelled: the
\* cache stays as it is.
FetchFails(p) ==
  /\ pc[p] \in Exchange
  /\ Goto(p, "failed")
  /\ began' = [began EXCEPT ![p] = 0]
  /\ Unlock(p)
  /\ UNCHANGED <<world, cache, got, hist>>

\* Faulty variant: the flag is cleared without the lock.
InvalidateUnlocked(p) ==
  /\ pc[p] = "invalidate"
  /\ populated' = FALSE
  /\ latest' = server
  /\ Goto(p, "idle")
  /\ UNCHANGED <<world, markets, fetchedAt, writer, began, got, floor, lag>>

Invalidate(p) ==
  /\ pc[p] = "invalidate"
  /\ writer = Nobody
  /\ populated' = FALSE /\ markets' = 0
  /\ latest' = server
  /\ Goto(p, "idle")
  /\ UNCHANGED <<world, fetchedAt, writer, began, got, floor, lag>>

-----------------------------------------------------------------------------
(* The server and the clock (external).                                    *)

Answer(p) ==
  /\ pc[p] = "fetching"
  /\ got' = [got EXCEPT ![p] = server]
  /\ Goto(p, "answered")
  /\ UNCHANGED <<world, cache, writer, began, hist>>

ListChanges ==
  /\ server < MaxVersion
  /\ server' = server + 1
  /\ replaced' = [replaced EXCEPT ![server] = now]
  /\ UNCHANGED <<now, cache, writer, pc, began, got, hist>>

\* No request outlives the timeout of the HTTP client.
Tick ==
  /\ now < MaxTime
  /\ \A p \in Caller : pc[p] \in Exchange => now - began[p] < Timeout
  /\ now' = now + 1
  /\ UNCHANGED <<server, replaced, cache, writer, pc, began, got, hist>>

-----------------------------------------------------------------------------
FetchStep(p) == FetchEnds(p) \/ FetchFails(p)

Next ==
  \/ \E p \in Caller :
       \/ GetMarket(p) \/ GetMarkets(p) \/ InvalidateMarketCache(p) \/ Collect(p)
       \/ Peek(p) \/ Lock(p) \/ FetchStep(p) \/ Invalidate(p)
       \/ Answer(p)
  \/ ListChanges \/ Tick

Spec == Init /\ [][Next]_vars

\* A request ends, at the latest with the HTTP client's timeout.  sync.RWMutex
\* lets every goroutine that waits for it in at last, reader or writer.
Fairness ==
  \A p \in Caller :
    /\ WF_vars(FetchStep(p))
    /\ SF_vars(Peek(p)) /\ SF_vars(Lock(p)) /\ SF_vars(Invalidate(p))

FairSpec == Spec /\ Fairness

-----------------------------------------------------------------------------
\* A call returns a list no older than what any cached call that had returned
\* before it began was given, and no older than what the server had when the
\* cache was last invalidated: a fetch already in flight cannot bring back what
\* InvalidateMarketCache threw away.
NeverOlder == \A p \in Caller : pc[p] = "done" => got[p] >= floor[p]

\* Whoever fetches under the write lock does so for a snapshot that is missing
\* or expired, however many goroutines found it so at the same time.
NoRedundantFetch ==
  \A p \in Caller : writer = p /\ pc[p] \in Exchange => ~Fresh

\* The write lock is held through one exchange with the server and no longer, which
\* the timeout of the HTTP client ends: no path, failed or not, leaves it behind.
LockedForOneExchange ==
  \A p \in Caller : writer = p => pc[p] \in Exchange /\ now - began[p] <= Timeout

\* A list that is returned was replaced on the server less than TTL plus one
\* request timeout ago: the snapshot is stamped when the answer arrives, so the
\* time the request took adds to the TTL.
BoundedLag == \A p \in Caller : pc[p] = "done" => lag[p] < TTL + Timeout

\* Every call of the cache returns: no path leaves the lock behind.
CallsReturn == \A p \in Caller :
  pc[p] \in {"peek", "lock", "invalidate"} \cup Exchange
    ~> pc[p] \in {"idle", "done", "failed"}
=============================================================================
