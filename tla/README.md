# A verification of the Synthetix Go SDK

TLA+ modules, TLC runs and TLAPS proofs about
`github.com/Fenway-snx/synthetix-go-sdk` (the repository's sources are cited as
`src/...`). `PROJECT.json` lists components, runs, mutants, the source lines each
definition stands for, findings, hazards and theorems.

    tlc -workers 2 -config wsinfo_safety.cfg MCWsInfo     # a run
    tlapm WsInfoProofs.tla                                # a proof

## 1. The system

| Component | State it keeps | Operations | Modelled by |
|---|---|---|---|
| `wsinfo` client (`client.go`, `runloop.go`, `subscription.go`): one shared public WebSocket | connection and its generation, subscriptions by canonical key with the generation each was last sent in, pending replies, closed flag | Subscribe, the returned unsubscribe function, run loop (dial, replay, reconnect), read loop, ping loop, Close | `WsInfo`, `WsInfoProofs` |
| `wsinfo` subscriber (`fanout.go`): one handler's mailbox | ring buffer, wake channel, done channel, drop counter | enqueue, deliver loop, close | `Subscriber` over the abstract `Mailbox`, `SubscriberProofs` |
| `wstrade` client: the authenticated WebSocket | connection, authenticated flag, handlers, pending replies, condition variable | Post, SubscribeSubAccountUpdates, channel form, run loop (dial, authenticate, reconnect), read loop with handlers, ping loop, Close | `WsTrade` over the abstract `Handlers`, `WsTradeProofs`; the channel form in `Stream` |
| public streams of the facade (`synthetix/ws.go`) and the channel form of `wstrade` | one buffered channel, a closed flag | the handler that offers and drops, the stop function | `Stream`, `StreamProofs` |
| `restinfo` market cache (`client.go`) | market list, populated flag, time of the fetch, read-write lock | GetMarket, GetMarkets, InvalidateMarketCache | `MarketCache`, `MarketCacheProofs` |
| `restinfo`, `resttrade` requests | none | one method per endpoint over one POST or GET, error classification | `SignedCalls` over `Answers` |
| `synthetix` facade (`client.go`, `account.go`) | default subaccount, signer, the trade socket and the subaccount it is for | NewSigner, SetDefaultSubAccountID, discovery, ensureWSTrade, ValidateAuth, signed helpers over either transport, Close | `Facade`, `FacadeProofs` |
| `synthetix` orders and precision | none (the caller's slice of options is shared) | order helpers, MarketClose, formatting to an increment | `Orders`, `OrdersProofs`; normalisation in `Signing` |
| `signer` | last nonce | NextNonce, expiry, one method per action | `SignedCalls` over the abstract `NonceSource`, `SignedCallsProofs`; `Signing` |
| `eip712`, envelopes of `types` | none | typed-data tables, messages, wire structs | `TypedData`, `Signing`, `SignedCallsProofs` |
| status summary, result types, `logger`, `examples` | none | health summary, lenient decoding, a no-op logger, sample programs | not modelled |

**Interaction.** The facade owns one `restinfo` client and one `wsinfo` client, and
creates a `wstrade` client when a subaccount and a signer are known. A `wsinfo`
client has one run loop, one read loop per connection and one deliver loop per
subscriber; callers reach it through `Client.mu`. Replies come back over a channel
of capacity one that the caller registered under its request id; notifications go
from the read loop into the ring of every matching subscriber and from there to its
handler. `wstrade` is built the same way, with two differences: callers wait for an
authenticated connection on a condition variable, and handlers run on the read loop
itself. A signed helper takes a nonce and an expiry from the signer, has an action hashed
and signed, and posts the envelope: as it is over REST, flattened into `params` over the
WebSocket. The market cache is shared memory under a `sync.RWMutex` held across an
HTTP request.

**What is hard.** Subscribe, unsubscribe, replay and reconnect race for the same
key; a request captures a connection under the lock and writes to it without the
lock, possibly after it has been replaced; a caller waits for a reply whose
connection dies; Close races a dial, a replay and the handlers; the ring, its wake
token and the deliver loop are updated in separate steps; a cached list is looked
at, dropped and stored by different goroutines while the server's list and the
clock move on; the facade replaces its trade socket under one lock, caches its
subaccount under another, and reads both, and closes, without; a channel is emptied by its
reader and by the handler that makes room in it; nonces come from a clock that can be set
back and the expiry is a sum of machine integers; what was signed is taken apart and put
together again on its way; a request that was carried out can end in an error and be
retried; helpers append to a slice that other goroutines append to. `PROJECT.json` lists these hazards at their lines.

**What makes each component correct.** One upstream subscription per key while
somebody holds it, and a replay of all of them after a reconnect; no caller left
waiting and no map growing with failed requests; the newest messages kept in order,
each delivered or accounted for; no caller's request sent before authentication; no call of the
market cache going back to an older list, and no list older than the TTL allows;
one trade socket at a time, for the subaccount that is posted for; nonces that grow and
deadlines that lie ahead; a posted request that says what was signed; a result that tells
what it can about the outcome; an order that is the one asked for; every call, and Close, returning.

## 2. Modules and how they correspond to the code

An action is one critical section of the component's mutex, one operation that can
block (a poll, a write, a receive from a channel), the start or the end of a user's
handler, or one step of the environment. So two goroutines interleave exactly where
the Go code lets them. The `map` of `PROJECT.json` names the lines of each
definition. Definitions commented `Faulty variant` are no part of the
specifications: each is what one definition would be with a plausible bug in it, and
substituting it breaks the property listed beside it under `mutants`.

* **`WsInfo`** (run through `MCWsInfo`, which adds the symmetry set). A handle of `Sub` is one call of
  `Client.Subscribe` with what it returns. `pc` says where a handle or the run loop
  is; both run the same `sendSubscribeIfNeeded`/`sendRequest` actions, as in the
  code. Payloads, parameters and ids are abstracted: a request is identified by who
  sent it in which claimed generation for which key. The server grants or refuses;
  the network may cut a link at any moment, dropping what was under way.
* **`Subscriber`** models one subscriber in detail (ring indices, wake token, done
  channel, two-step close); **`Mailbox`** is what it promises: a bounded box that gives
  up the oldest message, hands the others over in order and, once it was shut, starts at
  most one late delivery (`DeliverLate`). The last is what the code does and its
  documentation rules out (section 6). `Subscriber` implements `Mailbox` under the refinement
  mapping `Mail` (the box is the ring read from `head`, the message in hand is
  `deliverLoop`'s local, a message is accepted once the done channel has been looked
  at).
* **`WsTrade`** is the counterpart of `WsInfo` for the authenticated client. The
  sleep on the condition variable, its broadcasts, the authentication that the run
  loop makes itself, and the handlers that run inside the read loop are explicit.
  `Begin`..`TimedOut` are `sendRequest`, whoever calls it. All subscriptions are for
  the one subaccount the client authenticates. The ping loops are one Boolean, `pinging`:
  each writes to the connection installed when it ticks, nobody waits for one to end, and
  one that has ended is one that does not tick again, so from the first on any `Ping` may
  come at any time, on a connection not yet authenticated too.
* **`Handlers`** is what the authenticated client promises to those who give it handlers: a
  notification goes to those registered when it was read, one after the other; a handler
  whose removal was acknowledged is never called again; Close takes all of them out at once
  and returns when none runs or is about to. `WsTrade` implements it under the mapping
  `Promise`: what is registered is `subscribers`, what is due is `todo`, what runs is `cur`,
  a removal is acknowledged in `confirmed`, and how far Close is (`Progress`) is the state.
* **`MarketCache`** represents the list by its version. `Peek` and `Lock` are the two
  looks of `marketsCached`, under the read and the write lock; a fetch keeps the
  write lock until it ends. `floor`, `latest` and `lag` are history variables.

* **`Facade`** is `synthetix.Client` with its two locks, `subAccountMu` and `wsTradeMu`.
  Each goroutine makes one operation; all signed helpers are `Call`, since they differ only
  in what they sign. `resolveSubAccount` keeps `subAccountMu` while it asks the server
  (`Ask` to `Discovered` or `DiscoverFails`) and while `ensureWSTrade` runs (`subMu = p` in
  `ReturnNil` and `ReturnError`); `ensureWSTrade` keeps `wsTradeMu` from `EnsureLook` to
  `EnsureCreates` and waits for the old socket in between. Fields that the code reads or
  writes without their lock are accessed in actions of their own. A goroutine may be a
  handler on the read loop of a trade socket (`HandlerCalled`), and a socket that is being
  closed stops only when no handler runs on it, as `ClosedIsQuiet` of `WsTradeProofs` has
  it. Close of a socket (`CloseSocket`, `SocketClosed`) marks it when it is open and waits
  until it has stopped, whoever else closes it; the facade's own fields are set afterwards. A
  signer stands for who made it. A nil dereference sets `crashed` and ends the behaviour.

* **`Stream`** is the handler behind a stream channel, which `wstrade` and the facade each
  have word for word: offer, find the channel full, receive one, offer again. The user's
  loop and the stop function race it; a send on a closed channel panics inside the handler,
  whose caller recovers, and a second close ends the program. Go's channel is the sequence
  `ch`; `got` is what the user received.
* **`TypedData`** and **`Signing`** are pure: the schema and the message of every signed
  action, what hashing refuses, the envelope each Sign method builds, the calls of the
  facade with their normalisation, and `flattenSignedEnvelope`. A message is a function
  from field names to values and a digest is the message with its primary type (hashing
  is injective), so "verifies" means that the verifier, reading the posted JSON with its
  own schema, arrives at the message that was signed. Machine integers are taken modulo
  `Word`, and a number a float64 cannot hold exactly, `Exact` and above, is rounded when
  the envelope goes through `map[string]any`.
* **`Answers`** is the classification of answers: HTTP status, envelope, error, result.
* **`SignedCalls`** puts them to work: goroutines prepare a call (nonce, expiry, signature),
  post it, lose it, get a late answer, time out and post again; the clock may jump and a
  wallet may have several signers. **`NonceSource`** is the abstract specification of a
  signer's nonces. `MCSignedCalls` lists the calls and arguments of a run.
* **`Orders`** is the order helpers over the position they look at and over option slices
  that share spare capacity: `append` writes the cell behind the caller's options in place
  while there is room, as Go does. `MCOrders` adds the slices and the symmetry set.

`WsInfo`, `WsTrade`, `Facade` and `SignedCalls` meet in their interfaces: a call of `Facade` is
`Post` of `WsTrade` or a post of `SignedCalls`; a posted frame of `WsTrade` is `FlattenSignedEnvelope` of
`Signing`; a matching notification of `WsInfo` is `Enqueue` of `Subscriber`, whose handler is
`Stream`'s. They are checked apart, with the neighbour reduced to what it may do.

No module uses `RECURSIVE`, so all of them can be proved about.

## 3. What the runs check

| Run | Bounds | Shows |
|---|---|---|
| `wsinfo_safety` | 2 Subscribe calls, 1 key, 2 connections, Close any time | `OneSenderPerKey`: the first-subscriber gate is never open twice; `PendingExact`: requests and their entries match; `NoForgottenKey`: no key slips between a Subscribe and a replay; `QuietAfterClose`: no connection, read loop or registration survives Close, although Close closes no connection itself |
| `wsinfo_liveness` | 1 call, 1 key, 2 connections, fair | `SubscribeReturns`, `ReplayedAfterLoss`: a key registered when the connection is lost is acknowledged on a new one, or its replay was tried and failed there (refused, timed out or not written); `CloseReturnsOnceQuiet` |
| `ring` | ring of 3, 7 messages, 1 unsubscriber and `Client.Close`, fair | wake-up (`NoLostWakeup`), refinement (`ImplementsMailbox`, which holds contents, accounting and that one delivery at most begins late), delivery (`NothingRots`) and the goroutine's end (`LoopExits`) |
| `wstrade` | 1 Post, 1 subscription, 2 connections, 1 frame in flight to the client, pings that join an empty wire (`MaxWire` 1), fair | `NothingBeforeAuth`: no request of a caller is on the wire of a connection the server has not accepted, while pings may be; `NobodyForgotten`: sleepers are woken, waiters reached, entries removed; `ImplementsHandlers`: no handler is called twice for a notification, or after its removal was acknowledged; `QuietAfterClose`: after Close no handler runs or is about to, on a connection that was being dialled neither; `NobodyHangs`: calls and Close return and a lost connection is noticed |
| `stream` | channel of 3, 7 messages, 2 stoppers, fair | `NewestKept`: two receivers leave the messages in order, no gap among those that are buffered, and the newest one; `NoOtherStall`: the handler can wait for ever in one way only; `StopFrees`: stopping ends that wait |
| `cache` | 2 goroutines, TTL 2, timeout 1, 3 ticks, 1 change of the list, fair | `NeverOlder`, `NoRedundantFetch`, `BoundedLag`; `LockedForOneExchange`: a fetch that fails gives the lock back; `CallsReturn` |
| `facade` | 3 goroutines with one operation each, 2 subaccounts, URL accepted or not | `OneOpenSocket`: no socket is left behind; `PostFindsSocket`: for one subaccount the unlocked read in `postWS` is safe; `DiscoverySticks`: a discovery overwrites nothing; `LostOnlyToClose`: an open socket that is not the installed one was made behind the back of a Close; `NoOtherDeadlock`: only a handler whose own socket is being closed can be stuck |
| `signed` | 2 goroutines, 2 signers of one wallet, clock 0..3, words of 5 bits with 3 exact, 2 posts of a request; every signed call, over both transports | `ImplementsNonceSource`; `DuplicateOnlyByChoice`; `ExpiryAhead`; `CarriesWhatWasSigned`, and exactly when a request does not; `AnswerTellsOutcome` |
| `orders` | 2 goroutines, slices with 2 and 1 spare cells, amounts 3, 6 and 10 of increment 4, 2 digits, position within 2 | `OrderAsAsked`: the options and the amount of an order are its own; `CloseOnlyReduces`: a MarketClose that still has its reduce-only option neither increases nor turns a position that changed meanwhile (one that has lost it to a sharer of its slice is excepted, section 6) |
| `ring_double_close`, `wstrade_silent`, `signed_remove_ws` | smallest that show it | section 6 |

`signed` and `orders` check their module's `TypeOK` too; those of the other modules are proved
(`TypeCorrect`) for every value of the constants and not run again. Nor is
`QuietAfterUnsubscribe` of `WsTrade`, which is a theorem and part of `ImplementsHandlers`.

**Why the bounds are enough.** Two Subscribe calls are what sharing, the first/last
gate and the races of subscribe against unsubscribe need; two connections give one
loss and one replay, with requests of the first connection still alive on the second
(`MaxGen` only stops further dials). Different keys touch disjoint state except for
`pendingReplies`, whose entries are per process, and the order of the replay, so one
key suffices. Seven messages wrap a ring of three twice, once with overflow and once
with draining. The ring's races are between the one producer, the one consumer and two
closers. In `wstrade` the Post and the subscription are two independent sleepers and
two entries of `pendingReplies`; one frame in flight is enough for an update to be
fanned out while the reply to an unsubscribe is on its way, and one ping on the wire is enough
to be there before the authentication, or in front of a request. In `cache` one goroutine
fetches while the other waits, hits, fetches past the cache or invalidates; three
ticks are TTL plus timeout, the longest lag there can be, so the bound in `BoundedLag`
is reached but for one tick. In `facade` three goroutines are two that replace the
socket and one that posts, discovers, closes or is a handler; two subaccounts are what a
replacement needs. `OneOpenSocket` and `PostFindsSocket` are claimed until Close is called
and `PostFindsSocket` for one subaccount only: beyond that the code breaks them (section 6).

Seven messages fill a channel of three, empty it and fill it again, and two stoppers are
what a stop function called twice needs. In `signed`, `Word` = 32 and `Exact` = 8 put every
boundary (2^53, 2^63, 2^64) within reach of small arguments, which lie on both sides of
each; the clock goes up to 3 and may jump to any value while somebody has yet to begin,
which is all that a nonce can notice. Every call with every argument is prepared and not posted
(what is posted and what is signed depends on nothing else), a few are posted once and an
order twice, which is one retry. In `orders` an increment of 4 leaves a remainder for every
amount: 3 is so close to the next multiple that the division rounds it up, and 6 and 10 are cut
off, to one increment and to two; the slices are one that holds all that a helper
appends and one that holds a part.

**Deadlock** is not checked where the system may rightly stop: clients that have been
closed and calls that have returned, messages used up, the clock at its bound, calls done. In
`facade`, which may also stop because a handler is trapped, `NoOtherDeadlock` takes the
place of the check. It is stated with `Ready` and `Drained`, which spell out the guards of a
goroutine's and a socket's steps, so that it can be proved without ENABLED.

**Fairness.** Weak fairness on the steps of goroutines that can run: the Go scheduler
is preemptive. Timeouts are steps that are always enabled while somebody waits, so
weak fairness says that timers fire. Not assumed: that a user subscribes,
unsubscribes or closes; that a link drops; in `WsTrade` that a dial succeeds, that the
server answers or that a handler returns (`CloseReturns` has that last one as its
antecedent). `WsInfo` assumes that the server reads its frames and that one of
infinitely many dials succeeds while `MaxGen` allows (strong fairness of `DialOK`), for
`ReplayedAfterLoss`; and that the read deadline expires once nothing is left to stream
and `runCtx` is cancelled, which ends the ping loop (`src/wsinfo/runloop.go:341`) and
with it the pongs that would renew the deadline. `MarketCache` assumes strong fairness for the goroutines that wait for the
lock, which is what `sync.RWMutex` gives readers and writers, and that a request ends
with the HTTP client's timeout; a client injected without a timeout would void
`BoundedLag` and `CallsReturn`. `Stream` assumes that the handler runs when it can and that
a stop function that was called goes on, since its unsubscribe request has a timeout; not
that the user reads or stops.

## 4. What is proved

The theorems hold for every value of the constants that the modules' named
assumptions allow: any number of calls, keys, connections, messages, ticks, signers and
posts, any buffer size, TTL and even word size.

* **`WsInfoProofs`.** `TypeCorrect` from `TypeInv`, which adds that a process past its
  registration knows its key (without it a frame need not be well-typed).
  `SendersExclusive` (`OneSenderPerKey`) from `SenderInv`: a call between registering
  and returning is registered for its key unless the client was closed meanwhile, and
  is the only one that got there as first. `PendingIsExact` (`PendingExact`) from
  `PhaseInv`, which ties `conn`, the run loop's phase and the socket together, and
  `WaitInv`: a waiter without a message is still pending and waits on the installed
  connection. `NoKeyForgotten` (`NoForgottenKey`) says what happens at the end of a
  replay only, so `KeyInv` says what happens until then: a key whose gate is closed for
  this generation has its answer or somebody who closed the gate and will have one, and a
  key whose gate is open has somebody who will come to it, the replay included.
  `ClaimInv` supplies that a claim of this generation is pursued on this connection.
  `ClosedIsQuiet` (`QuietAfterClose`) from `CloseInv`: Close returns after the run loop only,
  and the run loop is past a connection only after its read loop. This is why nothing new
  can be enqueued for a `Subscriber` once `CloseReturns`.
* **`WsTradeProofs`.** `TypeCorrect`, where `OpFits` says who makes which request;
  `WaitersReached` (`NobodyForgotten`) from `PhaseInv` and `WaitInv` as above with the
  sleepers added; `UnsubscribedIsQuiet` (`QuietAfterUnsubscribe`) from `ReaderInv` (handlers
  are called between two frames) and `QuietInv` (an unsubscribe whose reply has been read
  finds its handler neither running nor still to be called); `AuthenticatedFirst`
  (`NothingBeforeAuth`) from `AuthInv`: before the authentication is written there are only
  pings on the wire and it is written once, and whatever makes the client believe in a
  connection (a grant on its way, the flag, a call that captured it) the server believes in
  it too;
  `ClosedIsQuiet` (`QuietAfterClose`) from `CloseInv` with what `PhaseInv` and `ReaderInv` say of
  a run loop that has ended. All but `AuthInv` together are `Inv` (`InvHolds`), and with it every step
  of the client is a step of `Handlers` or none: `HandlersKept` (`ImplementsHandlers`),
  where the invariants are what shows that a reply to an unsubscribe is read only when its
  handler is neither registered, due nor running, and that Close returns to an empty desk.
* **`SubscriberProofs`.** `TypeCorrect`, `WakeupKept`, `LateOnce`; `RingFreshest` and
  `MessagesAccounted` from `RingInv`: `tail` is `size` slots after `head` modulo the
  buffer size, and the slot `i` places after `head` holds message `sent - size + i + 1`.
  The modular arithmetic is confined to three lemmas about a slot and its successor.
  `HandledOnceInOrder` from `OrderInv`: what was handled is increasing, and older than the
  message in hand, which is older than the ring.
  `MailboxImplemented`: the initial state maps to the mailbox's and every step to one of
  its steps or a stutter; a delivery that begins after the close is the mailbox's one
  `DeliverLate`.
* **`MarketCacheProofs`.** `TypeCorrect`; `FetchesNeeded` (`NoRedundantFetch`),
  `CallsNeverOlder` (`NeverOlder`) and `LagBounded` (`BoundedLag`). The conjunction that
  is inductive is `TypeInv`, `ClockInv` (every snapshot and every answer was the current
  list at some moment since its exchange began, and no exchange is older than the
  timeout), `CacheInv` (nobody holds the lock outside an exchange, and nothing cached or
  answered is older than what is already known) and `BoundedLag` itself. `ClockInv` is
  needed for the types already: the lag is a difference of times. `LockIsFreed`
  (`LockedForOneExchange`) follows from them: it is the safety half of `CallsReturn`, and what
  its fairness assumption needs to be worth anything.
* **`FacadeProofs`.** `TypeCorrect` from `TypeInv` (a goroutine that needs a subaccount,
  a signer or a socket has one). `OneOpen` (`OneOpenSocket`), `PostFinds`
  (`PostFindsSocket`) and `DiscoveryOverwritesNothing` (`DiscoverySticks`) from `Inv`:
  `LockInv` says who holds which lock, so at most one goroutine is inside `ensureWSTrade`,
  and `TradeInv`, kept until Close is called, ties the installed socket to the goroutine
  that is replacing it. A post is safe because whoever would replace the socket is inside
  `ensureWSTrade` for another subaccount (`Only`). Most actions do not touch the socket;
  `Outside` says what they have in common and `OutsideKeeps` treats them together.
  `DeadlocksNowhereElse` (`NoOtherDeadlock`) from `WaitInv`: whoever holds `tradeMu` is inside
  `ensureWSTrade`, where nothing waits but for an old socket, whoever waits for a socket has
  had it closed, and a closing socket waits for its handlers only; so along what they wait
  for one comes to a goroutine that is ready, or to a handler that is trapped.
  `CloseAloneLoses` (`LostOnlyToClose`) from `LostInv`: a socket is made only when none is
  installed, and whoever has called Close of one finds that one installed, or none, or (without
  `wsTradeMu`) one made later; so only a Close that had found an older socket sets `wsTrade` to
  nil over an open one.

* **`StreamProofs`.** `TypeCorrect`; `NewestIsKept` (`NewestKept`) from `OrderInv`:
  everything received or buffered is in order and older than the message the handler is
  busy with, and from `GapInv`: each buffered message is the successor of the one before it and,
  while the channel is open, the last is the latest the handler is done with; `OneStallOnly`
  (`NoOtherStall`) from `StallInv`: between its look and its receive only the user takes
  messages out.
* **`SignedCallsProofs`.** First, about the operators of `Signing`: `EveryCallCarries`: for every
  call, all arguments, every nonce and expiry and every word size, what the verifier reads out
  of the posted request is what was signed, over REST always and over the WebSocket but for
  numbers that a float64 cannot hold; `RemoveDelegatedSigner` over the WebSocket never
  verifies, unless the delegate is the owner. One lemma says what an envelope carries and one
  what flattening keeps, then there is one lemma per call. Then, about `SignedCalls`:
  `TypeCorrect`; `NoncesGrow`, the refinement of `NonceSource`, from
  `CounterInv` (the counter is the largest nonce given out), and `NoncesIncrease`, which carries
  over from `NonceSource` that any later nonce of a signer is larger; `NoncesUsedOnce`
  (`DuplicateOnlyByChoice`) and `DeadlinesLieAhead` (`ExpiryAhead`) from `OwnInv` and
  `ExpiryInv`; `SignedArrives` (`CarriesWhatWasSigned`) from the latter and
  `EveryCallCarries`; `ResultsTellOutcome` (`AnswerTellsOutcome`) from `OutcomeInv`: a post is
  in flight or was carried out and not both, and an answer that is under way tells which.
* **`OrdersProofs`.** `TypeCorrect`; `OrdersAsAsked` (`OrderAsAsked`) and `ClosesOnlyReduce`
  (`CloseOnlyReduces`) from `Inv`. Its `CallerInv` has three parts per goroutine: the cells it
  has written so far are there and do not become fewer (`CellsOf`), they and the options it
  reads from them are its own unless somebody shares the cells (`OwnOf`), and its order is what the position it
  saw, or the amount it was given, makes of it (`AskOf`). The lemma `Truncates` is about
  `formatToIncrement` with its division rounded to any number of digits, and `ReducingFill`
  about what the exchange fills of a reduce-only order.

**Model-checked only.** All liveness properties (and so fairness): `SubscribeReturns`,
`ReplayedAfterLoss`, `CloseReturnsOnceQuiet`, `NothingRots`, `LoopExits`, `NobodyHangs`,
`StopFrees` and `CallsReturn`: the prover does not reach them. Every other property of a
passing run is a theorem. The assumptions are those named `...Assumption` in the modules: sets of processes are disjoint or differ from their
default values, bounds are natural numbers, and where they say more the comment there says
what in the code it stands for.

## 5. What is not modelled, and the plan

Not modelled for good: secp256k1 and the bytes of a digest (a digest stands for what it
hashes, so the order of a struct's fields and its encoding are not checked), the domain
separator, TLS and HTTP, logging, the examples. `wsinfo`'s ping loop only writes frames
whose replies nobody waits for; its one effect, the read deadline, is in the fairness above.
Of `wstrade`'s, which write to whatever connection is installed, the frames are modelled and
the replies, which nobody waits for, are not; a tick takes the connection and writes to it in
one step, since a connection given up in between refuses the frame and the error is dropped. The result types of the endpoints and their lenient decoders are data with no
state and no choice that another component depends on.

Planned, in this order:

1. Which subscriptions a notification belongs to (`fanOut`, `subscriptionMatches`,
   `extractSymbol`, canonical keys) against a reference definition, and the composition of
   `WsInfo`'s fan-out with `Subscriber`.
2. The back-off: `nextBackoff` and the jitter as machine integers (`rand.Int63n` panics for an
   interval of one nanosecond in `wsinfo`, below four in `wstrade`).
3. Several subaccounts on one `wstrade` client: every handler gets every update, and nothing
   says what two handlers of one subaccount may expect.
4. The status summary of the facade, which reads two endpoints one after the other, and the
   argument checks of the endpoints.

## 6. Where the code and its documentation part

Each of these is the counterexample of one run (`findings` quotes both sides).

* `ring_double_close`: `subscriber.close` is documented as safe to call repeatedly, and two
  goroutines in it at once panic.
* `wstrade_silent`: `wstrade` does not subscribe again after a reconnect; the README says
  both clients do.
* `signed_remove_ws`: over the WebSocket, `RemoveDelegatedSigner` loses the delegate: both the
  envelope and the action have a `walletAddress`, and flattening keeps the envelope's
  (`src/wstrade/client.go:296`).

The models show these too; no run is spent on them.

* A claim made before a reconnect can be written after it, so one key is subscribed twice on
  one connection (`src/wsinfo/client.go:395` against `:337-339`, "exactly one call per (key,
  connGen)"). Harmless if subscribing is idempotent.
* The unsubscribe of the last handle leaves the lock before it is written
  (`src/wsinfo/client.go:325`), and can overtake the subscribe of the next first handle, which
  stays silent until the next reconnect (against `subscription.go:8-11`). A subscribe written
  after its key's unsubscribe leaves `wsinfo` streaming a key nobody holds.
* `wsinfo`'s Close does not close the socket (`src/wsinfo/client.go:238` against `:220-221`),
  so it waits for as long as the server keeps sending: hence the antecedent of
  `CloseReturnsOnceQuiet`. `wstrade`'s Close does.
* NewSigner "attaches (or replaces) the Signer used for the authenticated trade surface"
  (`src/synthetix/client.go:306-307`), but a trade socket that exists for the default
  subaccount is kept (`:375`) and authenticates with the signer it was made with.
* With calls for several subaccounts under way, or during Close, `postWS` may find no socket
  and crash, or the socket of another subaccount (`src/synthetix/client.go:379-397` against
  `account.go:269`); Close of the facade takes no lock and may leave a socket that a
  concurrent call makes; a trade handler that calls an operation of the facade deadlocks when
  its own socket is being replaced. Nothing in the code promises otherwise.
* One handler call of a subscriber can begin after `wsinfo`'s Close has returned:
  `deliverLoop` looks at `done` before it calls the handler (`src/wsinfo/fanout.go:127`), and
  Close waits for no deliver loop. Its comment says "In-flight subscribers receive no further
  notifications" (`src/wsinfo/client.go:220-221`). `Mailbox` allows that one call and no more.
* A ping can go out on a connection that is not authenticated: `sendRequestFireAndForget`
  (`src/wstrade/request.go:66-82`) takes `Client.conn` without a look at `authenticated`, and
  the ping loop of a lost connection is told to stop (`src/wstrade/runloop.go:81-84`) but not
  waited for, so a late tick finds the next connection. `NothingBeforeAuth` is about the
  requests of callers and excepts pings.
* The second caller of a `wsinfo` key keeps its handle when the first caller's subscribe
  fails (`src/wsinfo/client.go:295`), and is told nothing until the next reconnect.
* A stream whose user empties the full channel between the handler's look and its receive
  stalls its handler, with `wstrade` the whole read loop, until the stream is stopped
  (`src/wstrade/client.go:260`). Calling the stop function of a stream twice at once, or twice in
  turn, closes its channel twice.
* A request that was carried out but whose answer was lost is refused as a duplicate nonce
  when it is posted again: its caller cannot tell success from refusal, which is why
  `AnswerTellsOutcome` speaks of the latest post.
* Numbers of 2^53 and above lose their last digits over the WebSocket: flattening decodes
  into float64 (expiries and nonces stay exact only below that).
* Order helpers append to the caller's slice of options; when two goroutines share one with
  spare capacity, a helper's option can be overwritten, and MarketClose can go out without
  `reduceOnly`, although it "closes the current position for symbol with a reduce-only market
  order" (`src/synthetix/orders.go:121-122`): it then increases or turns a position that changed.
  `CloseOnlyReduces` excepts these closes (`Overwritten`).

Seen while reading, outside the models: `src/wsinfo/client.go:65-67` says that a zero
`PingInterval` disables pings, and `applyDefaults` (`:188-192`) turns zero into the
default; `marketsCached`'s comment says that concurrent callers share one request, which
holds when it succeeds, while after a failure each waiter sends its own in turn;
`AutoDiscoverSubAccount` changes nothing, as discovery is on whenever no subaccount is
configured (`src/synthetix/client.go:260`); the example at `src/README.md:316-327` matches
`*restinfo.RESTError` against an error of PlaceOrder, which never is one; `getStatus`
(`src/restinfo/client.go:430-433`) takes an error envelope under a 2xx status for a result;
`eip712`'s comment says that the authentication timestamp is in seconds and the signer
uses milliseconds; an `action` among the caller's extra parameters of a read replaces the
signed one; an order id of 2^63 or above makes CancelOrders fail at signing; a fill-or-kill
limit order goes out as `LIMIT`; `formatToIncrement`, which "truncates", divides with 16
digits first and so rounds an amount up when it is that close to the next multiple, and
floors negative amounts away from zero; `return out, c.postWS(ctx, ..., &out)`
(`src/synthetix/account.go:537` and eight more) relies on an order of evaluation that Go
leaves open.
