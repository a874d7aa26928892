# A verification project for qwerty-iot/coap

TLA+ models of the CoAP server and client library in `src/`, the TLC
configurations that check them on small instances, and proofs of safety
properties for every instance, checked by TLAPS. `PROJECT.json` is the
machine-readable inventory: components, runs, the source lines behind each
definition, mutants, findings, hazards and theorems.

    tlc -workers 2 -config MCExchange.cfg MCExchange    # a model-checking run
    tlapm ExchangeProofs.tla                            # the proofs of a component

## 1. The system

One Go package. A `Server` is client and server at once: it owns a UDP listener,
a DTLS listener and optional proxy callbacks, and every datagram is handled in a
goroutine of its own.

| Component | Source | State it keeps | Operations | Modules |
|---|---|---|---|---|
| Confirmable exchange | `send.go`, `handle_ack.go` | `pendingMap` (token), `pendingMidMap` (message ID), `pendingMsgId`, one channel of one slot per `send()` | `Send`, `send`, `pendingSave`, `handleAcknowledgement`, `GetNextMsgId` | `Exchange`, `SendPromise` |
| NSTART limiter | `nstart.go` | `nstartMap`: address -> count and condition variable | `nstartInc`, `nstartDec`, `nstartCount`, `NstartClear` | `Nstart` |
| Deduplication | `dedup.go` | `dedupMap`: address -> message ID -> entry; `dedupDeleteAfter`: address -> deadline | `deduplicate`, `save`, `dedupWatcher` | `Dedup` |
| Message dispatch | `handler*.go` | none of its own | `handleMessage`, `handleConfirmable`, `handleNotify` | `Dispatch` |
| Block-wise, sending | `send.go` | local variables of `Send` and `blockRetreive` | the block1 and block2 loops | `BlockTransfer`, `Dispatch` |
| Block-wise, serving | `blockwise.go`, `handler.go` | `blockCache`: key -> message, last block, expiry | `blockCachePut/Append/Get`, `expireBlocks` | `BlockCache`, `BlockTransfer` |
| Codec | `message*.go`, `blockwise.go` | none | build, marshal, unmarshal, option values, block options | `Wire`, `Codec` |
| Observations | `observe.go` | `observeMap`: token -> callback | `Observe`, `ObserveCancel`, `ObserveRegister`, `getObserve` | `Observe` |
| Routes | `route.go` | a tree of path segments | `AddRoute`, `matchRoutes` | `Routes`, `Server` |
| Listeners | `listen_*.go` | sockets, `shutdown` flags | `reader`, `handle`, `Send`, `Close` | `Server` |
| Server, options | `coap.go`, `send_options.go` | configuration | `NewServer`, `Close`, `NewOptions` | `Server` |
| Logging, sniffing, constants, errors, proxies | the rest | none that matters | | none |

How they meet:

- `Send` calls `send` once per block. `send` waits in `nstartInc`, enters the
  message in both pending tables, writes it, and waits on its channel with a
  timer; on return the deferred `nstartDec` gives the slot back.
- A handler goroutine looks the message up in the deduplication table, then by
  type: a Reset is logged and forgotten; an acknowledgement or a response goes to
  `handleAcknowledgement`, which claims a pending entry under `pendingMux` and
  writes to the channel after releasing it; a notification goes to its
  observation; a request goes to the block cache and the routes. The deferred
  function stores the reply in the deduplication entry.
- Two goroutines per server expire the deduplication and block tables.

What is hard: the retry loop counts rounds, not transmissions; tables keyed by
two different numbers, one of them wrapping, one of them sometimes chosen by the
peer; a lookup under a lock followed by a write outside it; locks released and
others taken with a gap between; condition variables under unequal limits;
`sync.Map`s used for check-then-act; cache entries changed through shared
pointers; handlers that answer what they do not expect; a network that loses,
repeats and reorders. The hazards, each at its line and with the properties that
watch it, are in `PROJECT.json`.

What makes each component correct:

- *Exchange*: a waiting call can be found by its response, gets only answers to
  its own Send, loses none but in one explained way, and returns.
- *Limiter*: NStart bounds what is in flight, and no wake-up is lost.
- *Deduplication*: a later copy runs no handler, a replayed reply is that of the
  original, and no table lives for ever.
- *Dispatch*: a confirmable message gets its answer, and what one message sets
  off dies out.
- *Block-wise*: the callback gets what was sent, whole, in order and once; the
  client puts a reply together in order; a confirmable Send that nothing disturbs
  succeeds.
- *Codec*: what is read is what was written, and the size estimate is exact, up to a token
  drawn later.
- *Observations*: a notification reaches its callback; what is cancelled ends at
  the peer; an observation that is held is not dropped without a reason.
- *Routes and listeners*: a request goes to a route that counts and fits, no
  route gets lost, and a listener has one reader until it is closed and none in
  the end.

## 2. The modules

Each module describes one component; what it leaves to another is chosen freely
in it, so that whatever the other does is covered.

### Exchange and SendPromise

One peer and a set `Sends` of `Send` invocations, each with a token of its own
(`pendingSave` draws it at random; that two draws differ is assumed) and a number
of `send()` calls (`Blocks`). A *call* is `<<send, i>>`: its `pendingEntry`, its
channel and its frame.

| State | Code |
|---|---|
| `nextMid`, `pendingMap`, `pendingMidMap` | the fields of `Server` under `pendingMux` |
| `seen` | the peer's deduplication table, as far as separate responses need it |
| `matches` | the handler goroutines that found an entry: which call they hold, for which message, and whether the write to the channel came off |
| `chan` | the one-slot channel of each call |
| `idx`, `mid`, `retry`, `status`, `answer` | the loops of `Send`, the message ID and `retryCount` of each `send()`, where it stands and what it returned |
| `transmits`, `resets`, `nons` | history: datagrams written, Resets received, non-confirmable messages sent |

`Start` is `pendingSave` with the first write (an answer cannot come before the
write, and a stale one that matches in between matches just as well after it),
`StartFails` the same with a write error, `Retransmit`/`RetransmitFails`/`GiveUp`
the timer branch of the loop and of `NoRetry()`, `TakeAnswer` and `TakeEmptyAck`
the channel branch. `handleAcknowledgement` is two steps, `MatchEmptyAck` or
`MatchResponse` under the lock and `Deliver` after it. An acknowledgement that
finds nothing the first time is looked up once more by `handleNotify`; as each
lookup may happen at any moment, one is enough.

The peer is external. Anything that reached the wire may be answered by an empty
acknowledgement, a piggybacked response, a separate response or a Reset, at any
later moment and any number of times. Loss, duplication, delay and reordering
are all in that, so there is no network variable. Timers may fire at any moment,
since the application chooses the durations. `blockRetreive` makes a new message
with a token of its own for each block: to this module it is a sequence of Sends
of one block.

`SendPromise` is what a caller of `Send` may rely on: calls one at a time, each
ended once in an answer or an error, an error ends the Send, and an answer is one
to this call or to an earlier call of the same Send. Tables, channels, handlers
and the peer do not appear in it. `Exchange` implements it under the mapping
`Promise` (its `idx`, `Result` and `AnswersOf`), which the run `exchange` checks
as the property `ImplementsPromise` and `ExchangeProofs` proves. "Or to an earlier
call" is as much as the code keeps, because all blocks of a Send carry one token;
`BlockTransfer` builds on exactly this promise.

### Nstart

One address: addresses share nothing but `nstartMux`. The state is the map's
entry (`made`, `mapped`), the count of every entry ever made, and for each sender
where it stands and the entry its local variable points to. `Find` and `Finish`
are the critical sections of `nstartMux`, `Enter`, `Park` and `Leave` those of
the entry's lock; `NstartClear` may come between them. `Leave` includes
`Signal`, which here wakes *any* waiter, a superset of Go's order. `slot`,
`foreign` and `orphans` are history: who holds which slot, which decrements were
made by a sender without one, and which slots were never given back.

### Dedup

One remote address and a set of datagrams (`Copies`), copies of the same message
sharing a message ID. `Arrive` fetches or makes the endpoint, `Miss`, `Replay`
and `Ignore` are the lookup of the entry, `Schedule` and `Record` the two
separate stores after a miss, `Reply`/`NoReply` the deferred `save`. The watcher
is three steps: its read of a deadline and its two removals. `Expire` lets a
deadline pass at any moment. The two unsynchronised writes of `save` are one
step: a reader sees `pending` false or true, and the reply is written first; a
reader that sees them in the other order would replay nil, which is `Ignore` as
far as the network is concerned.

### Wire and Codec

`Wire` has the byte forms as pure operators: integers, option headers with their
extensions, block options, and the number of the next block when the peer asks
for smaller ones. `Codec` is a message on its way: `WithOption`, `WithBlock1` and
`RemoveOption` change it, `PacketSize` estimates it, `Send` and `Reply` write it,
and `Receive` cuts the datagram to the read buffer and parses it. `Send` is
`send()`, which gives the message an ID and, if it is confirmable and has none, a
token of eight bytes before it writes it (`Drawn`); `Reply` is the listener, which
writes what `handleMessage` returns as it is. A message that was received keeps the
size of its datagram (`packetSize`), and `PacketSize` answers with that. The
builder may be a peer with another implementation (`foreign`), which writes
option numbers this library has no name for. `built` keeps the options in the
order they were added. Types and codes are numbers; the length of the token is
written in four bits, as in the code.

`Chunks` is the loop of `marshalBinary`, `OptionsSize` that of `headerSize`,
`Sorted` the stable sort, as insertions behind what is not greater. The loop of
`unmarshalBinary` is a function of the number of rounds: its state (`Running`) is what
is left of the datagram, the number before and the options so far, `Round` is its
body with its three ways out, and `ParseOptions` the state in which it ends.
`CodecAssumption` says what may be written at all: numbers of 16 bits, values of
the type of their option, 32-bit integers, and strings whose length the longer
extension of an option header can carry. `marshalBinary` would silently cut the
length of a longer string to 16 bits (`message_parse.go:210`); such a message
does not fit a datagram anyway.

### BlockCache and BlockTransfer

`BlockCache` is the cache of `blockwise.go` under one key. Entries are kept apart
from the table, since a handler that has loaded an entry changes it through a
pointer, after it may have been replaced. `BlockTransfer` adds the client's loops
(`Begin` to `CallFails`, one disjunct for each way the code of `Send` goes on)
and the handlers of the server. Bodies are sequences of pieces, a piece to a
block. A call may be answered by the response to it or to an earlier call, late,
which is the promise above, and it may fail at any moment. A handler is one step
where the code touches the cache once, and two where it keeps something across
(`LoadForAppend`/`AppendMiddle`, `Reassemble`/`RunReady`, `Run`/`ServeStored`).
A Send outside `Confirmable` waits for nothing: `send()` returns neither a response
nor an error, which ends a message sent whole (`unanswered`) and crashes the loop
over blocks (`NotAwaited`). Pieces have no size, so the place where the next block
of a cached message would begin may be its end or lie beyond it: there `Holds` and
`Lacks` are both possible.
Deduplication appears as `AdmitCopy`: two copies of a call may be handled at once,
as `Dedup` shows they can be. `trouble` is history: which disturbances a Send has
met, so that each property can say exactly which of them it does not survive.

### Dispatch

Two endpoints run this library and talk about one resource. The first message is
any that an implementation may send; every reply and every message sent on the
way is handled by the other side in turn, in any order or never. A message keeps
its type, its class of code, its ID and the shape of its options as far as the
handlers ask. `Handle` has one disjunct for each way through `handleMessage`;
what `handleAcknowledgement`, the observations, the routes and the callbacks
answer is free. `Cached` and `Replied` are what earlier transfers and messages
may have left in the block cache and the deduplication table. A handler that
fetches the blocks of a large notification stays in `fetching`: `Retrieve` sends
the early acknowledgement, or fails to, `Ask` the request for the next block,
`Claimed` is the answer it waits for, and `Retrieved` or `RetrievalFails` is the
rest of the handler, with or without the blocks. `hop`, `blocks` and `via` record
how far from the first message one is, how many further blocks had been fetched on
the way to it, and what went into it; `MaxHops` bounds the chain.

### Observe

One observation: `api` follows the application through `Observe` and
`ObserveCancel`, `pending` and `chan` are the entry of its token in the pending
table, `stored` the observation in `observeMap`, `renews` whether the
`ObserveNotFoundCallback` puts it back with `ObserveRegister`. `note` are
notifications and where their handlers stand: a large one is first acknowledged
and its blocks fetched (`Arrive`, `Retrieve`), then looked up (`Dispatch`), and
heard or, if missing, given to whoever waits for the token (`Claimed`) or rejected
(`Unknown`). An acknowledgement nobody waits for is looked up in the same way, which
may put the observation back (`AckArrives`). The peer is external: whether it has us as an observer, and why it
last dropped us.

### Routes and Server

`Routes` is the tree as a function from nodes to callback and key, a node being
the sequence of map keys that lead to it; `AddRoute` and `Match` as operators.
`Server` has the application (start the listeners, copy the configuration, add
routes, close), the readers of both listeners, and requests, each remembering which
routes there were when it was matched. A reader is counted by where it stands: in
its read, behind it (`ReadEnds`), or past the shutdown flag, which it found down
(`FindsOpen`) and which `Close` may set before it starts its successor
(`StartSuccessor`); with the flag up it returns (`FindsShut`). `late` counts the
readers started since `Close` began. `Names` are the strings that parts of patterns
and paths are taken from, `Elsewhere` one of them that no pattern has;
`ServerAssumption` asks no more of them than that, and that no pattern or path
leaves `Names`.

## 3. What the runs check

| Run | Instance | Shows |
|---|---|---|
| `exchange` | two Sends: a request of two blocks with one retransmission, a response sent once; two message IDs; the peer's own ID equals the second of them. 688,790 states | types, `StaysRegistered`, `AnswersOwnSend`, `DropOnlyBehindEmptyAck`, `TimeoutIsEarned`, `EmptyAckFindsWaiter`, refinement `ImplementsPromise` |
| `exchange_live` | two requests of one block, one with a retransmission, one after `NoRetry()`; a non-confirmable message; Resets. 291,552 states | `SendReturns` under `FairSpec`; `AnswersOwnSend` |
| `nstart` | four senders, limits 1, 1, 2, 2, two calls each. 16,669 states | `InFlightLimit`, and `WaitersEnter` under `FairSpec` |
| `nstart_clear` | three limits and one sender without (0), one `NstartClear`. 498,012 states | types, `SlotLimit`, `NoLostWakeup`, `StrandedOnlyByClear` |
| `dedup` | three copies of one message, one of another. 1,882,515 states up to symmetry | types, `LaterCopiesOnce`, `DuplicateHasOriginal`, `TableHasDeadline` |
| `codec` | seven options and two foreign ones, up to three in a message; four messages, of which one lacks its token, one its ID, and one was received; five read buffers. 182,377 states | types, `RoundTrip`, `CutIsPrefix`, `EstimateIsExact`, `LatestBlockIsRead` |
| `transfer` | an upload of three blocks with four calls and replies of one or two blocks, beside it a request sent whole or an upload of two blocks that is not confirmable; one fault. 1,434,670 states | types, `UploadWhole`, `DownloadInOrder`, `RunsOnce`, `UndisturbedSucceeds` |
| `dispatch` | every first message in every combination of the options the handlers look at, IDs 0 and 1; caches empty or filled; seven hops. 3,752,594 states up to symmetry | types, `EchoEnds`, `ConfirmableAnswered` |
| `observe` | two notifications at a time, confirmable, without the observe option, or in blocks. 217,512 states | types, `SteadyIsHeard`, `DropsHaveReason`, and `CancelSticks` under `FairSpec` |
| `server` | three of seven patterns, four paths, one request; both listeners, two failed reads. 233,293 states | `GivenToItsRoute`, `RouteReachable`, `OneReader`, and `ReadersEnd` under `FairSpec` |
| `codec_unrecognized`, `dispatch_replay` | as `codec` with a wide option number, as `dispatch` | one refuted statement each, see section 5 |

**Bounds.** Two Sends suffice to swap answers, two blocks for a stale
acknowledgement of the one before, two message IDs for the counter to wrap onto a
waiting call, and a peer ID equal to one of them for the collision in
`pendingMidMap`. `MaxRetransmit` 1 has a round that retransmits and one that
gives up; 0 and -1 are the other two shapes of the loop. Three copies of a message
are an original, a concurrent copy and a later one. Four senders give two waiters
behind two holders. In `transfer` three blocks are a first, a middle and a last
one, and the fourth call asks for a block of the reply; for the Send that is not
confirmable two are enough, since it never gets past its first. `MCOneOther` keeps to
two Sends at a time. In `dispatch` no chain without further blocks is longer than four
messages but those that `EchoEnds` excepts, and a limit of three is violated; with one
further block it is six. The bound of seven leaves room for a seventh, and lets the loop
of `blockRetreive` fetch two further blocks; for longer notifications there is the
theorem. Two failed reads let a successor fail in its turn; `MCRoutesOrReaders` keeps
failing readers and a second listener to states with one route at most, since routes and
readers touch only where a request comes in. None of the steps `FairSpec` asks for
leads out of that bound, so `ReadersEnd` means the same within it. In `codec` the lengths 1, 13, 256 and 269 and
the numbers 5 to 300 meet every form of a header. Three routes are a route, one
under it and "/". `Blocks`, `NonSends`, `PeerRejects`, `Rounds`, `Clears`,
`MaxCalls`, `MaxFaults`, `MaxHops`, `MaxOptions`, `Notes`, `MaxAdds` and
`MaxErrors` are named CONSTANTS that only bound how often something happens.

**Deadlock** is not checked: in every module the system may stop, when all Sends
have returned, all senders are done, or all messages are handled.

**Fairness.** `Exchange`: weak fairness for each Send's timer branch; the Go
runtime fires timers, and nothing at all is assumed of the peer, the network or
the handlers. `Nstart`: weak fairness for a sender that is at an entry's lock and
for one whose `send()` has to return, which is `SendReturns`. `Observe`: weak
fairness for the application's calls (again `SendReturns`) and for handlers, which
run to their end; of the peer, that one which still observes goes on to notify,
and of the network, that it does not lose every notification or every Reset
(strong fairness for their arrival). Without the last two nothing could ever stop
a peer whose cancellation was lost. `Server`: a read on a closed socket ends, as the
sockets of Go promise, and a goroutine that is not in a read goes on (weak
fairness of each); nobody has to call `Close`.

Nothing obliges a sender to call again, and `WaitersEnter` is claimed for a
bounded number of calls without `NstartClear`: with it waiters are stranded, and an
endless stream of newcomers may overtake a waiter for ever. Both are recorded as
hazards.

**What the properties except.** Several say under which disturbances they do not
hold; each exception is one that TLC needs. `UploadWhole` fails when copies of one
block pass deduplication, when two blocks of one upload are appended at the same
time, and when two Sends use one key. `DownloadInOrder` fails with a late response
among the blocks, and when a delayed middle block is appended to a cached reply.
`EchoEnds` fails where deduplication replays the reply to another message, and
where half an upload is served as a reply. `ConfirmableAnswered` lists the paths
without an acknowledgement. `UndisturbedSucceeds` is about confirmable Sends, since
the others get no response, and `EstimateIsExact` about messages that were not
received, with eight bytes more for a token drawn after the estimate. `DropsHaveReason` has the notification that overtakes
`Observe`.

Every property has a mutant: a plausible fault in one mapped definition (they
are the operators marked *Fault* just before it) under which TLC finds the
property violated.

## 4. What is proved

Eight modules hold proofs: `ExchangeProofs`, `NstartProofs`, `DedupProofs`,
`BlockTransferProofs`, `DispatchProofs`, `ObserveProofs`, `ServerProofs` and
`CodecProofs`. Together they prove every safety invariant of every passing run, and the
refinement, as `Spec => []Property`, and the action property `EstimateIsExact`, for all values of the constants that satisfy the
named ASSUMEs (finitely many senders in `Nstart`; nothing is assumed finite in the
others). Three theorems about `Codec` have one more hypothesis, which is named below. The
argument is the same in each: a conjunction `Inductive`, stated at the beginning
of the module, holds initially, is preserved by each action, and implies the
properties. Each was given to TLC as an invariant of the run before it was proved.

- *Exchange.* `pendingMap` leads only to the current call of that Send and only
  while no response has claimed it (`TablesSound`); therefore a call is claimed
  by at most one response (`MatchesSound`), what is in a channel was put there by
  a handler that claimed the call (`ChannelsSound`), and a full channel at the
  moment of delivery means an empty acknowledgement. `RoundsCounted` relates the
  rounds of the retry loop to transmissions.
- *SendPromise.* `ExchangeProofs` also proves `Spec => ImplementsPromise`. `StepKinds`
  sorts the actions of `Exchange` by what a caller sees of them: a call begins,
  fails, is answered, or nothing happens; each kind is a step of the promise or a
  stutter. Two facts are needed of the states: `EarlierAnswered` (every call but the
  last has been answered with a response, an invariant beside `Inductive`), so that
  the answers of a Send form a sequence, and `ChannelsSound` with `MatchesSound`, so
  that what is taken from a channel belongs to the Send.
- *Nstart.* `Accounts`: the count of an entry is its holders, plus the slots
  that were never given back, less the decrements of senders that held none. It
  turns the test of `nstartInc` into `SlotLimit`. `WakeupsCover(limit)`: where
  someone waits, at least `limit - count` waiters are woken; it is kept for every
  limit that no sender undercuts, by a `Signal` for each decrement, and for
  limit 1 it gives `StrandedOnlyByClear`.
- *Dedup.* `RecordsSound`: where a copy was recorded an entry stays, and an entry
  is a copy of the right message in the right endpoint. `DeadlineKept` says when
  the watcher can no longer take the deadline of the endpoint in the map.
- *BlockTransfer.* The steps are sorted first: those of Send into another call or an
  end (`ClientKinds`), those of a handler into the four of an upload, an answer, and
  a reply put in the cache (`HandlerKinds`); each part of the invariant is then kept
  by a few kinds. `WireSound` has what no step takes back: a block is sent only after
  the server has accepted the one before it, and a block of a reply is asked for only
  after a response has had one. For `DownloadInOrder` a Send whose reply has once been
  in the cache finds only replies there that are as they were put (`RepliesInPlace`),
  so a response has the one block asked for (`ResponsesInPlace`), and the client has
  as many pieces as its number says (`DataInPlace`). For `UploadWhole`, `UploadKept`
  says that from the first Continue on there is one entry that holds the body up to
  its last accepted block; a handler works on that entry, or, if it is late, on a
  reply, and that only after the last block has come. The last block comes once
  (`LastIsFirst`) and after all others are accepted, so what is put together is the
  body (`ReassembledWhole`). `RunsOnce` and `UndisturbedSucceeds` rest on the plan of
  a Send that nothing has disturbed (`CallsInLine`): its calls are the blocks of the
  body and then those of the reply, each handled and answered before the next, so
  only the last call is at work. Until the callback runs, the cache holds the blocks
  handled so far (`BodyInLine`); from then on there is one run, on the whole body,
  its reply is in the cache unless it went out whole, the responses are of it, and so
  is what the client has (`ReplyInLine`). `InLine` gathers this for one Send. Steps of
  other Sends that leave it undisturbed do not touch the cache (`OthersLine`); its own
  are one call or one block further (`ClientLine`, `HandlerLine`). The plan knows
  nothing of other Sends but that they stay away, so it holds beside any number of
  them.
- *Dispatch.* `Rank` says how many messages in a row a message can set off at the
  most: none for a Reset, four for a request that may be answered with the first
  block of a large reply. `RankBounds`, that hops and rank of what is under way
  stay within four and two more for each further block fetched, is kept because every
  handler answers with messages of a lower rank; the replays and half uploads that
  `EchoEnds` excepts are the ones that do not. A retrieval sends its requests and its
  reply because of the block it had last, and `FetchesOK` says that this block
  leaves room for them. So the bound holds for any chain, notifications of any number
  of blocks and any contents of the caches, whatever `MaxHops` is. For
  `ConfirmableAnswered` the replies on each way through the handlers are followed to
  their IDs; replies out of deduplication need `EntriesEcho`, ranks of replies out of
  the cache need `CachedReplies`, and a retrieval that has written its early
  acknowledgement has answered (`FetchesOK`).
- *Observe.* `StoredWhileObserving` and `SteadyFindsCallback`: as long as the
  observation is in place, no handler that came to it can miss it.
  `ArrivalsInOrder` relates what a handler remembers of the application (`since`)
  to where that is now, and `NothingCancelled` keeps the Resets of unknown
  notifications out of the way until `ObserveCancel`. `SteadyIsHeard` is part of
  the invariant; `DropsHaveReason` follows from it.
- *Server.* The tree and the list of calls of `AddRoute` agree in both directions:
  a callback in the tree is that of a route that counts and at the node of its
  pattern (`CallbacksLive`), and a route that counts has its callback there
  (`RoutesKept`). The first, with `WalkFits` (a walk is at a node that fits the
  path so far), gives `GivenToItsRoute`; the second, with `PrefixClosed` and
  `MatchReaches` (a walk along the names of a node, with `Elsewhere` for its "*",
  ends at that node), gives `RouteReachable`. `FoundInTime` carries what a request
  was given over later calls of `AddRoute`. `CloseInOrder` gives
  `OneReader`: at most one goroutine of a listener is anywhere in `reader()`, exactly
  one while it is open, and a reader that is past the flag when `Close` sets it is the
  only one that can still start another.
  Paths and patterns are of any length: the walk and the parts of a pattern are
  recursive functions of a number. That such a function exists (`RecursionExists`)
  and what each of its values is follow from the least number at which they would
  fail to (`LeastNumber`, from the well-foundedness of `<`), in place of the
  induction theorem that the provers cannot instantiate.
- *Wire and Codec.* For all inputs, block options (`BlockRoundTrip`), integers
  (`IntRoundTrip`) and extended deltas and lengths (`ExtRoundTrip`) are read as they
  were written, and a change to smaller blocks leaves no gap and no overlap
  (`ResizeKeepsOffset`; with a larger size, which no peer may ask for, `Send` would
  skip a part of the body). On these rest the invariants of whole messages.

  *What is kept by the steps.* `BuiltInv`: the message holds the options of its
  builder, sorted or not. That is `SameOptions`: for each number the same
  options in the same order, which no sort that is stable disturbs (`SortedFacts`),
  which `WithOption` and `RemoveOption` keep (`ChangeKeeps`), and which two sorted
  lists satisfy only if they are equal in every number. And there is one Block1,
  that of the last `WithBlock1`. `WrittenInv`: an estimate of a message that
  is not yet written, or a datagram, is that of the message as it is now, and its
  options are sorted (a list in order is left
  as it is by a second sort, `SortedFixed`). From `WrittenInv` and `ChunksFacts`, that
  the bytes written are as many as the bytes counted and all are bytes,
  `EstimateIsExact` and `TypeOK` follow, for every message; `DrawnFacts` and
  `WriteMeasured` follow the token that `send()` may add in between.

  *What the reader makes of it.* One round of its loop takes exactly one option from
  what was written (`OneRound`, from the round trips above), so after as many rounds
  as there are options, it has those it keeps and stands at the end or at the
  payload (`RoundsOfChunks`, `ParseToEnd`). Rounds after the end change nothing
  (`EndedStays`), so it does not matter which ended round `ParseOptions` takes
  (`ParseAt`). A cut inside an option is detected in the round that reads it
  (`CutChunk`); hence the loop ends there with an error, or after the last whole
  option or inside the payload, with a prefix of each (`ParseCut`). The options of
  one number among those read are the ones `BuiltInv` speaks of, which gives
  `RoundTrip`, `CutIsPrefix` and `LatestBlockIsRead`.

  *What is assumed.* `WideNumbersStayUnknown`, in these three: where a peer's option
  number exceeds a byte, what is left of it in an `OptionID` is not the number of an
  option this library knows. It speaks of peers only, since an application cannot
  write such a number, and without it the three are false, as finding 1 in section 5
  shows. `TokenLengthFits` is part of the same three properties: a token of 16
  bytes or more would be written with the wrong length.

  *How lists of any length are dealt with.* `Only`, `Sorted`, `Chunks`, `OptionsSize`
  and `Rounds` are recursive functions of a position; that each is what its
  equation says, and what it is after one more element (`OnlyAppend`, `ChunksAppend`,
  ...), is shown by the least position at which it would fail to be. `AppendInduction`
  does the same for lists: what holds of the empty list and survives one more element
  holds of all, or there would be a shortest exception. Both are stated for sets
  instead of predicates and so need no theorem with an operator parameter.

Only model-checked: the liveness properties `SendReturns`, `WaitersEnter`,
`CancelSticks` and `ReadersEnd`. Liveness under fairness is out of the proof system's reach. The two
refuted statements of section 5 have runs with counterexamples.

## 5. Where code and comments disagree

Two statements of the repository that the code refutes; each has a run with a
shortest counterexample.

1. *Unrecognized options are skipped* (`message_options.go:168`): the number is
   narrowed to 8 bits first (`message_parse.go:321`), and option 267 is read as
   option 11, Uri-Path.
2. *A duplicate gets the cached response* (`handler.go:50`): deduplication goes by
   address and message ID alone (`dedup.go:28`), so a non-confirmable response
   whose ID is that of an earlier request from the same peer counts as its
   duplicate. The response is not processed, and the old reply goes out again; two
   endpoints that both have such an entry replay to each other for ever.

Other behaviour that the models show and that no comment speaks of: half an upload
in the cache is served as a reply to a request with block2 (`handler.go:101`), as
a message of the type and code of the upload; a confirmable message answered in
that way, or on one of the paths that `ConfirmableAnswered` lists, gets no
acknowledgement; an acknowledgement of a notification with ID 0 gets another ID
(`send.go:141`); a response without block2 in the middle of a download, and a
callback that returns nil for a non-confirmable request, end the program
(`send.go:100`, `handler.go:169`), and so does the first block of a Send that is not
confirmable (`send.go:52`); a confirmable message without a token is up to eight bytes
larger than `RequiresBlockwise` took it to be (`send.go:30`, `handle_ack.go:14`), and
one that was received is measured as it was (`message.go:97`); a notification whose
early acknowledgement could not be written but whose blocks could be fetched stays
unacknowledged (`handler.go:125`); a Reset is logged while its message goes on
being transmitted (`handler.go:37`).

## 6. Not modelled

- Logging, sniffing, constants and the table of errors: output and names.
- Sockets and DTLS: external; their failures are `StartFails`, `RetransmitFails`,
  `ReadEnds`, an early acknowledgement that is not written, and the peers of the models.
- The proxy listener: synchronous calls through a callback of the application.
- `nstartCount`, `NstartEntryCount`, `ObserveTokens`, `BlockCacheSize`: they only
  report (the last asserts a type that the cache does not hold and would panic).
- The values of the configuration; PathVars; path and query strings; payloads
  beyond blocks.
- A route tree in the middle of a change: Go maps without a lock may do anything
  to a reader, up to stopping the program (hazard at `route.go:54`).

## 7. Plan

`Client`: `Nstart` and `Exchange` composed, so that the fairness `Nstart` assumes of
`Dec` is discharged by `SendReturns` inside one model.
