# A TLA+ verification of ChainForge

ChainForge is a blockchain gateway: a Go service that proxies JSON-RPC calls to
a pool of nodes, indexes their chain, publishes what happens as events, and
prepares, simulates, signs and broadcasts transactions with the help of a Rust
signer and a Rust simulation engine. A web console shows the result.

This directory holds models of its stateful core, the TLC configurations that
check them on small instances, and TLAPS proofs for every value of the
constants. Paths below are relative to the repository; `gw/` abbreviates
`services/gateway/internal/`.

    tlc -config MCIndexer.cfg MCIndexer        # one run
    tlapm IndexerProofs.tla                    # one proof module

## 1. Inventory

| Part | State | Operations | Talks to | Hard behaviour | What makes it correct |
|---|---|---|---|---|---|
| Event log `gw/eventlog` | partitions, commits, map of subscriber channels | Append, Read, Commit, Committed, Subscribe, cancel | indexer appends; SSE handlers and the webhook dispatcher subscribe | producers never block: full channels are closed, concurrently with the readers' cancel | no gaps, no double close, per-key order, only the slow are evicted |
| SSE stream `gw/server` `stream` | one subscription per client | receive loop | event log, HTTP client | ends by disconnect or eviction; a write may stall with its client | same; a stalled client holds up nobody else |
| Webhook dispatcher `gw/webhook` | registrations, one subscription | Register, Remove, List, Run/Deliver/post | event log, HTTP handlers, remote endpoints | sequential fan-out with retries while the log moves on; lost answers; shutdown | in-order, at least once or exhausted, removal effective, shutdown ends it |
| Indexer `gw/indexer` | window of blocks | Sync, Run, Blocks, Head | upstream pool, event log, HTTP readers | reorgs and node switches between any two RPCs of a pass; errors after events were published | one branch; log replay equals the chain; converges |
| Chain simulator `gw/chainsim` | chain, salt | Mine, Reorg, RPC | indexer (through the pool) | reorganises at any time | never loses genesis |
| Upstream pool and breaker `gw/upstream`, `gw/breaker` | per endpoint: state, failures, probe flag, time opened; round-robin counter | Call, Allow, Success, Failure | indexer, proxy, intents, relay | reports arrive late, after the breaker moved on; timeouts; many callers | one probe; no endpoint shut out; exhaustive failover |
| Rate limiter `gw/ratelimit` | bucket per client | Allow | proxy | lazy refill, truncation | admitted <= burst + rate x time |
| Cache `gw/cache` | LRU list, map | Get, Set | proxy | capacity and TTL edges | list and map agree; nothing stale or null is served |
| Proxy and routes `gw/server`, `gw/jsonrpc` | none of their own | proxy, sign, intents, broadcast | all of the above | order of limiter, cache, pool | errors are never cached |
| Intent service `gw/intent` | none | account, PrepareEVM | pool, engine, signer | account read by several RPCs; limit and price set after the simulation | what is signed is a call that was simulated with success |
| Solana source `gw/solana` | none | Head, Block | pool, indexer | heights are contiguous, slots are not: four calls per block, each to any node | answers as one node would at one moment; finds what is within the lookback |
| Signer `services/signer` | audit trail, keys, policy | sign, sign_tx, record | gateway | timestamp window, limits at their edge | nothing outside policy is signed; every decision is audited |
| Engine `services/engine`, `crates/chaincore` | none | simulate, encode | gateway | numeric edges | codec round trips |
| Console `apps/web` | query cache | useBlocks, useBlockStream | SSE, REST | stream races refetch | list converges to the indexer's chain |
| Lifecycle `gw/app` | contexts, error channel | Serve | all | a listener that fails, a caller that cancels, a pass or a delivery under way, open streams | Serve returns and the goroutines it started end |

What is hard to test in this code, with the line where it bites, is the
`hazards` list of `PROJECT.json`; the properties below are chosen from it.

## 2. Modules

| Module | Models | Composes |
|---|---|---|
| `EventLog` | `gw/eventlog` and its receive loops (`gw/server/server.go` `stream`) | |
| `Webhook` | `gw/webhook` | extends `EventLog`: the dispatcher is subscription 0 |
| `Feed` | nothing of the code: what the stream of block events promises a consumer | |
| `Indexer` | `gw/indexer` `Sync`/`Run` over `gw/chainsim` nodes | node and indexer in one state machine; implements `Feed` |
| `Source` | what `gw/indexer` expects of its interface `Source` | |
| `Solana` | `gw/solana` `Head`, `Block` | nodes and one call in progress; implements `Source` |
| `Gateway` | `gw/app` `Serve`, the goroutines of `gw/indexer` `Run` and `gw/webhook` `Run`, a connection's handler | extends `Solana`: the polling goroutine is its caller |
| `Upstream` | `gw/upstream` `Call` and `gw/breaker` | pool, breakers, callers, clock |
| `RateLimit` | `gw/ratelimit` `Allow` | clients, clock |
| `Cache` | `gw/cache` `Get`, `Set` as operations on a cache | |
| `CacheUse` | one cache under a clock, with its history | extends `Cache` |
| `Edge` | `gw/jsonrpc` `Serve` and `gw/server/server.go` `proxy` | extends `RateLimit`, instance of `Cache`; concurrent handlers, the nodes' chain |
| `Signer` | `services/signer` routes, authentication, policy, audit | concurrent requests, clock |
| `Intent` | `gw/server/intents.go` `doIntent`, `gw/server/server.go` `sign`, `gw/intent` `PrepareEVM`, `SimulateSolana` | extends `Signer`: its calls are the intents; chain, engine outcomes |
| `Wire` | `gw/pbwire`: what is written for a field, which fields a message has | |
| `EngineCall` | `gw/engineclient` `Encode`, `Decode`, `Simulate` and `gw/grpcx` `Invoke` | extends `Wire`; the engine's side and the transport |
| `MC*` | model values for TLC | |
| `EventProofs` | theorems about `EventLog` and `Webhook` | |
| `IndexerProofs`, `UpstreamProofs`, `CacheProofs` | theorems about the module they are named after (`CacheProofs`: `CacheUse`) | |
| `EdgeProofs` | theorems about `RateLimit` and `Edge` | |
| `SignerProofs` | theorems about `Signer` and `Intent` | |
| `SolanaProofs` | theorems about `Solana` and `Gateway` | |
| `EngineCallProofs` | theorems about `Wire` and `EngineCall` | |

Definitions whose comment begins with "Mutant" describe plausible bugs. They are
used by no specification; substituted for the definition that follows them they
make TLC violate the property they are paired with in `PROJECT.json`, which
shows that the property depends on that piece of code.

### EventLog

`parts`, `subs`, `nextSub` are the fields of `Log`. A subscriber's channel is
`queue[id]` with capacity `cap[id]` and a flag `closed[id]`; `loop[id]` is its
receive loop. `AppendEvent` is all of `Append` under the mutex: record, offers,
evictions. `cancel` is the returned closure, executed as part of the loop's two
exits, `Leave` (context done) and `SeeClosed` (channel closed and drained).
Receiving takes no lock and is a step of its own; until `Handled` the loop is then
`busy` with the event: the SSE handler writes and flushes it to its client (and a
greeting before its first receive, so `Subscribe` may leave a loop busy), which can
take for ever, the dispatcher delivers it. The ghosts `history`, `start`
and `rcvd` record what was appended, where a subscriber joined and what it got.

Abstracted: keys and payloads are model values, the hash is a constant function
`KeyHash`. Marshalling errors return before any change. `Read`, `Commit` and
`Committed` have no caller in the repository and are left out (section 6).

### Webhook

`dpc` is the program counter of `Run`: `select`, `post`, `sleep`, `stopped`.
`Take` receives an event and snapshots the registrations (`todo`, a set that is
served in the order of the ids, as `List` sorts them);
`Post` is one HTTP attempt with three outcomes (accepted; failed before the endpoint
saw it; seen by the endpoint but reported as failed); `Wake` ends the backoff and
`Delivered` the delivery. A post that times out and reaches the endpoint only after a
later one is not among the outcomes: the order in which an endpoint works on the
connections it has accepted is its own. HTTP handlers (`Register`, `Remove`), the
indexer (`Publish`) and the shutdown (`CtxDone`) interleave with every step. After
`CtxDone` a post fails without being sent, but sleeping and retrying go on, as in the
code, whose sleep does not look at the context. Ids are registration numbers; body
signing and URL validation (a precondition) are left out.

### Indexer

A block hash covers the parent's hash and the salt, so a block *is* the sequence
of salts up to it: equal hash means equal history, `Parent` drops the last salt.
`tip[v]` is node `v`'s chain. `Sync` is cut at every RPC: `SyncStart` (head and
copy of the stored chain), `UnwindMatch`/`UnwindPop` (one tip check),
`FetchNew`/`FetchMismatch` (one block), `SyncError` (any other RPC error) and
`Store` (the deferred store on all exits). Each RPC may be answered by a
different node. Emitting an event is part of the step that emits it; the ghost
`live` is what a consumer that replays the log holds: `block.new` adds,
`block.reorged` removes. `lost` records that an unwind used up the whole window
while older announced blocks remained: the code keeps no record of those, cannot
retract them, and the replay property excludes that situation explicitly.

`ImplementsFeed` says the same as a refinement, with `held` as `live`, `top` as
the ghost `high` and `broken` as `lost`. `Feed` has two steps, `Announce` a child
of the tip (or any block, to a consumer that holds nothing) and `Retract` the tip;
it may break its promise only with a retraction that completes a whole window.
Unlike the invariants, it constrains every single event, and so the order in which
one pass publishes them.

### Solana, Source

A node's `ledger` is a sequence of blocks, each with its slot; heights are
positions in it. `Produce` adds a block in any later slot (the slots between are
skipped), `Follow` makes a node take over the ledger of another (catching up,
changing branch, or falling behind). `Block` is cut at its four calls, `AskHead`,
`AskSlot`, `AskBlocks`, `AskBlock`, each answered by any node, with the early
returns of the code; `CallFails` covers every error of `gw/rpcx`. As in `Indexer`,
a block is its history.

`Source` is the interface as the indexer uses it: a block, "not found" or an
error, the first two being what some node would answer *at the moment the call
returns*. `ImplementsSource` shows that this survives the four calls.
`StillAnswered` is the converse, that `Block` is of use: under the ghost `calm`
(the nodes agreed from the start of the call on and nothing failed) a height above
the head is not found, a height at most `Lookback` slots below the last slot is
found, and an older one is an error. An indexer whose tip is that old gets an error
in every pass from then on: the fairness under which `Indexer` converges does not
hold over this source after such an outage.

### Gateway

`serve` is where `Serve` is: `setup`, `select`, `closed` (between `Close` and
`Shutdown`), `returned`. `server` is the goroutine of `srv.Serve`, whose error goes
into `errc`, a channel with room for one; a goroutine that finds it full waits.
`ctx` is the caller's context and `bg` the one derived from it, which the deferred
`stop` cancels. `loop` is the goroutine of `indexer.Run`: a pass (`begin`, `sync`)
that asks the Solana source for blocks, then the `select` over ticker and context.
The heights that a pass asks for are any: what the indexer makes of the answers is
`Indexer`. A call under a cancelled context fails. Loading the engine's
certificates may fail before anything is started (`SetupFails`).

`hooks` is the goroutine of the dispatcher, whose inside is `Webhook`: it may end at
any time, by eviction (finding 1), and does end once `bg` is cancelled
(`ShutdownStops` of `Webhook`). `conn` is a connection with its handler, which returns
when it likes and need not return at all while its client is there. `Close` drops the
connection; the handler runs on until it notices.

Two comments of `gw/app/app.go` say more than the code does: `Serve` "then drains"
(line 154), by "close then wait for handlers" (line 205). `Close` drops every
connection and forgets it, so `Shutdown` has none to wait for, and `Serve` may return
while handlers still run; when the listener fails `Serve` returns at once and leaves
open connections alone. `NothingLeftRunning` therefore claims no more than that the
goroutines end in both cases, and that handlers end, at some time, after `Close`.

### Upstream

The four breaker fields per endpoint, the round-robin counter modulo the pool's
size, and per caller its place in the loop of `Call`. `Allow` and sending the
request are one step (`Try`), so are the end of a try and its report
(`Answered`, `TryFailed`). `age[e]` is the time since the breaker opened and
`ttl[c]` the time the HTTP client still grants a try; `Tick` advances both and
has to wait for a try whose time is up. `failures` is counted up to `Threshold`,
beyond which the code does not distinguish values. The model assumes
`Timeout < Cooldown`, which is how the gateway configures its pools (5 s, 10 s,
`gw/app/app.go` line 156); the scheduling delay between the breaker's answer and
the request, and between the response and the report, is taken to be below the
difference.

### RateLimit

`buckets`, `tokens`, `last` are the map and the fields of its buckets. `Allow`
holds the mutex throughout and is one step with two outcomes, `Admitted` and
`Denied`; both store the refill (`Filled`) and its time. The wait that a denial
announces is only text of an error message and is left out. Tokens are counted in parts (`Unit` per token, `Rate`
per tick), so the code's `float64` is exact here: its rounding is left out. The
clock advances between any two calls; `time.Now` readings are monotonic.
`since`, a ghost, counts admissions per starting time. The module is checked
through `Edge`, whose handlers are the limiter's callers, and proved on its own.

### Cache, CacheUse

`ll` is the list, most recently used first, and `m` the keys of the map; an entry
is `[key, val, expires]`. `Get` has three outcomes, `Miss`, `Expired` (found past
its time and removed on the spot) and `Hit` (moved to the front); `Set` has two,
`Overwrite` and `Insert` with its eviction. `CacheUse` adds the clock and two
ghosts: when a key was last used, and when and with what it was last stored.

### Edge

A handler of `POST /rpc` works through its batch (`left` requests to go): invalid
elements are answered at once, others take a token (`Limited`, `Admit`), look into
the cache if the method is cacheable (`Cached`, `NotCached`), call a node
(`CallFails`, `CallReturns`) and store the answer unless it is an error or the
literal null. The limiter's and the cache's mutexes are taken in separate steps and
the call in between belongs to nobody, so handlers interleave there. `known` is the
set of blocks the nodes have; it changes at any time (`ChainMoves`). The pool is
represented by the outcomes of a call; its own behaviour is `Upstream`. A response
without a `result` member is stored like any other (`"absent"`): only the literal
null is excluded by the code.

### Signer

A request passes all checks at one reading of the clock (`Accept`, `Refuse` with
the status the first failing check gives), is signed or fails in the backend
(`Sign`, `BackendFails`), and then takes the audit mutex, is recorded with the
time of that moment and answered (`Record`). Handlers interleave between these
steps. MACs are booleans, a transaction is a record of the fields the policy looks
at. `AuditInTimeOrder` assumes a clock that does not go back; the service reads
the system time. `recorded` and `stamped` are ghosts.

### Intent

`step` follows `doIntent`: the reads of `PrepareEVM` one after the other, each
answered by a node at most `Lag` blocks behind; the simulation, whose outcome is
open except that a sender who cannot pay the value is rejected; the decision to
sign; the signer's answer, or `GiveUp` when the gateway stops waiting, which the
signer does not notice. Blocks arrive between the reads, so what the
engine sees may have been the state of no single block; no document promises more
than current reads, and no property claims it. Reading code and gas price is left
out next to balance and nonce; a revert and a halt are one outcome, as `doIntent` treats
them alike; values that do not fit the signer's 128 bits, which it refuses to parse, are
left out. Two transactions are kept apart. `simulated` has what the engine gets
(`Unpriced`: the limit of the request, out of `GasLimits`, and a price of zero) with the
gas the run was charged; `prepared` is what is returned and signed (`Priced`), with the
loaded nonce, the price, and after a success the limit that `GasFor` computes, which the
signer's policy may refuse. `SignedWasSimulated` compares what is signed with the first
of them. `NoKey` covers both a body without `sign` and `/v1/simulate`.
`SignMessage` is the route `/v1/sign`, which passes a message to the signer without
any simulation and shares its error handling; `SimulateSolana` is one call of a
node and never signs.

### Wire, EngineCall

`Wire` is pure: `Uint`, `Raw` and `RawAlways` give the fields that they append, `Put`
the bytes of a message, and `Fields` is the sequence that `Reader.Next` returns
(`ReadField`: one turn of its loop), with its error. Bytes have `GroupBits + 1` bits
and integers `Width` bits; 2 and 7 reproduce the shape of 7 and 64, a last group with
a single bit. Amounts are words of `WordLen` bytes, written in their shortest form by
the gateway (`Word`) and in full by the engine (`FillBytes`).

A call goes through `Call` (or `EncodeFails`, a value that exceeds a
word), `Answer` (the engine decodes the request and gives a response or a status),
`Arrive` (the transport: any prefix of the body, with or without the trailer, any
HTTP status), and `Return` (everything `Invoke` and `Decode` check), or ends in
`GiveUp`. The engine's decoder is generated by prost from the contract; it is taken
to read the same wire format. `Newer` holds what a later version of the contract
may append.

The sets `Request` and `Response` say which messages there are: fields of the types
of the contract, and no nested message longer than a `Reader` accepts (`MaxRaw`, in
the code 2^31 - 1). `MessagesOK` assumes of the constants that the messages are of
these sets, that what a newer engine appends are fields of other numbers, and that
the length of a response fits the four bytes that gRPC has for it.

## 3. Runs

| Run | Bounds | States | Checks |
|---|---|---|---|
| `eventlog` | 2 subscribers, buffers 1 (from 0) and 2, 2 keys, 2 partitions, 4 events | 281 k | channels, gaps, order, eviction only of the slow; readers whose writes return are served |
| `webhook` | 3 events, buffer 1, 2 hooks, 2 attempts | 323 k | delivery guarantees; hooks are served, shutdown ends |
| `webhook-evicted` | same | violation | finding 1 |
| `indexer` | 2 nodes, window 2, heights up to 4, one reorg of depth 1 or 2 per node | 65 k | one branch, replay, refinement of `Feed`; convergence; deadlock |
| `solana` | 2 nodes, slots up to 2, lookback 1, one life of the gateway, one connection at a time | 167 k | refinement of `Source`, what is found; goroutines end, and handlers after `Close` |
| `upstream` | 2 callers, 2 endpoints, threshold 2, cooldown 3, timeout 2 | 29 k | single probe, exhaustive failover without a second try, progress; deadlock |
| `cache` | 3 keys, 2 values, capacity 2, TTL 2, 3 ticks, 5 uses | 84 k | coherence, recency, no needless miss; deadlock |
| `edge` | 2 handlers (symmetric), 1 client, 3 parts a token, 2 parts a tick, burst 2, 3 ticks, cache of 1 with TTL 1, 2 hashes, batches of 2 | 1.05 M | the limit is exact in every interval, also over batches; fitting answers; deadlock |
| `signer` | 4 calls (symmetric), skew 1, 2 ticks, capacity 2, requests at and beyond every limit | 385 k | audit trail, window, policy |
| `intent` | 2 intents (symmetric), 2 accounts, 1 key, 2 blocks, lag 1, 1 tick | 4.9 M | signatures and answers, of intents and of `/v1/sign` |
| `intent-identical` | same, 1 block, the key's owner without funds | violation | finding 2 |
| `engine-call` | 6 requests, 14 responses, 4 versions of the engine, bytes of 3 bits, words of 2 bytes, every cut of every answer | 85 k | requests arrive as meant, no wrong or lost result |

The bounds make the interesting cases happen: buffers smaller than the number of
events (eviction with and without unread events), more events than the buffer
during one delivery, a window smaller than the chain and reorgs as deep as the
window and deeper, two nodes that disagree, stragglers that were sent before a
breaker tripped and report after it, refills that are no whole number of tokens and
buckets that fill up and stay full, skipped slots at the edge of the lookback and
ledgers that swap between two calls of one `Block`, integers that need the last group of a varint,
an answer beyond the largest frame. They stand in for the code's own constants,
which no property depends on beyond being exceeded: channel buffers of 256
(1 and 2 here), an index window of 256 (2), a breaker threshold of 3 (2), four
delivery attempts (2). The log and webhook runs switch deadlock checking
off because their bounded supply of events and subscriptions ends, that of
`solana` because `Serve` returns and the slots run out, those of the
signer, of intents and of the engine call because every request is answered once;
the other systems never stop.

**Fairness.** Goroutines that can run do run (weak fairness of each receive loop at
its select, of the dispatcher, of each caller); every post and every try returns because
the HTTP clients have timeouts, so a delivery ends. Nothing is assumed of a write to an
SSE client (`Handled`): the server sets no write timeout (`gw/app/app.go` line 194), and
`EventuallyServed` promises something only to a reader whose own writes return.
`Indexer` lets RPC errors recur for ever but not at
every attempt of the same step (strong fairness of the successful outcomes): the
poll loop of `Run` retries without end; `Converges` asks for nothing before the
nodes agree for good. `Upstream` assumes that calls keep coming, which that same
loop provides, and that time passes. In `Gateway`, `Serve`, the server's goroutine
and a pass whose context is cancelled go on when they can (a call under a cancelled
context returns at once), the dispatcher ends once its context is cancelled, and a
handler once its connection was dropped (its context is cancelled and writes fail);
leaving the poll loop is strongly fair because ticker and
context may be ready together and Go's `select` then chooses at random. `Mine`, `Reorg`, `Register`, `Remove`,
`CtxDone`, `Cancel`, a failing listener and appends are never forced.

**Finding 1** (`webhook-evicted`). `gw/webhook/webhook.go` line 173 says that
`Run` consumes the stream "until ctx ends". When more events than its buffer holds
arrive before the dispatcher receives, the log evicts it; `Run` then drains its channel
and returns although the context is alive, and `gw/app/app.go` line 193 never starts it
again: webhooks stay silent until the gateway is restarted. TLC's trace is the shortest
such behaviour: no hook is registered, the dispatcher is at its select, and two events
are appended before its goroutine takes one out of a buffer of one. With the code's 256
slots the time for that is a delivery that retries, up to four attempts of up to 5 s and
their backoffs for each hook.

**Finding 2** (`intent-identical`). `README.md` line 102 says "The gateway signs only
after a *successful* simulation of the identical transaction", line 99 "signs the exact
simulated tx"; `docs/adr/0007-simulation-engine-and-intents.md` line 4 and
`contracts/openapi.yaml` line 32 say "identical" too. The simulation runs with the gas
limit of the request and a price of zero (`gw/intent/intent.go` lines 226-228); the
limit and price that are signed are set after it (lines 234-239). The engine reports gas
used after refunds, so a fifth above it need not be enough for a transaction that
succeeded in the simulation, and a sender that could pay the value need not be able to
pay the fee. Nor does `gw/server/intents.go` line 119 compare the simulated `from` with
the address of the key. In the trace a transfer from a funded account is simulated with
limit 100 and price 0, and signed by the key of an account that has nothing, with limit
24 and price 1. What does hold of the signed transaction is `SignedWasSimulated`.

## 4. Proofs

All theorems hold for every value of the constants allowed by the named
assumptions `ConstantsOK`, `WebhookConstantsOK`, `IndexerConstantsOK`,
`SolanaConstantsOK`, `UpstreamConstantsOK`, `RateConstantsOK`, `CacheConstantsOK`,
`EdgeConstantsOK`, `SignerConstantsOK`, `IntentConstantsOK`, `WireConstantsOK`,
`CallConstantsOK` and `MessagesOK`. Except for
`Timeout < Cooldown` (`Upstream`), the messages of the contract (`MessagesOK`, see
`EngineCall` above) and what the code enforces (at least one attempt,
one block in the window, a lifetime above zero) they say no more than that numbers
are numbers. Bounds such as `MaxTime` or `MaxSlot` are constants as well: a theorem
holds for each of them.

* `EventProofs`, the log
  * `TypeCorrect`, then `Delivery`: `MapHoldsOpenChannels`, `GapFree` and
    `LiveSeesAll` together, with the facts that unused ids are untouched and
    that queues respect their capacity. The parts need each other: an append
    extends exactly the runs that reach the end of the log. `MapIsExact` states
    the first of them alone.
  * `Order`: `OffsetsIdentify` and `KeyOrder`, from the invariant that the
    history restricted to a partition is that partition and that every event
    lies in the partition of its key.
  * `EvictionOnlyBehind`: the action property, from `LiveSeesAll` and the
    capacity of a full channel.
* `EventProofs`, the dispatcher
  * The dispatcher is an ordinary reader of the log (`DispatcherIsReader`: every
    step of `Webhook` is a step of `EventLog` or leaves the log alone), so
    `Delivery` holds for it and `Current` is the position of the event in hand.
  * `InLogOrder` (`HooksInOrder`), `AtLeastOnceOrExhausted` (`NoSilentSkip`),
    `RemoveTakesEffect` (`RemovedGetsNoLaterEvent`). The invariant `WInv` adds how
    often each hook was tried for each event: not yet for those after the current
    one and for hooks still in `todo` behind the one being served, `attempt` times
    for that one. What a hook has received is therefore bounded by what was tried,
    and a retry repeats only the last event. Removal needs that `todo` holds no hook
    removed before the current event was taken.
* `IndexerProofs`
  * `TypeCorrect`: in particular `FirstNumber` never underflows and no reorg
    depth loses the genesis block.
  * `FeedCorrect`: `OneBranch` (alone in `ReadersSeeOneBranch`), `TrackedIsLive`,
    `ReplayIsBranch`. The inductive
    invariant adds that numbers rise by one along the tracked chain
    (`Numbered`); hence the block an unwind retracts is above every other live
    block (`TipIsHighest`) and no live block loses its parent. `PopBranch`,
    `PushBranch` and `ShiftBranch` are the three ways the chain changes.
  * `Refinement`: `ImplementsFeed`. On top of the invariant of `FeedCorrect` it
    needs that `high` bounds the numbers of live blocks and that blocks which left
    the tracked chain alive lie a whole window below it (`HighInv`). Then an unwind is a
    `Retract` (`PopStep`), a fetched block an `Announce` (`PushStep`), and every
    other step leaves the feed alone (`QuietStep`).
* `SolanaProofs`
  * `Refinement`: `ImplementsSource`. The only invariant is that ledgers are
    non-empty sequences (`Ledgers`); no fact about what
    earlier calls returned is needed, because the answer is decided by the last
    call alone, `AskHead` for "not found" and the comparison of the height in
    `AskBlock` for a block. That is what the comparison is for.
  * `AnswersWhenCalm`: `StillAnswered`. Here the earlier calls do matter: while the
    nodes agree, what `Block` was told is what every node would say now (`Calm`).
    Slots rise with the height (`Rising`), so the blocks up to a slot are the first of
    a ledger (`UpToFacts`, by the least index that is not among them) and counting
    back from the end of the window finds the height that was asked for, or leaves the
    window just when its slot is more than `Lookback` before the last (`InWindow`).
  * `GatewayTypeCorrect`: `GatewayTypeOK`, whose content is that `Block` never
    counts back beyond its list, that `errc` never holds two values and that the
    background context ends with the caller's. `PolledSource`: every step of
    the gateway is a step of the source or leaves it alone (`LoopUsesSource`), so the
    two results above hold in the polling loop.
* `UpstreamProofs`
  * `TypeCorrect`.
  * `OneProbe`: `SingleProbe`. Not inductive alone: it needs that a try in
    flight to an open breaker's endpoint ends within `Timeout` of the opening
    (`PartStragglers`). With `Timeout < Cooldown` no straggler is left when the
    first probe is admitted, and the probe's own report is then the only one.
  * `TriesOnce` (`NeverTwice`) and `FailoverExhaustive` (`NoUpstreamIsExhaustive`).
    The invariant `Walk` says that a call in turn `i` has a verdict on exactly the
    first `i` endpoints from its start; that the walk modulo the pool's size meets
    each endpoint once is arithmetic (`Slot`).
* `EdgeProofs`
  * `ExactLimit`: `WithinRate` and `DeniesOnlyAtLimit` (alone in `NoUndueDenial`).
    Neither mentions the
    bucket; the invariant `Account` does: up to the last refill, admissions plus
    the tokens left stay within the allowance of every interval and use up that
    of some interval exactly, the one that starts where the bucket was last
    full. `FilledFacts` carries it over the pending refill.
  * `ExactAtTheEdge`: the same for handlers that share the limiter, because a step of
    a handler is a step of the limiter or leaves it alone (`EdgeUsesLimiter`).
  * `TokensPaidFor`: `ServedWithinRate`, from `Balanced`: the admissions of a client
    are the requests served for it plus the handlers that hold one in their hands.
  * `CachedAnswersFit`: `CachedReplyFits`. Every entry of the cache is a node's answer
    under the key of its request, stored `TTL` before it expires (`GoodEntry`), whatever
    the list operations do to it; and the key determines the request.
* `CacheProofs`
  * `StaysCoherent`: `Coherent`, over the effects of the three list operations.
  * `KeepsTheRecent`: `HitIsLastStore` (alone in `HitIsCurrent`) and
    `EvictsLeastRecent`. Neither mentions
    the order of the list; the invariant does: the list is sorted by last use, so
    its end is older than everything else in it and what was evicted is older
    than all that stays.
  * `EvictsOnlyWhenFull`: `MissesOnlyWhenFull`. `Room` keeps count: for a live entry
    that was evicted, the keys used since include at least those of the full list it
    was evicted from, and their number never shrinks.
* `SignerProofs`
  * `TrailKeepsTheEnd`, `TrailNeverGoesBack`, `NoUnrecordedSignature`, `DefaultDeny`:
    `AuditIsRecent`, `AuditInTimeOrder`, `AnsweredIffRecorded`, `SignedByTheRules`.
    The invariant `SignerInv` ties each call's place in its handler to what it has on
    record, and the trail to the end of the ghost that records everything.
    `SignedByTheRules` is stated without the order of the checks: a fitting MAC, the
    window in both directions, a configured key, and each limit of the policy for a
    transaction or the size for a message. `Lawful` says it of one request,
    `ChecksAreTheRules` that the code's cascade of checks lets pass nothing else.
  * `OnlySimulatedIsSigned` (`SignedWasSimulated`) and `AnswersAreHonest`
    (`HonestAnswers`) for `Intent`. `SameCall` compares what was simulated with what was
    prepared from it; that the new limit is at least the gas charged is arithmetic on
    `GasFor`. Per intent, `Own` says what holds in each phase of
    gateway and signer together: the signer has not heard of it (`Unheard`), the
    gateway decides (`Decided`), the signer was asked (`Asked`), the client was told
    (`Told`). A gateway that gives up waiting answers "unavailable", which promises
    nothing; any other answer is given after the signer's own or without asking it.
  * `GatewayMeetsThePolicy`: the four properties of the signer when its requests come
    from intents.

* `EngineCallProofs`
  * `CodecRoundTrip`: whatever `Encode` writes, the contract's reader takes for that
    request, and `Decode` takes what the engine writes for that response, also when
    fields of a newer contract follow. The argument goes up the layers of the format.
    A varint ends at its first byte without the continuation bit and has no more
    groups than `Reader.varint` reads (`PutVarintShape`, by induction over the groups;
    `MaxGroupsFacts` is where rounding up matters), so it is read back with what
    follows it left alone (`ReadVarintPut`). The same holds of a field
    (`ReadFieldPut`) and of all fields of a message (`FieldsPut`). `Segment` and
    `Contents` say which values a message has under each number, put together field by
    field, an omitted zero being no value and an element of a repeated field always
    one. Words are read back from both of their forms (`WordBack`). From these,
    `SlotBack`, `AccountBack`, `RequestBack`, `LogBack`, `ChangeBack`, `ResponseBack`.
  * `RequestMeansTheSame` (`RequestArrives`), `NoPartAnswer` (`NoWrongResult`),
    `WholeAnswerReturned` (`WholeResultReturned`). The invariant `CallInv` says what is
    under way in each state of the call: the frame of the request, the frame of the
    reply, then a prefix of it. That a proper prefix is refused is `UnframeCut`: its
    header still gives the length of the whole message (`BytesBack`), which is not
    that of the body; and a body that `Invoke` stopped reading is such a prefix
    (`SimulateCut`). `CallInv` was checked with TLC on the instance of `engine-call`
    before it was proved.
  * The codec is defined by recursive functions, and the library's induction theorems
    have operators as parameters, which the provers cannot instantiate. The module
    therefore derives its own induction from the well-foundedness of the numbers, with
    sets in place of predicates (`Least`, `Induction`, `MeasureInduction`), and shows
    that a recursion whose argument grows smaller has a solution (`Recursion`); hence
    each function satisfies its defining equation (`Pow2Facts`, `PutVarintDef`,
    `LowFirstDef`, `FieldsDef`, `BigEndianDef`, and `FlatSnoc` for the library's
    `FlattenSeq`).

**Only model-checked.** Liveness under fairness (`EventuallyServed`, `HookServed`,
`ShutdownStops`, `Converges`, `NothingLeftRunning`, `ProbedAgain`, `ProbeDecides`),
which this prover does not do. All other properties of the passing runs are theorems.
The typing of `EventLog`, `Indexer` and `Upstream` is proved and is no invariant of a
run.

## 5. Plan

The order was: event log and webhooks, the indexer, the upstream pool, the request
path (limiter, cache, proxy, intents, signer, engine call), then the abstract feed,
the Solana source and the gateway's life; then the proofs, from the log outwards, the
codec last. What is left is the indexer over `Source`: that a pass may take its answers
from any implementation of `Source`, which would join `Refinement` of `SolanaProofs`
to `FeedCorrect`.

## 6. Not modelled

* `Read`, `Commit` and `Committed` of the event log: each is one access under the
  mutex and nothing in the repository calls them; what could go wrong between them
  depends on a consumer that does not exist.
* The web console: the race worth checking, the stream against a refetch, is decided
  inside React Query and `EventSource`.
* Dialling, TLS and listeners (`gw/grpcx` `Dial`, `services/engine/src/transport.rs`):
  I/O around libraries. `gw/relay` validates one input and makes one call of a pool.
* `gw/keccak`, a bit-level permutation, and RLP with the legacy transaction
  (`crates/chaincore`), pure functions of one input: covered by published vectors.
* `gw/metrics`, routing, CORS, logging and rendering carry no state that a property
  here is about. `LoadConfig` is a pure function of the environment; `SimMain` only
  drives the simulator.
* The EVM inside the engine is a library.
