# A verification of l2longtail in TLA+

l2longtail watches the pools of an Arbitrum whitelist, keeps a graph of their
prices, searches it for loops that gain, prices a loop on chain and trades it
with a flashloan. This directory models the parts of it that keep state and can
go wrong in ways a test hardly reaches: what the event loop interleaves, what
the network loses, delays or reorders, and what a reverted or partly filled
swap leaves behind. TLC checks every module on a small instance; TLAPS proves
the most important invariants for every value of the constants.

## The system

| Component | State | Operations | Talks to |
|---|---|---|---|
| `LogsPoller` (infra/websocket_listener.py) | last block polled, dedup keys, attempt | poll a range of blocks, hand over its logs, back off | RPC manager; callbacks of Process A |
| `WebSocketListener` (same file) | socket, subscriptions, attempt | connect, subscribe twice, read under a watchdog, reconnect | WSS provider; callbacks of Process A |
| `ProcessAIndexer` (process_a_indexer.py) | V3 dedup keys | decode, upsert the token, put an event on the queue | `asyncio.Queue` to Process B; SQLite |
| `ProcessBSniper`, `GraphArbEngine` (process_b_sniper.py) | running flag, seen cycles, results | update the graph, search, quote, simulate, record | graph, oracle, quoter, RPC manager |
| `DirectedGraph` (infra/local_pricing.py) | nodes, edges, their reserves or price | update an edge, find a cycle | called by the engine |
| `RPCManager` (infra/rpc_manager.py) | failover flag, failure count | call with retries and failover, reset, broadcast | two endpoints; rate limiter |
| `LiveExecutor` (infra/live_executor.py), `ex_broadcast` (src/lib.rs) | none: the nonce is the node's | sign, send, send to a relay, send to all | node, relay, execution endpoints |
| `WETHPriceOracle`, `OnChainQuoter` (infra/) | cached price; grid | price with two tiers; quote a grid of sizes | web service, multicall |
| pricing functions (infra/local_pricing.py) | none | amounts out, optimal input | the amounts: scanner and graph; the optimal input: nobody yet |
| `TokenBucketRateLimiter` (infra/rate_limiter.py) | tokens, last refill, lock | acquire | every RPC call |
| `FlashloanExecutor.sol` (contracts/) | balances, allowances | executeArbitrage and sweep for its owner, receiveFlashLoan for the Vault | Balancer Vault, routers |
| `flush_notifications`, signals (orchestrator.py) | the results list (shared), shutdown flag | alert on each result, clear the list | engine; Telegram |
| entry points (orchestrator.py, app.py, scripts/run_live.py) | none | gather the processes, with or without a flush, callbacks and a wrapper | Process A, Process B |
| `seed_whitelist.py`, `seed_v3_pools.py` (scripts/) | config/whitelist.json | crawl two services and overwrite; verify on chain and merge | web services, RPC |
| `FleaMarketDiscovery`, `_build_graph` | the whitelist, read twice | load it for the feed; load it for the graph | the file; listener or poller; engine |

A log travels from a node through the poller (or the WSS listener) and Process
A onto the queue; Process B updates the edge, searches, asks the quoter for the
best size, simulates, signs and broadcasts, and records an `ExecutionState`, on
which the flush alerts. Which pools there are is read from a file that two
scripts write. Everything but the contract runs in one asyncio event loop: a
step between two awaits is atomic, and everything may happen at an await. The
hard behaviours are therefore those interleavings, failing and lagging nodes,
frames out of order on the socket, tasks cancelled inside a lock, one
transaction sent to many endpoints of which some answer, a file that is
truncated before it is written, and, in the contract, partial fills, taxed
tokens and reverts.

What makes each component correct:

- limiter: no window of time lets more calls through than its budget, and
  everybody is served;
- feed to graph: a FIFO that may lose: logs reach their edge in order, none
  twice, and none is passed over that was not dropped;
- listener: it streams only what the provider accepted, and streams again;
- RPC manager: a call ends within its budget of posts, and a dead primary is
  replaced;
- search: a cycle it returns gains, by the weights of its edges, and can be
  traded, and `None` means there is none;
- engine and flush: the best size quoted is traded, no result is lost, none is
  traded twice, one failed iteration does not end the loop;
- delivery: no trade is executed twice, a hash that is reported is not lost, one
  working endpoint is enough;
- whitelist: a file that can be read gives a topology, an engine that runs hears
  of the pools it has edges for, and a crawl repairs what an earlier script left;
- pricing: rounding favours the pool, and the search for a size comes as near to
  the best as rounding lets it;
- contract: a trade is one step seen from outside and takes what its path names,
  no approval lingers, a route of the owner pays for itself.

## The modules

| Module | Models | State and actions |
|---|---|---|
| `RateLimiter` | `TokenBucketRateLimiter.acquire` | Tokens are counted in parts so that fractions are integers. `TakeToken`, `StartSleep`, `WakeUp` are the pieces between awaits; `Cancel` is task cancellation in the lock's queue or in the sleep. |
| `SyncPipeline` | `LogsPoller`, `ProcessAIndexer._handle_sync/_handle_v3`, the queue, `ProcessBSniper.run` up to the edge | A log is its position in the chain; `graph[p]` is the position the edge was last updated from. `PollHead`, `LogsArrive` (the answer of a node that may trail the one asked before), `HandleLog` (`HandleSync` for V2, `HandleV3` with its own dedup `DuplicateV3`), `BatchDone`, `PollFails`, `Consume`; `Mine` is the chain. |
| `LossyFeed` | what a feed promises | `Emit`, `Drop`, `Apply`. `SyncPipeline` implements it: `FeedIsLossyFifo` is its specification with the pools of the chain's logs for what was emitted. |
| `WebSocketListener` | `WebSocketListener.listen`, `_connect_and_stream`, `_subscribe_*`, `_recv_json`, `_dispatch` | Frames in order in `inbox`; the provider's `Answer`, `NewHead`, `Emit` are external. |
| `RPCManager` | `RPCManager.call`, `reset_connection` | One `pc` per caller; the flag and the counter are shared. Endpoints answer `ok`, `down`, `denied`, `limited`, `broken`, `rpcerror`. `polling` says whether one caller is the `LogsPoller`, which resets both. |
| `ArbGraph` | `DirectedGraph` with `find_arbitrage_cycle` | Rates are powers of a base, so weights are integers. `quote` holds what each pool weighs in either direction: a V2 pool its price and the fee (`V2Quotes`), a V3 pool what the probe of 10^18 raw units of the token sold comes to, which may dry up in one direction alone (`Probes`). `Update` starts a search, `RelaxAll` is one in-place pass, `Detect` the last pass, the walk, the reconstruction and the rotation. The reference (`Profitable`, `Reachable`) enumerates simple loops. |
| `GraphArbEngine` | `ProcessBSniper.run` in graph mode, `_scan_cycles`, `_evaluate_cycle`, `WETHPriceOracle.get_weth_price`, `OnChainQuoter.quote_best_size`, `flush_notifications`, the signal handler, `stop()`, the gathers of the entry points | `entry` is the program, `feed` whether `process_a.run()` lives; `FeedDies` is its end, which only the app contains. `pc` is the await the sniper is in. `priced` is the oracle's cache, `GeckoAnswers` and `PoolAnswers` its tiers; `quote` is what the grid answered, any output per size, and `BestSize` the loop over the grid that chooses, one `Better` per turn. The search and the simulation give any outcome their code can. |
| `Broadcast` | `LiveExecutor.sign_calldata`, `execute_calldata`, `send_private_transaction`, `execute_swap`; `RPCManager.broadcast_transaction`, `broadcast_ex`; `ex_broadcast` of src/lib.rs | One action per way to send a trade; `post[t][e]` is the HTTP request that takes trade `t` to `e`, `pool[e]` what `e` holds, `landed` the chain. `NonceRead` is what a node counts; where the wallet of the native way has its nonce from is not in the code (`Filled`). `loop` is the event loop, which the native broadcast blocks. Endpoints, relay, sequencer and shutdown are external. |
| `Pricing` | `get_amount_out`, `v3_amount_out`, `get_amount_out_multi_hop`, `find_triangular_path` and its quotes | Operators on unbounded integers, as Python's; `Q` stands for 2^96. `AfterFee` is `int(amount * fee)`, the product of floats by which two of the three formulas take the fee: a constant, because above 2^53 it rounds. |
| `OptimalInput` | `calculate_optimal_input_size` | Over any `Profit`: `Step` is one comparison of the ternary search, `Scan` one turn of the loop over what is left, `Return` the floor at zero. `Concave(m, d)` says that a profit sags by at most `d` below its chords. |
| `CycleSizing` | `calculate_optimal_input_size` over a list of hops | `OptimalInput` with the profit of a cycle of `Pricing`: what comes out of the chain, less the input and the gas. Nothing calls the function yet; the sniper takes its sizes from `OnChainQuoter`. |
| `Whitelist` | scripts/seed_whitelist.py, scripts/seed_v3_pools.py, `FleaMarketDiscovery._load_whitelist`, `GraphArbEngine._build_graph` | `file` and `disk` are config/whitelist.json, which is torn between `BeginWrite` and `EndWrite`. `GeckoPage` ... `TokenFails` are the answers to one request, `Listing` and `Merged` what the scripts write, `CrawlRaises` a body that no handler takes, `Dies` the end of a script anywhere. `feed` and `graph` are what the two readers made of the file. Which venues are V3 is written down three times, in the feed (`V3Dexes`), the graph (`GraphV3`) and the merge (`MergedV3`). |
| `FlashloanExecutor` | contracts/FlashloanExecutor.sol | `ExecuteArbitrage` is the owner's entry and `LentByOthers` everybody else's, who have the Vault lend to this contract whatever token, with whatever route. One action per step of `_route`; `Swap` is the router: it pulls what it may and delivers anything. `Revert` restores. |
| `AtomicTrade` | the contract seen from outside a transaction | A trade is one step that pays the owner, or no step at all; it takes only tokens on its path, and when the owner began it leaves what else the contract held. `FlashloanExecutor` implements it: `TradesAreAtomic` is its specification under a mapping that shows the balances of the last finished transaction. |
| `MCArbGraph`, `MCGraphArbEngine`, `MCFlashloanExecutor`, `MCOptimalInput`, `MCWhitelist` | pool lists and probes, a grid, call arguments, markets and a coarse float, and offers for TLC | |
| `RpcProofs` (limiter and RPC manager), `SyncPipelineProofs`, `WebSocketListenerProofs`, `GraphArbEngineProofs`, `FlashloanExecutorProofs`, `BroadcastProofs`, `LocalPricingProofs` (`ArbGraph`, `Pricing`, `CycleSizing`), `WhitelistProofs` | inductive invariants and theorems | |

`SyncPipeline` and `GraphArbEngine` compose components: the first runs poller,
indexer, queue and consumer together, the second sniper and flush over the list
they share. They meet at the queue: `GraphArbEngine.Put` is the end of
`SyncPipeline.HandleLog`, and its `Get` is `SyncPipeline.Consume`. `ArbGraph`
is what `GraphArbEngine.Search` abstracts to "nothing, an exception, or a
cycle", and `Broadcast.Shotgun` is what follows `SimulationPasses` when a live
executor signs. `CycleSizing` composes the search for the input with the
profits of `Pricing`. `GraphArbEngine.FeedDies` is what becomes of the phase
"dead" of `SyncPipeline` and `WebSocketListener`; the pools of `SyncPipeline`
are those of `Whitelist.feed`, and its edges those of `Whitelist.graph`.
`Whitelist` composes the two scripts and the two readers over the file they
share.

Operators marked "Fault" are plausible bugs of the definition that follows
them; they are not part of any specification. PROJECT.json says which property
fails when one takes the definition's place.

## The runs

| Run | Bounds | Shows |
|---|---|---|
| `rate_limiter` | 3 callers, capacity 2, 2/3 of a token per tick | `WindowBound`: in every window at most capacity + rate * length calls. The bucket fills within 3 ticks, after which elapsed time makes no difference. `EveryCallReturns` under fairness of the event loop. |
| `sync_pipeline` | a V2 and a V3 pool, 2 blocks of up to 2 logs, heads and answers trailing by 1, 2 failures, 1 dedup key | `FeedIsLossyFifo` (the refinement), `LosesOnlyMissed`, `LogsSettle`. One key is enough for keys to be forgotten while the log is in the queue; two blocks let heads move back and ranges follow one another; two failures reach the backoff that raises. |
| `rpc_manager` | 2 callers, all six answers, 1 change of health | `RetriesBounded`, `CallsEnd`, `FallbackTakesOver`. Two callers are enough for a counter to be moved, or reset, between another call's post and its retry. Both transports; the takeover is promised for WSS, where nobody resets. |
| `arb_graph` | 3 tokens, 4 pools, V2 and V3, with a parallel pair in three orders, V2 prices -2..2, V3 probes on either side of par, moved far by one direction, or dry in one | `FoundIsArbitrage`, `NoArbitrageMissed`, in every reachable graph, against the enumeration of simple loops. |
| `graph_engine` | 2 cycles, 3 events, a grid of 2 sizes quoted at 0..6 with gas 2 and dust 1; three entry points; paper, live, and live with an executor | `BestSizeTraded`, `NoResultLost`, `TradedOnce`; `EventsConsumed`, `ResultsAlerted` under fairness. Two sizes can tie, lose, revert and gain in every order; two results and an alert under way are enough for the list to grow under the flush, and three events for a cycle to be found again. With 3 cycles the run passes too, in three minutes. |
| `ws_listener` | V2 only, 3 drops, refused handshakes, 2 logs, 3 frames in flight | `StreamsWhatIsServed`, `StreamsAgain`, `LogsDelivered` for a provider that answers. |
| `flashloan` | 3 tokens (one taxed), 2 routers, routes of 1 to 3 hops, one not from WETH and one of the wrong length, deliveries 0..2, loans of any token started by others | `NoLingeringAllowance`, `RoutePaysForItself`, `TradesAreAtomic`. A transaction starts while at most 1 of each token is held: enough for a route to spend what was there before. |
| `broadcast` | 2 trades, 2 endpoints of which one fails and is also the executor's node, a relay, nodes that trail by one, wallets that fill in nonce 0, 1 or 2 | `ExecutedOnce`, `ReportedIsNotLost`; `BroadcastsLand` under fairness. Two trades are enough to share a nonce, displace each other and be overtaken. |
| `optimal_input` | 108 cycles of 2 and 3 hops, V2 and V3, with and without gas, bounds 0, 4 and 40, `Q` 1024, a float of 5 bits, at most 4 comparisons, sag up to 2 | `NearBest`, `RoundTripNeverGains`. Real pools meet the precondition: of the 216 markets with a bound of 40, 148 sag by at most 1 and 196 by at most 2, of which 42 and 53 have a best profit above what `NearBest` lets them lose. Bounds of 0 and 4 end by the window; a bound of 40 takes all 4 comparisons. |
| `whitelist` | 5 offers (a V2 pool, two V3 pools of which one is also offered under its venue's bare name, dust), 2 pages and 1 token of at most 1 pool each, 2 attempts, 2 candidates, a list cut at 2; 3 scripts of which 1 dies or raises | `Routable`, `EngineSees`; `CrawlRepairs` under fairness. Three scripts are a crawl, a merge and whatever repairs or spoils them; one death may come at any step, the write included. Fractions of a fee start at 0.0005: below 0.0001 the fee that is written is 0. |

Deadlock is checked except where the system may stop: a poller or listener
whose backoff raised, a listener that was refused, an engine whose bounded
events are used up, a program that shut down or whose feed died, a search that
returned, and a whitelist when all scripts were run.

Fairness. `Tick` is time. Every other fair action is one the event loop runs
when it is ready, or an answer the code bounds with a timeout (`timeout=5.0` of
the HTTP client, which the quoter, the price pool and the shotgun use; 10
seconds at the relay; the price service's own). The native broadcast has no
timeout: its failures are not fair, and `BroadcastsLand` is promised only if
the loop runs again and again (`[]<>(loop = "runs")`), which also excludes a
shutdown. It needs one endpoint that answers every post (`Up`) and a sequencer
that takes what that endpoint holds; nothing is assumed of the others.
`AnsweringSpec` also assumes a provider that answers subscriptions and sends
heads: `_recv_json` has no timeout, so that nothing can be promised without it.
`FallbackTakesOver` assumes callers that call again, as polls and scans do.
`CrawlRepairs` assumes that every request is answered or times out (30 seconds,
seed_whitelist.py:358), and promises nothing for a crawl that is killed or meets a
body that is not JSON. Nothing assumes that
failures stop, except by their bound; cancellation, signals, `stop()` and
failures are never fair.

### Where the code departs from its words

Two runs expect a violation; each quotes a line of the repository.

- `arb_graph_spelling`: the engine starts at WETH in checksum spelling
  (process_b_sniper.py:712), the nodes are lower-cased (:680), and no caller
  passes another spelling: every search returns `None`.
- `ws_listener_topics`: the topics of both kinds are put in positions 0 and 1,
  which asks for logs that have both; none are delivered, while heads keep the
  watchdog quiet.

Others were met and are visible in the modules:

- `_last_block` is moved before `eth_getLogs` is asked (websocket_listener.py:511).
  One failure, or one answer of a node that trails the head, and the logs of the
  range are never asked for again: the edge stays stale until the pool's next
  log, although "On every Sync/observations event" (local_pricing.py:456) it is
  updated. This is what `missed` of `SyncPipeline` collects, and all that the feed
  may lose.
- When the feed raises, `asyncio.gather` cancels the sniper and the flush of the
  orchestrator, and the sniper of run_live, mid-await (`SessionEnds`): results not
  yet alerted on are gone, and the CSV output after the gather
  (orchestrator.py:218, run_live.py:133) is never reached. The signal handler of
  run_live sets a flag that nothing reads. Under app.py and run_live nobody
  flushes, and results pile up.
- seed_v3_pools merges "only the verified pools" and without `--force` is to keep
  what is there; as soon as one candidate is new, every existing V3 entry is
  dropped (seed_v3_pools.py:169; `Merged`).
- seed_whitelist says that it falls back to an existing whitelist and "never
  crashes"; it overwrites the file, and a body that is not JSON ends it. The
  static pools it takes when nothing came back name no chain, are all found
  invalid (seed_whitelist.py:162), and reach the file by the floor at the end.
- A fee reported as 0.003 is written as 30, in a file whose V3 tiers are in
  millionths (3000; `InBps`). A pool offered as "uniswap" becomes "uniswap_v2", also
  when it is a V3 pool (`Dex`). Of the venues that are given fee tiers, feed and
  graph treat two as V3 (`V3Dexes`, `GraphV3`), and the rest as V2 pools. A merge
  after a crawl that names the venue alone lists the same pool once as V2 and once as
  V3; feed and graph take both.
- `write_text` truncates the file first. The feed's loader logs a torn file and
  runs with no pools; the graph's raises (`LoadWhitelist`, `BuildGraph`);
  seed_v3_pools raises, too, and does not repair it. The graph's path is fixed,
  the feed's is configurable. A script that writes between the two reads leaves an
  engine that hears of other pools than it has edges for (`rewritten`).
- The node found in the last pass of the search need not have N predecessors;
  `pred[None]` raises `TypeError` (local_pricing.py:621; the phase "raised" of
  `ArbGraph`). `run()` catches it, and the event's arbitrage is missed.
- With the HTTP transport the poller resets the RPC manager on every httpx error
  (websocket_listener.py:574), and with it the count that has to reach three: the
  fallback of .env.example:36 may never be used (`Resets`).
- The nonce is what `eth_getTransactionCount` counts as executed, so two trades in
  flight share one and displace each other (`NonceRead`); the native way asks no node
  at all (src/lib.rs:142-150; `Filled`); a trade is recorded as
  executed when its broadcast is started, whether or not an endpoint accepts it
  (`Shotgun`), and one that "failed" may land (`SendRaw`, `RelayAnswered`).
- `broadcast_ex` calls the native code without an await (rpc_manager.py:351) and
  stops the event loop until every endpoint answered, although rust_bridge.md
  says "Never block the indexer loop on broadcast" (`Native`).
- `calculate_optimal_input_size` promises the "exact" maximum of a "unimodal
  (concave)" function (local_pricing.py:723-729). Whole outputs make real profits a
  staircase with saw teeth, which is neither, and the result is not exact: `NearBest`
  says by how much it may miss the best. With a bound of 0 the search still tries an
  input of 1 (`Top`).
- A V3 edge is weighed by what 10^18 raw units of the token sold would be paid
  (local_pricing.py:526-535), where the docstring (:450) says the spot rate. For a
  token of 6 decimals that is more than most pools hold: the edge looks far worse than
  its price, or is closed, and a loop that gains at the pools' prices is not found.
  `NoArbitrageMissed` is by these weights, and says nothing of such a loop.
- `int(amount_in * 0.997)` is a product of floats (local_pricing.py:90, and :380
  for V3). Above 2^53, which is 0.009 WETH, it can leave more than the exact fee
  would, and the quote can exceed `get_amount_out`'s (`AfterFee`;
  `QuoteWithinRounding`).
- `v3_amount_out` is said to follow the "exact" formulas (local_pricing.py:360); its
  divisions may round in favour of the trader, by less than liquidity / 2^96
  (`V3OverstatesLittle`).
- `find_triangular_path` turns the reserves of the last pool round twice when WETH
  is its token1 (local_pricing.py:223; `FinalWethReserve`), and lists losing paths
  although its docstring says "profitable" (`FindTriangularPath`).
- The quoter multiplies fees that are in hundredths of a basis point by 100
  (onchain_pricing.py:84) and asks for V2 hops as V3 pools with fee 0
  (process_b_sniper.py:747): what it answers is not the price of the cycle.
- Every answer that begins with `0x` passes the simulation
  (process_b_sniper.py:551). The oracle's second tier compares token0 with an
  address one digit short (price_oracle.py:80; `PoolAnswers`).
- `TriangularScanner.scan` is called without a trade size and divides `None`
  (process_b_sniper.py:1090, :154); `Simulator` reads attributes that no path has
  (:303). No triangular path is ever evaluated.
- Deduplication is by value (websocket_listener.py:405), so a pool that returns
  to an earlier state in one block keeps the state in between (`Duplicate`).
- `2 ** (attempt - 1)` is computed before it is capped and raises once it is no
  float (websocket_listener.py:169, :580; `Drop`, `PollFails`). The WSS listener
  never resets its attempts, because `_connect_and_stream` never returns.
- HTTP 429 on the handshake is an `InvalidStatus`, which `listen()` does not
  catch, although its docstring names it (`ConnectRefused`).
- `_recv_json` takes whatever frame is next for the answer, and a head that
  comes first is logged as a rejection (`SubscribeLogs`).
- A denial by the fallback is retried on the fallback and leaves the failover
  on (`Denied`), and a stale denial blames the primary.
- `GraphArbEngine` reads `self.executor`, which it does not have
  (process_b_sniper.py:924): live with an executor, nothing would be signed and no
  result left (`SimulationPasses`). No entry point passes an executor today.
- A cycle that loses at every size returns before the miss counter
  (`QuoteLoses`); `stop()` and signals do not reach the sniper (`Stop`, `Signal`).
- A cycle that avoids WETH is returned as it is (`RotateToStart`).
- WETH the contract held before a trade counts as profit: a losing route can
  pass `NoProfit` (`Settle`).
- `receiveFlashLoan` asks only that the Vault calls (FlashloanExecutor.sol:128): anyone
  may have the Vault lend to the contract, whatever token, and choose the route,
  of whatever lengths (`LentByOthers`). Such a route may spend what the contract
  holds of the tokens on its path, WETH included, and still pays the owner;
  `RoutePaysForItself` is of the owner's routes.
- A route need not begin with WETH, although the docstring says that it does; it then
  spends what the contract held of its first token (`RoutePaysForItself` excepts it).

## The proofs

All theorems hold for every value of the constants that satisfies the module's
assumption. The assumptions are types and signs, but for these: `RPCManager`
assumes at least one retry after a 429, as `MAX_429_RETRIES = 3` gives, because
the other failures retry once whatever that constant is; `ArbGraph` that there and
back through one V3 pool does not gain by its weights, each of which is below the
price by the fee (what rounding may add to the two outputs of a probe, of which
`V3OverstatesLittle` has the bound, is neglected); `NothingMissed` that the start token is spelled as the node it names (it is false otherwise: see
`arb_graph_spelling`); `Whitelist` that no service reports a fee as a fraction
below 0.0001, that fee() of a candidate answers a positive number, and that the
committed file and the static list have a pool, a fee for each V3 pool and none
twice, as those in the repository do.

- `RpcProofs`, the limiter: `LimiterTypeCorrect`, `BudgetKept`, `WindowBounded`.
  `WindowBound` is not inductive: it says nothing about tokens in the bucket.
  `BudgetInv` adds that calls let through and tokens that could be taken share
  one budget, and that a sleeper's token has accrued when its sleep ends; the
  arithmetic of the rounded-up sleep is a lemma of its own. The RPC manager:
  `TypeCorrect`, `PostsBounded`. The posts of a call are counted by the place it
  has reached (`PostsCounted`); the shared counter is read and reset by everybody
  and plays no part.
- `SyncPipelineProofs`: `Refinement`, `OnlyMissedIsLost`, `TypeCorrect`,
  `GraphOnlyAdvances`. That logs arrive in order needs to know that whatever is
  still to be handed over lies after whatever is queued or applied for its pool
  (`Fresh`, `Ahead`), that the queue is in order per pool and ahead of the graph
  (`Ordered`), and that ranges follow one another (`RangeOK`). Dedup keys play no
  part: forgetting them is harmless because ranges never overlap. That nothing is
  passed over that was not dropped needs to know where every polled log is:
  dropped, applied or overtaken, queued, pending, or still to be fetched
  (`Accounted`), and that what was dropped is nowhere else (`MissedOK`).
- `WebSocketListenerProofs`: `TypeCorrect`, `StreamIsServed`. The listener
  takes any frame for an answer. That this never makes it stream what is not
  served needs to know that at most one ack is on its way, only of the
  subscription asked for last (`AckOK`), and that logs come after it
  (`LogsFollow`); the type of the attempts, that a frame that will be taken for
  a refusal leaves one to count (`RefusalsCounted`).
- `GraphArbEngineProofs`: `TypeCorrect`, `ResultsKept`, `BestTraded`,
  `TradedAtMostOnce`. That no result is lost needs
  `WalkedPast` (the flush has alerted on all before its place in a list that
  grows under it), that none is traded twice `CycleFresh` (a cycle in hand was
  seen and not passed before). That the loop over the grid leaves the best
  size is shown by induction over its turns, each of which loses nothing
  (`BetterGains`, `BestSizeGainsMost`), for any grid, with sizes that tie, lose or
  revert in any order.
- `FlashloanExecutorProofs`: `TypeCorrect` (no balance underflows),
  `AllowancesReset`, `RouteFunded`, `Refinement`, whoever has the Vault lend. The
  invariant keeps the hop inside the running call (`OnRoute`) and ties the
  allowance to the hop and the phase, and, on a route of the owner, what is held to
  what was held before the loan plus what the last hop reported. `Refinement` maps every step of a
  transaction but the last to a stutter of `AtomicTrade`; it needs to know that a
  route spends only tokens on its own path (`OnPath`).
- `BroadcastProofs`: `TypeCorrect`, `AtMostOnce`, `NothingLost`. That
  a trade is executed once needs to know that every copy of it carries the one
  nonce it was signed with (`Genuine`) and that the chain executed every nonce
  once and in order (`Numbered`); that a reported hash is not lost, that an
  endpoint keeps what it accepted until its nonce is used (`Held`).
- `LocalPricingProofs`, the search for a cycle: `FoundCyclesGain`,
  `NothingMissed`, `SearchTyped`. Relaxation is in place, so a recorded
  predecessor is not the edge of a shortest path, distances go on falling behind
  it, and `FoundIsArbitrage` is far from inductive. `ArbInv` says of whatever a
  pass leaves behind: the distance of a token is at least that of its predecessor
  plus the weight between them (`PredsHold`), and any set of tokens whose
  predecessors are all in the set has one whose distance is strictly greater
  (`CyclesSlack`): a relaxation that closes a cycle leaves slack on it. Around a
  cycle of predecessors the distances cancel, and the weights come to less than
  nothing. That N steps back from the last relaxed token end on such a cycle is a
  pigeonhole argument. When nothing can be relaxed, distances are a potential: no
  loop that is reachable sums to less than zero, whether or not the search ran
  all its passes. All of it is by the weights of the search, whatever they are. Each relaxation is shown to keep the invariant, and a pass by
  induction over its edges (`UpTo`; the induction theorems of the library cannot
  be cited, so that it goes by least elements).
- The same module, the formulas, for all inputs and pools: `OutputBelowReserve`,
  `ProductNeverFalls`, `OutputGrows`, `NoRoundTripGain` for V2; `QuoteWithinRounding`
  for the variant that takes the fee as a float, which quotes no more than the exact
  one does for an input whose exact fee leaves as much; `V3Grows` and
  `V3OverstatesLittle` for V3, whose divisions do not all favour the pool: what is
  quoted can lie above the amount without rounding, by less than liquidity / Q;
  `ChainGrows` and `ChainBelowReserve` for chains of any length and kind, of which
  `LargeLoansLose` is the consequence for the profit. Of the product of floats they
  assume only that it is a natural number and does not fall when the amount grows
  (`Rounds`), as rounding to nearest gives. Division is eliminated once
  (`Paid`, `Floor`, `FloorGreatest`, `DivGrows`); the rest is arithmetic on products.
- The same module, the search for the input: `NearlyBestFound`, for any profit with
  integer values and any number of comparisons, and `RoundTripsLose`, for any V2
  pools. An input that a comparison gives up lies beyond a third that is no worse
  than the other, and on a profit that sags by at most d below its chords it is
  better than that third by at most 2d (`GivenUp`, `ComparisonCost`): the window
  keeps an input as good as any but for 2d a comparison (`NearKept`). The scan then
  compares all that is left (`ScanOK`). With d = 0, a concave profit, the result is
  the best.
- `WhitelistProofs`: `FileRoutable`, `NeverBlind`. `Routable` says nothing of
  what a script holds before it writes. `WInv` adds that what the services
  reported is well formed (`ReportsHeld`), that seed_v3_pools read a topology
  (`ReadServed`), that what it verified are distinct candidates it has passed
  (`VerifiedHeld`), and that the feed is of the file until something rewrites it
  (`FeedFresh`). A listing is a topology because a pool is taken from the first
  valid pair alone and a sort lists each once (`InOrderLists`, `ListingServes`); a
  merge, because entries that are kept and entries that are added are of
  different kinds, and something was added (`MergedServes`). That an engine is never
  blind needs `Routable`: the graph's read fails on a torn file, and what nothing
  rewrote since was whole when the feed read it, hence has pools; and that the two
  lists of V3 venues, which are two literals, name the same ones.

Only model-checked: the liveness properties (`EveryCallReturns`, `LogsSettle`,
`CallsEnd`, `FallbackTakesOver`, `EventsConsumed`, `ResultsAlerted`, `StreamsAgain`,
`LogsDelivered`, `BroadcastsLand`, `CrawlRepairs`), which rest on fairness and are
out of the prover's reach. Every safety property of the runs, and both
refinements, are proved.

## Not modelled

- Byte formats, logging, the wording of alerts, the web page, deployment.
- The triangular mode of `ProcessBSniper` with `TriangularScanner`, `Simulator`
  and the audit: no entry point selects it (all pass `graph_mode=True`), and
  its scan raises before it evaluates a path. The quotes it would use are in
  `Pricing`.
- infra/v3_pool.py, token_discovery.py (with dexscreener.py and pair_finder.py) and
  pool_fetcher.py: no entry point reaches them. `scan_sync_events` has no caller.
- The contract cache, used by scripts/seed_blacklist.py and tests alone, and the
  SQL of the cleared tokens, of which the engine only upserts.
- `ProcessAIndexer.stop()`, which nobody calls and which calls a method the WSS
  listener lacks; the value of a tick, which is stored and never read.

PROJECT.json gives the reason for each.

## Plan

The order in which this was built: the limiter, the feed, the listener, the RPC
manager, the search, the engine with oracle and quoter, the contract and its
abstraction, delivery, pricing, the whitelist; then the feed's abstraction and
the proofs of feed, RPC manager, listener and engine. What could follow:

1. An abstraction of `RPCManager`, a call that ends with an answer or a failure,
   and of `GraphArbEngine` with `Broadcast`, a trade that is tried once, shown by
   refinement.
2. The triangular mode, if an entry point ever selects it.
