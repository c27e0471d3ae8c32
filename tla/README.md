# Verification of the MEV arbitrage bot

TLA+ models of the bot in `src/`, the TLC runs that check them, and TLAPS proofs
about all of them. Paths below are relative to the repository: `src/executor/wallet.rs`
is the crate's file of that name, `contracts/` holds the Solidity.

## 1. The system

A binary (`src/main.rs`) listens for swaps, looks for a cycle of pools that gains,
sizes a flash loan for it, bids for inclusion and posts a signed bundle to several
relays. The bundle calls a contract that borrows, trades, pays the miner and repays
in one transaction.

| part | state it keeps | operations | talks to |
|---|---|---|---|
| mempool scanner, `scanner/mempool.rs` | `DedupeCache` shared by one task per endpoint, reconnection delay | connect, subscribe, `check_and_insert`, eviction, `try_send` | nodes; the opportunity channel (1024, drops when full) |
| MEV-Share scanner, `scanner/mev_share.rs` | buffer of the event stream | read a chunk, cut off events, parse, reconnect | the relay's SSE stream; a forwarder in `main.rs` |
| swap decoder, `scanner/decoder.rs`, `event.rs` | none | decode calldata | called by the scanner |
| engine, `main.rs` | `KILL_SWITCH`, the channel | main loop, `process_opportunity`, nonce sync task, circuit breaker task | everything below |
| router, `router/graph.rs` | the registry of pools | `find_arbitrage_routes`: decomposition, SPFA, cycle extraction, filtering | pool mathematics |
| pool mathematics, `router/pool.rs` | none | swap simulation, exchange rates | router, simulator |
| simulator, `simulator/evm.rs` | none | `simulate_math` | pool mathematics |
| bidding engine, `executor/bidding.rs` | `competitor_floor_bps` | `update_competitor_floor`, `compute` | engine |
| wallet pool, `executor/wallet.rs` | per wallet a mutex and `next_nonce`; the round-robin index | `execute_with_wallet`, `sync_nonces` | engine, node |
| bundle builder, `executor/bundle.rs` | none | encode the legs, sign | engine, relayer |
| relayer, `executor/relayer.rs` | one escalation: attempt, reward, results | `submit_with_escalation`, `submit_bundle`, `submit_to_relay` | relays, bundle builder |
| log, `db.rs` | the `bundle_logs` table behind one mutex | `log_bundle`, `rolling_pnl`, `stats_summary` | engine |
| contract, `contracts/src/ArbitrageExecutor.sol` | balances, ETH, allowances, the reentrancy guard | `executeArbitrage`, `executeOperation`, `emergencyWithdraw`, `batchRevokeApprovals` | lending pool, legs' pools, coinbase |

What is hard in it, and what makes each part correct:

* **Wallet pool.** Calls and the sync interleave around a mutex that the sync gives up
  before it awaits the node. No nonce of a wallet may be given out twice or skipped, and
  a counter the chain has overtaken must catch up.
* **Relayer.** Answers are lost or late, several relays answer in any order, attempts
  retry. A bid may be raised only over refusals, never over an acceptance, by bounded
  steps, and the loop must end.
* **Engine.** Several tasks run between a check of the kill switch and a row in the log,
  over values read before an await, and convert amounts to narrower integers. Nothing may leave
  a silent engine, the log must say what was made, the breaker must trip on losses and nothing
  else, no opportunity may hang.
* **Log.** Concurrent calls on one mutex, a window that slides, 64-bit sums of text.
* **Scanners.** Two endpoints see the same transaction, the cache overflows, channels are
  full, connections fail, chunks cut an event of the stream anywhere. A transaction or a hint
  must go through once or be dropped by a full channel, and calldata must be taken for what
  it is.
* **Contract.** Control passes to other contracts in the middle of a transaction. Each
  trade must happen whole and on the owner's terms, or not at all.
* **Router, pool mathematics, simulator, bidding.** Algorithms whose labels, roundings,
  wrapping products and casts must not add up to something wrong; what they promise must
  pass the contract's check.

## 2. Modules

| module | models | notes |
|---|---|---|
| `NonceAllocator` | what the pool promises its callers | abstract: leases and voided wallets |
| `WalletPool` | `wallet.rs`, the sync task of `main.rs` | one action per atomic step between awaits or locks |
| `WalletPoolProofs` | | theorems |
| `BidMath` | `compute` and the escalated rewards as operators | shared by the next four |
| `PoolMath` | `pool.rs`: constant-product, concentrated and stable swaps as operators | products and sums wrap at `Word` |
| `Pricing` | `simulate_math` over `PoolMath`, then `BiddingEngine` | one action per loan size tried; floor, base fee, bid |
| `Relayer` | `submit_with_escalation` with its relay tasks, the relays and the chain | one call of it |
| `LogMath` | SQLite's cast and its sum in 64 bits as operators | shared by the next two |
| `Engine` | `main.rs` composed with what it calls | nonces, attempts, bids and rows as the other modules promise them |
| `PnlLog` | `db.rs` | the mutex, the window |
| `MempoolScanner` | `scanner/mempool.rs` | cache, endpoint tasks, channel, time |
| `SwapDecoder` | `scanner/decoder.rs` as operators | calldata is a selector and 32-byte words |
| `Feeds` | `scanner/mev_share.rs`, the forwarder of `main.rs`, and the decoder between cache and channel | stream, buffer, both channels |
| `BidMathProofs`, `PricingProofs`, `RelayerProofs` | | theorems |
| `EngineProofs` | | theorems about `Engine` and `PnlLog` |
| `ScannerProofs` | | theorems about `MempoolScanner`, `Feeds` and `SwapDecoder` |
| `AtomicArbitrage` | what the contract promises its owner | abstract |
| `ArbitrageExecutor` | the contract with the lending pool, the legs, the coinbase | one action per piece between external calls |
| `ArbitrageExecutorProofs` | | theorems |
| `Router` | `find_arbitrage_routes` on one component | one action per edge relaxed |
| `RouterProofs` | | theorems |
| `MC...` | small instances for TLC | requests, markets, routes, calls, profits, logged amounts |

State and actions carry the source's names where they have one (`next_nonce`,
`current_index`, `balanceBefore`, `dist`, `predecessor`, `executeArbitrage`, `compute`).
A `pc` variable names the place inside a function between two awaits, locks or external
calls; what the code does between two such places is one action. Variables marked
"history" in a module are read by properties only. `PnlLog` and `Feeds` give the parts of
their specifications names of their own (`LogInit`, `progress`, `LogSpec`, `FeedsInit`, `sse`,
`FeedsSpec`), so that a proof module can extend each beside a second component; whether the
process lives is `running` in `Engine` and `Feeds` and `alive` in `MempoolScanner`.

A release build aborts on a panic (`Cargo.toml:85`): one in any task ends the process. Where the
code converts a number to a narrower integer and panics if it does not fit (`main.rs:342`,
`decoder.rs:193`, `:199`, `:294`), the models have an action that stops everything
(`LogPanics`, `DecodePanics`, `SendPanics`). Casts and products that wrap do so in the models
(`Signed` for `as i128`, `% U256`, `% Usize`, `% Word`, `% U32`).

How the models were cut:

* *Wallet pool.* Load, callback and `fetch_add` are separate steps under the mutex,
  which is what makes `next_nonce` shared with the sync. A bundle that is signed lands,
  or expires, at any time later. `Foreign` mines a transaction of the same key. Only the
  wallets of `MinedWallets` have transactions mined: which of them the chain moves tells
  nothing that the index and the mutexes of the others do not.
* *Relayer.* A request in flight (`wire`) may be handled by a relay after the client's
  call has failed. Bundle contents are the attempt number. All versions carry the nonce
  and the block the rebuild callback captured.
* *Engine.* It uses one wallet, and abstracts the relays to accepting or not. Where a
  query has a default (`unwrap_or(0)` for the block, 20 gwei for the fee) both outcomes
  are there. The rolling window is a suffix of the rows that may shrink at any time. `I128`
  stands for 2^127. The contract only enforces a floor, so a mined trade makes its minimum and
  whatever `Extras` adds, and its gas costs whatever `GasCosts` says, not what was simulated.
* *Bidding.* A gas price so large that the conversion to `u64` panics (`bidding.rs:66`, above
  3e25 wei) is left out.
* *Log.* `MaxInt` stands for 2^63 - 1. `stats_summary` is two steps, the lock it holds
  and the lock `rolling_pnl` asks for.
* *Scanner.* Sleeps end at any time; only their length is kept. The decoder is two
  constant sets, `Swaps`, which it sends, and `Oversized`, which it panics on; `Feeds` has the
  decoder and leaves out the cache.
* *Feeds.* The text of an event is two pieces and two newlines, so that a chunk may end
  inside the text, between the newlines or after them. What is put together from two events
  does not parse. An end of the stream loses what the connection still held, and the
  buffer, as the code allocates a new one. Calls are laid out in words by `SwapDecoder`,
  and decoded by offsets and lengths in bytes as the code does. `Usize`, `U128` and `U256` are
  small numbers in that order.
* *Contract.* A revert restores `saved`. Whoever has control (`Foreign`) may use every
  allowance and pay anything in. The owner is an ordinary account and no leg targets the
  lending pool, a token or the contract itself, as in each bundle `bundle.rs` builds
  (where `Action.value` is always 0, so it is left out).
* *Router.* Logarithms are integers and labels are kept relative to the first token's,
  because the code only compares them; this makes the state space finite. The rounding
  of `f64`, the margin of 1e-11 and the order by confidence are left out. A set takes
  the place of the list of routes found. Which route stands for its set of pools is any.
* *Pool mathematics and pricing.* Shares of 10,000 and of 1,000,000 become shares of
  `Basis` and `Pips`. Widths shrink by 16: 2^96 becomes `Q` = 2^6, a liquidity of 128 bits one
  of 8, a price of up to 160 bits one of up to 10, `MAX_SQRT_RATIO` (2^232 - 1) becomes
  `MaxSqrt` (2^14.5 - 1), and 2^256 becomes `Word` = 2^16. So what wraps in the code wraps
  in the run: `sqrt * MAX_SQRT_RATIO` (`pool.rs:219`) for nearly every price, `sqrt * (sqrt + delta)`
  (`pool.rs:240`) for thin pools, and the numerators of liquid ones. The ticks of a concentrated pool are empty, as no code fills them, so a swap is one step.
  Gas is in small units. The competitor floor is observed just before `compute`, its only
  reader.

## 3. Runs

Each passing property has a mutant, a plausible slip in one of the mapped definitions,
that TLC finds to violate it. Mutants stand before the definition they change.

| run | states | what it shows | bounds |
|---|---|---|---|
| `pool` | 0.19 M | nonces are unique unless the sync stored a lower count, contiguous unless it stored anything, never below a count applied; a lower store needs two calls served during the await; the pool implements `NonceAllocator`; calls return; laggards catch up | two wallets and three calls: the fewest that give one wallet two calls during one await while another wallet is served; one wallet is mined from, counts up to two, so that the chain can overtake by one and by two |
| `pool_unique` | | *violation*: a nonce is given out twice | as above |
| `pricing` | 0.78 M | the loan found pays off and no candidate beats it; over conservative legs (section 4) rounding never makes a losing route a gain, and pools accept the swaps; a concentrated step takes no more than it is given although products wrap; reward, minimum profit and gas fit in the gross profit, whatever the casts do; the bundle built from the bid passes the contract's check | two pairs with reserves from 0 to 2000, so that price impact dominates or vanishes, three small pairs, pairs beside concentrated pools at four prices and two liquidities, which include thin and liquid pools, prices below and above one, steps that reach their target, and divisors that wrap; fees and premium in twentieths; base fees below, at and above where a division or a cast changes its result |
| `stable_swap` | | *violation*: a stable pool is simulated to pay more than it holds | balanced and unbalanced pools, three amplifications |
| `relayer` | 1.1 M | the bot never bids against itself knowingly, raises by bounded steps, ends | all four attempts, two relays, so that one may accept while the other fails |
| `engine` | 0.61 M | what is told to be silent stays so, also when the breaker sets the switch while another task runs; a row is off by the raises of the reward and nothing else; the breaker trips only where a conversion wrapped; every opportunity that enters the channel ends, if graph searches end and the node answers its task | two opportunities share channel, nonces and log; channel of one, so that it overflows; one escalation; a loss limit on either side of 2^127; one profit that an `i128` holds, against one of which what is left wraps or makes `to::<u128>()` panic; trades that make their minimum (no property of this run reads what a trade made) |
| `pnl_log` | 0.1 M | a sum is that of the window at a moment inside the call; calls return unless `stats_summary` is running | two writers, three ticks with a window of one |
| `scanner` | 0.28 M | no hash is admitted again within the window; each admission is forwarded or lost once; endpoints come back unless a panic ended the process | two endpoints, three hashes (a swap, a call that sends nothing, one the decoder panics on), cache limit one, channel of one |
| `feeds` | 0.32 M | each hint wholly read goes through once and in order or is dropped by a full channel; swaps of exact amounts through pairs whose amounts fit a `u128` once scaled trigger exactly when the documented rule says; hints arrive and the stream comes back unless a panic ended the process | four events, three of them actionable, so that one can be cut while one waits in the forwarder and one in a channel; channels of one; amounts at and one below both thresholds, at and one below what fits `U128`, and above `U256`; tokens with 1, 2 and unknown decimals, a path of one token |
| `executor` | 57 k | no allowance outlives its leg; what passed the profit check can be repaid; the contract implements `AtomicArbitrage` | two tokens, two pools, balances up to three, premium 0 or 1, trades that gain, lose, fail and are malformed |
| `router_routes` | 0.1 M | cycles read off the predecessors are negative and use no pool both ways; routes are executable; an efficient market ends the search with nothing | every list of four pools at two prices and of three pools at five prices that connects three tokens, parallel pools included |
| `router_loop` | | *violation*: the search need not end | the lists of four pools |

Integers are small enough for TLC's 32 bits; widths that matter (`U32`, `MaxInt`, `I128`, `U128`,
`U256`, `Usize`, `Word`) are constants. Every bound on a counter (`MaxCount`, `MaxHead`, `MaxNow`, `MaxHeld`, `MaxEvents`)
and `MinedWallets` is a constant of its module and stands in the guard of the external action
it stops. Deadlock is checked except in `relayer`, `pnl_log`, the router runs and the runs of
`MCPricing`, where the modelled calls return and nothing is left to do.

`TypeOK` is an invariant of the runs `pool`, `executor` and `router_routes`. It is proved as
well for `Relayer`, `Engine`, `MempoolScanner`, `PnlLog` (`LogTypeOK`) and `Feeds`
(`FeedsTypeOK`), where naming it in the configuration checks it too. `Pricing`, whose values
are results of its operators, has none.

### Fairness

* `WalletPool`: a call that took an index has no await left and runs on; the sync task
  is scheduled; a bundle lands or expires because it names one block; the node answers
  for each wallet again and again (strong fairness, assumed: the HTTP provider has no
  timeout of its own). Neither arrivals, landings nor foreign transactions are fair.
* `Relayer`: tokio runs the tasks, and `reqwest` ends each request (timeout 5 s). Relays,
  network and chain owe nothing.
* `Engine`: the loop, the breaker and the spawned tasks run; relays answer or time out. Nothing is
  assumed of `FindRoute`, because the search need not end (`router_loop`), or of `ReadChain`,
  because the HTTP provider has no timeout (`main.rs:65`) and `main.rs:230-234` await it.
  `OpportunitiesEnd` names both as its condition: again and again no search is running, since one
  that does not end keeps a worker thread, and the task in question does not wait for the node.
  So a query that is never answered hangs its task and no other.
* `PnlLog`: threads run. Nobody is obliged to call.
* `MempoolScanner`: tasks run and sleeps end; a node that is tried again and again takes
  the connection and the subscription now and then (strong fairness).
* `Feeds`: tasks run and the sleep ends; what is whole in the buffer is cut off, what is in a
  channel is taken; a relay that is tried again and again takes the connection now and then
  (strong fairness). Nothing says that events are sent or chunks arrive.
* `Router`: the loop runs.

## 4. Proofs

The proof modules follow one line: an inductive invariant, a lemma per action and
conjunct it may disturb, then the theorem by temporal logic. Assumptions are the `ASSUME`s
of the modules, which TLC evaluates for its instances. They say no more than:

* the types of the constants, and that there are finitely many endpoints;
* for the router, that a component is connected;
* for pricing, that a route is a sequence of legs of the three kinds (`RouteAssumption`), a
  concentrated pool having a price, as `graph.rs:75-98` takes no pool without an exchange rate;
* for the log, that a thread makes one of the three calls (`LogAssumption`: `Loggers`,
  `Readers` and `Reporters` are disjoint, and `Free` is none of them);
* for the engine, that `circuit_breaker_max_loss_wei` is a `u128`;
* for the feeds, that both thresholds are above zero (`DUST_18` and `WHALE_18` are), that no
  known token has more than 18 decimals, that `U128 <= U256`, and that channels hold at least one
  message.

Chains of swaps, products, totals of weights and the walk along predecessors are recursive
functions. What is said of them by induction goes by sets: a set of naturals has a least
element (`LeastElement`, from the well-foundedness of `<`), so one that has no least
counterexample has none (`SetInduction`, `BoundedInduction`). A recursive function is a
choice among the functions that satisfy its equation; that there is one is proved by the
same induction (`RecursionExists`, `TraceExists`), and its equation follows (`FollowedFacts`,
`TotalFacts`, `ChainSteps`, `ProductFacts`).

* **`WalletPoolProofs`**: any number of wallets, any set of calls.
  `TypeCorrect`; `UniqueNonces`, `ContiguousNonces`, `CountsKept`, `RewindsExplained` for
  the properties of `pool`; `PoolImplementsAllocator` for the refinement. Uniqueness is
  not inductive by itself. The invariant adds who holds which mutex (a call between `Lock`
  and its release, and no other); that, until a lower store, the nonce a call has loaded is
  above all that were given out and not above `next_nonce`; and that during an await every
  nonce from the sync's `current` up to `next_nonce` was given out, and a call in its callback
  holds `next_nonce` itself.
* **`ArbitrageExecutorProofs`**: any tokens, targets, requests, premiums and amounts.
  `TypeCorrect`, `AllowancesRevoked`, `LoansRepayable`, and `ExecutorImplementsPromise`: each
  step maps to a trade on the owner's terms, a withdrawal, a deposit, or a stutter. The
  invariant says what `saved` and `balanceBefore` hold at each place, that the initiator is the
  contract only inside `executeArbitrage`, and which allowance may be above zero where.
  Repayability rests on it: with all allowances revoked the coinbase can only add tokens.
* **`RouterProofs`**: any number of tokens and any market.
  `LabelsLag`: a label is never below its predecessor's plus the weight of the edge, because
  labels only fall after a predecessor was noted; `PoolsUsedOneWay`: hence, weights both ways
  being opposite, no cycle of predecessors goes through a pool in both directions;
  `TypeCorrect`.
  `PredecessorsGain`: a cycle of predecessors is always negative. Lagging labels only give
  that it is not positive; the invariant `SlackInv` adds that on each cycle some label is
  strictly above its predecessor's plus the weight. A relaxation keeps that true: on a cycle
  through the lowered label the next edge was tight at best and now has slack, on any other
  the old slack is still there. Adding up around the cycle gives the theorem (`EdgeWeight`,
  `RoundTrip`, `CycleLegs`, `NegativeCycles`).
  `ReturnedRoutes`: each route returned leads from an anchor back to it within `MAX_HOPS` and
  gains, whatever was collected and rotated; the invariant `FoundInv` says of each cycle found that it
  is a round trip whose total is low enough, and `RotatedFacts` that rotation changes neither.

* **`BidMathProofs`**: any amounts, fees, fractions and widths of the casts.
  `BidFits`: reward, minimum profit and gas fit in the gross profit, if the two configured
  fractions fit in the whole; this is `MinimumAndRewardFit` of `Pricing` without a bound. It
  rests on lemmas about rounded shares (`ShareBounds`), on the ceiling that holds whatever a
  cast did (`EffectiveBounds`) and on monotone products. `RewardBounds` limits an escalated
  reward and serves the next two modules.
* **`PricingProofs`**: any routes, reserves, prices, fees, grids and widths of the products.
  The invariant says that the best loan's chain really makes the best profit, that every
  candidate tried so far makes no more, and that the bid was computed for what was found; the
  properties alone say nothing of the search before it ends. A division by zero is a panic in
  the code (and an error in TLC), so the theorems are about the behaviours in which no swap of
  the loan being tried divides by zero (`SwapsDefined`, which also holds throughout the run
  `pricing`); `PairsNeverPanic`: with pairs alone there are no other behaviours.
  `BestIsFound`, `BidFitsProfit`, `BidsPassCheck` (with `MinProfitBps` below the whole: asking
  for all of the profit leaves no wei for a premium rounded up), `StepsTakeNoMore`: the
  roundings and the wrapping products of a concentrated step add up to no more than its input;
  `RoundedSwapsAreExact` and `RoundedGainsNeedAnEdge`: the rounded amount of a pair is the largest
  it accepts, and a conservative concentrated leg pays no more than the pool does, so that along
  the chain the amount stays under the loan times the product of the spot prices less fees. A leg
  is `Conservative` if it is a pair, or token1 given to a concentrated pool that stops short of
  its target and whose divisor does not wrap (`ConcentratedFacts`; the numerator may, which only
  lowers the amount). The others are left out of both properties because there the code does
  overpay: token0 by its formula (`ConcentratedIsExact`, section 5), a wrapped divisor, and a step that
  reaches its target with a fee of zero, whose input is rounded down.
* **`RelayerProofs`**: any relays, any number of attempts, any increment.
  `TypeCorrect`; `AcceptanceIsFinal`, `BidsStayBounded`, `RaisesFollowRefusals` for the safety
  properties of the run `relayer`. The invariant says which version is built at each place,
  that requests in flight carry no later one, and what the relay tasks of the current attempt
  have heard.
* **`EngineProofs`**: any opportunities, profits, fees, loss limit and widths.
  `TypeCorrect`; `SilentEngine`: in a dry run, or if the kill switch was set before it was taken
  off the channel, an opportunity stays in the places before the first post, where nothing was
  sent, mined or logged (the invariant also says that what the channel holds is waiting,
  `QueueInv`); `BreakerNeedsWrap`: the running totals never fall as long as no logged profit
  wrapped, because it saturates at zero, so no sum over a window is negative and none is below a
  limit whose negation is not positive (`ThresholdFacts`: it is for every limit up to 2^127);
  `LogErrsByRaises`: a row keeps the profit, fee and opening reward it was computed from
  (`RowInv`), the subtractions do not saturate for a bid that was made (`BidFits`), and an
  escalated reward lies between the opening one and the last (`RewardRange`). It assumes that
  the two configured fractions fit in the whole (`MinProfitBps + MaxRewardBps <= 10000`), which
  the configuration does not check.
* **`EngineProofs`, the log**: any threads, profits, window and width of the integer.
  `SumsAreOfWindows` for the safety property of `pnl_log`; `OneInside`: one thread at a time is
  inside the connection, and only `stats_summary` asks for the mutex a second time;
  `StatsNeverReturn`: hence no call of it ever returns, and one that is at its second lock stays
  there and keeps the mutex. The invariant `LogInv` adds to the types who holds the mutex
  (`Exclusive`) and who may ask again (`Relocking`). A sum that was right stays right, because
  rows are only appended and neither an old row nor the moment of the sum changes (`SumStands`).
* **`ScannerProofs`, the cache**: any finite set of endpoints, any hashes, window and limits.
  `TypeCorrect`; `RepeatsWait`: the cache holds the time of the last admission unless it is a
  window ago, which insertion and the test in one step, and a sweep that spares the young,
  preserve; `AdmissionsAreSent`: the set of endpoints between admission and send grows and
  shrinks by one with each.
* **`ScannerProofs`, the feeds**: any number of events, any set of actionable ones, any sizes of
  the channels, chunks cut anywhere.
  `HintsGoThrough` for the invariant of `feeds`, and `FeedsTypesCorrect`. `HintsFlow` is not
  inductive: a chunk read could repeat an event or bring one back. `StreamInv` adds what holds
  of the stream: while it is up, buffer and wire are together a run of whole events that ends
  with the last one sent (`Aligned`); otherwise the wire is empty and the buffer holds the end
  of no event; what was read lies before what the wire still holds; and only what was read was
  dropped. So a chunk completes the next events and no others (`ChunkRead`), and the first
  separator found is that of the first event in the buffer (`SeparatorFound`, `EventCut`). The
  line a hint goes through is five sequences, from the main loop back to the buffer, and an
  action moves a hint between two neighbours (`Flows`, `FiveStages`): the order and the hints in
  it are what has to stay.
* **`ScannerProofs`, the decoder**: any limits, paths, thresholds and known decimals, and any
  amount that fits a `u128` once scaled (above, `decoder.rs:294` panics, or the product wraps first).
  `PairTriggersAreSent` for the action property of `feeds`: of an exact swap of tokens through
  pairs whose encoding a `usize` can address, no conversion panics, both the amounts and the path are found where the encoding put them (`WordsPlaced` says
  where the words are, `WordsFound` what is read at the byte offsets the decoder computes), and
  scaling by known decimals and comparing is the documented rule (`TriggersSeen`). A path of
  fewer than two tokens triggers nothing.

Only model-checked: everything about liveness (fairness and `ENABLED` are outside the prover's
reach).

## 5. Where code and documentation disagree

Three runs show it, the rest was met while modelling. Each claim is stated in its module
under "Claims of the documentation"; naming it in the module's configuration gives TLC's trace.

* *pool_unique*, `NoncesUnique`. `sync_nonces` reads under the lock, awaits without it and
  stores without it (`wallet.rs:101`), so a nonce is given out twice. `security.md:35`:
  "Per-wallet Mutex prevents race conditions."
* *router_loop*, `SearchEnds`. `graph.rs:201` resets a counter and leaves one token out of the
  queue; with a negative cycle and enough edges the others queue each other for ever (in
  `f64`, until labels stop falling, about 1e16 rounds later) and each detection adds a
  route. The comment on line 200: "Reset count and skip to prevent infinite loop".
* *stable_swap*, `PaysFromBalances`. `get_y` leaves the balance of the token paid in out of its
  sum (`pool.rs:323`), so its result lies above the balance of the other token and the
  difference (`pool.rs:274`) wraps; `KNOWN_LIMITATIONS.md:3`: "Curve/Balancer legs simulate
  correctly". Routes with such legs are not executed.
* `ConcentratedIsExact` (`Pricing`). A step that spends all of a token0 amount multiplies by
  `q96` where a second factor of the price is due (`pool.rs:234`), so below a price of one the
  pool is simulated to overpay. The products wrap besides: the divisor `sqrt * MAX_SQRT_RATIO`
  (`pool.rs:219`) for nearly every price, `sqrt * (sqrt + delta)` (`pool.rs:240`) for thin pools.
  `pool.rs:1`: "Exact pool math for UniswapV2, UniswapV3, Curve, and Balancer."
* `LoggedRewardIsPaid` (`Engine`). The row deducts the opening reward (`main.rs:342`), also when
  a version with a raised one was mined; `main.rs:337`: "Log to DB with real block + net profit."
  By no more than the raises, as `LogOffByRaises` shows of the simulated profit.
* `LossTripsBreaker` (`Engine`). Logged profits are simulated, saturate at zero and are never
  corrected, so a trade that loses more than the limit does not trip the breaker
  (`main.rs:130`); `security.md:12`: "An automatic monitor halts execution if rolling PnL drops
  below a safe threshold." `BreakerTripsOnWraps` says when it does trip: a limit above 2^127 becomes
  a threshold above zero and trips it on an empty log, and so does a profit of 2^127, logged as a
  loss.
* `ConcentratedSwapsTrigger` (`Feeds`). The arguments of `exactInputSingle` are looked for one
  word late, and for `exactInput` the offset of the struct is taken for the path's and the path's
  offset for its length: neither is decoded as what it is; `KNOWN_LIMITATIONS.md:6` lists "V3 single/multi".
* `EtherSwapsTrigger` (`Feeds`). An ether swap with no minimum at all has both amounts zero,
  and is dropped as empty; `KNOWN_LIMITATIONS.md:9` names just that as a trigger.
* `GapsHeal` (`WalletPool`). The sync never moves a counter back to a nonce whose bundle is gone;
  `troubleshooting.md:16` says to wait for it.
* `EscalatesForBlocksAhead` (`Relayer`). A rebuilt bundle keeps its first target block;
  `flashbots.md:18` speaks of "subsequent blocks".
* `ResultIsInclusion` (`Relayer`). Acceptance by a relay is reported as inclusion before the
  block exists; `EXECUTION_PIPELINE.md:10` says the bot waits for it.
* `TargetsNextBlock` (`Engine`). A failed block query counts as block 0; `main.rs:229`.
* `RewardWithinCeiling` (`Engine`, with four attempts). Escalation adds up to 45 % on top of
  the "65% hard ceiling" of `.env.example:32`.
* `SumIsExact` (`PnlLog`). Text is cast to 64 bits, and an overflowing sum reads as 0;
  `db.rs:4`.
* `StatsReturn` (`PnlLog`). `stats_summary` locks the mutex it holds; `db.rs:104`. Nothing in the
  binary calls it. `StatsNeverReturn` proves that no call of it ever does return.
* `NoUnprofitableTrade` (`ArbitrageExecutor`). The profit check does not count the ETH paid to the
  coinbase; `security.md:27`.
* `FindsNegativeCycle` (`Router`, three pools at five prices). The counter may fire before the
  predecessors close the cycle, and the token's lower label is lost;
  `tests/routing_test.rs:67`.
* `RoutesGain` (`Router`, two pools with fees). `rate_1_0` is the inverse of a rate that has the
  fee taken off, so the other direction earns the fee; `strategy.md:6`.

## 6. Not modelled

* Weighted pools, which are computed in `f64`, and the crossing of ticks, which no code
  fills: `tick_data` is empty in every pool the repository builds.
* The registry of pools: no task of the binary fills it (`Router.update_pool` has no
  caller outside tests and benchmarks), so the router is checked on arbitrary markets, and
  the decomposition into components is taken as connectedness.
  `update_competitor_floor`, which has no caller either, is modelled.
* `chain.rs`, configuration, types, metrics, latency, `multicall.rs`: tables, declarations and
  counters; nothing depends on them while the bot runs.
* Start-up and the telemetry of pool counts in `main.rs`; a stop of the process: nothing but
  the log outlives it, and what it leaves behind is the wallet pool's `StartCounts`.
* Calldata the bot writes, signatures, HTTP bodies, wording of logs.

## 7. Plan

Done: the wallet pool (the core), relayer, engine, log, both scanners and the decoder,
contract, router, pool mathematics, pricing from loan to bid; proofs of every safety
property of the passing runs.

Left, in this order:

1. The ETH the contract holds beside `Engine`, with deposits that refill it: which bundles
   revert for want of it.
2. The rates of a changing market: routes found at one block and executed at a later one.
