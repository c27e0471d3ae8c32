------------------------------- MODULE Engine -------------------------------
(***************************************************************************)
(* src/main.rs: the main loop that takes opportunities off the bounded     *)
(* channel, the process_opportunity task it spawns for each, and the       *)
(* circuit breaker, composed with the components they call.  What those    *)
(* promise is taken from their own modules: a nonce per call in increasing *)
(* order (NonceAllocator, one wallet here), attempts with escalating       *)
(* rewards that end on acceptance (Relayer), the bid (BidMath), and a row  *)
(* per log_bundle with the sum over a sliding window (PnlLog).             *)
(*                                                                         *)
(* Both producers only send actionable opportunities, so the loop's        *)
(* is_actionable test is not a branch here.  The chain id, a third RPC     *)
(* call, decides nothing below.  A release build wraps arithmetic on       *)
(* machine integers and ends the whole process on a panic (Cargo.toml).    *)
(* I128 is 2^127 in the code.                                              *)
(***************************************************************************)
EXTENDS BidMath, LogMath, Sequences

CONSTANTS
    Opps,           \* opportunities the scanners find
    QueueSize,      \* capacity of the opportunity channel (1024)
    FloorBps,       \* competitor_floor_bps, which main.rs never updates
    Profits,        \* Profits[o]: gross profits the simulator may find for o
    NodeFees,       \* gas prices the node may report
    FallbackFee,    \* the gas price used when the node fails
    GasUsed,        \* sim_result.gas_used
    MaxAttempts,    \* MAX_ESCALATION_ATTEMPTS
    MaxLosses,      \* values circuit_breaker_max_loss_wei may be set to
    I128,           \* 2^127: i128 wraps here
    Extras,         \* what a mined trade may make above its minimum
    GasCosts,       \* what the wallet may pay for the gas of a mined bundle
    MaxHead         \* bound: the chain is followed up to this block

ASSUME EngineAssumption ==
    /\ FloorBps \in Nat
    /\ \A o \in Opps : Profits[o] \subseteq Nat
    /\ NodeFees \subseteq Nat
    /\ FallbackFee \in Nat
    /\ GasUsed \in Nat
    /\ MaxAttempts \in Nat \ {0}
    /\ I128 \in Nat \ {0}
    /\ MaxLosses \subseteq 0 .. 2 * I128 - 1
    /\ Extras \subseteq Nat /\ GasCosts \subseteq Nat

VARIABLES
    running,        \* no task has panicked
    kill,           \* KILL_SWITCH
    dry_run,        \* config.cli.dry_run
    max_loss,       \* circuit_breaker_max_loss_wei
    queue,          \* the opportunity channel
    pc,             \* where each opportunity is
    block, fee, gross, nonce, attempt, included,    \* locals of its task
    next_nonce,     \* of the wallet pool
    rows,           \* rows[o]: the bundle_logs row of o, or NoRow
    totals,         \* totals[i + 1]: the sum of the first i logged profits
    oldest,         \* rows up to this one have left the rolling window
    posted,         \* external: versions (attempts) of o the relays were sent
    head, count,    \* external: the latest block, the wallet's mined nonces
    landed,         \* external: the version of o that was mined
    realised,       \* external: what it left in the wallet, gas and miner paid
    late            \* history: what the loop had not taken when kill was set

localVars == <<block, fee, gross, nonce, attempt, included>>
dbVars == <<rows, totals, oldest>>
chainVars == <<head, count, landed, realised>>
modeVars == <<running, kill, dry_run, max_loss, late>>
vars == <<modeVars, queue, pc, localVars, next_nonce, dbVars, posted, chainVars>>

NoRow == [status |-> "none"]
NoVersion == -1
Ended == {"lost", "dropped", "done"}

Goto(o, label) == pc' = [pc EXCEPT ![o] = label]
Bid(o) == Decide(FloorBps, gross[o], fee[o], GasUsed)

(* as i128 *)
Signed(n) == ((n + I128) % (2 * I128)) - I128

(* The contract pays the miner the reward of the version that landed. *)
Paid(o) == EscalatedReward(Bid(o).miner_reward, landed[o])

(* SUM over the rows still in the window, or 0 when it raises an error *)
rolling_pnl ==
    IF \A i \in oldest + 1 .. Len(totals) : Fits(totals[i] - totals[oldest + 1])
    THEN totals[Len(totals)] - totals[oldest + 1]
    ELSE 0

-----------------------------------------------------------------------------
Init ==
    /\ running = TRUE
    /\ kill \in BOOLEAN
    /\ dry_run \in BOOLEAN
    /\ max_loss \in MaxLosses
    /\ late = (IF kill THEN Opps ELSE {})
    /\ queue = <<>>
    /\ pc = [o \in Opps |-> "new"]
    /\ block = [o \in Opps |-> 0]
    /\ fee = [o \in Opps |-> 0]
    /\ gross = [o \in Opps |-> 0]
    /\ nonce = [o \in Opps |-> 0]
    /\ attempt = [o \in Opps |-> 0]
    /\ included = [o \in Opps |-> FALSE]
    /\ next_nonce = 0
    /\ rows = [o \in Opps |-> NoRow]
    /\ totals = <<0>>
    /\ oldest = 0
    /\ posted = [o \in Opps |-> {}]
    /\ head = 1
    /\ count = 0
    /\ landed = [o \in Opps |-> NoVersion]
    /\ realised = [o \in Opps |-> 0]

-----------------------------------------------------------------------------
(* The channel and the main loop. *)

(* A scanner's try_send: a full channel loses the opportunity. *)
Arrive(o) ==
    /\ running
    /\ pc[o] = "new"
    /\ IF Len(queue) < QueueSize
       THEN queue' = Append(queue, o) /\ Goto(o, "queued")
       ELSE UNCHANGED queue /\ Goto(o, "lost")
    /\ UNCHANGED <<modeVars, localVars, next_nonce, dbVars, posted, chainVars>>

(* Mutant of Recv: the kill switch is looked at when the engine starts only. *)
RecvAnyway ==
    /\ running
    /\ queue # <<>>
    /\ queue' = Tail(queue)
    /\ Goto(Head(queue), IF late = Opps THEN "dropped" ELSE "routes")
    /\ UNCHANGED <<modeVars, localVars, next_nonce, dbVars, posted, chainVars>>

(* recv: dropped under the kill switch, else a task is spawned. *)
Recv ==
    /\ running
    /\ queue # <<>>
    /\ queue' = Tail(queue)
    /\ Goto(Head(queue), IF kill THEN "dropped" ELSE "routes")
    /\ UNCHANGED <<modeVars, localVars, next_nonce, dbVars, posted, chainVars>>

-----------------------------------------------------------------------------
(* process_opportunity, up to the signed bundle. *)

(* No route, or none that can be executed, ends the task. *)
FindRoute(o) ==
    /\ running
    /\ pc[o] = "routes"
    /\ \E next \in {"done", "chain"} : Goto(o, next)
    /\ UNCHANGED <<modeVars, queue, localVars, next_nonce, dbVars, posted, chainVars>>

(* get_block_number().unwrap_or(0) + 1; get_gas_price() or 20 gwei *)
ReadChain(o) ==
    /\ running
    /\ pc[o] = "chain"
    /\ \E latest \in {head, 0} : block' = [block EXCEPT ![o] = latest + 1]
    /\ \E price \in NodeFees \cup {FallbackFee} : fee' = [fee EXCEPT ![o] = price]
    /\ Goto(o, "simulate")
    /\ UNCHANGED <<modeVars, queue, gross, nonce, attempt, included, next_nonce,
                   dbVars, posted, chainVars>>

(* No profitable size, no profit or no reward ends the task. *)
Simulate(o) ==
    /\ running
    /\ pc[o] = "simulate"
    /\ \E profit \in Profits[o] \cup {0} :
          /\ gross' = [gross EXCEPT ![o] = profit]
          /\ Goto(o, IF Decide(FloorBps, profit, fee[o], GasUsed).miner_reward = 0
                     THEN "done" ELSE "nonce")
    /\ UNCHANGED <<modeVars, queue, block, fee, nonce, attempt, included, next_nonce,
                   dbVars, posted, chainVars>>

(* execute_with_wallet, whose callback always returns Ok *)
TakeNonce(o) ==
    /\ running
    /\ pc[o] = "nonce"
    /\ nonce' = [nonce EXCEPT ![o] = next_nonce]
    /\ next_nonce' = next_nonce + 1
    /\ Goto(o, "sign")
    /\ UNCHANGED <<modeVars, queue, block, fee, gross, attempt, included,
                   dbVars, posted, chainVars>>

(* A signing error or a dry run ends the task; the nonce stays consumed. *)
Sign(o) ==
    /\ running
    /\ pc[o] = "sign"
    /\ \E next \in {"done", "post"} : Goto(o, IF dry_run THEN "done" ELSE next)
    /\ UNCHANGED <<modeVars, queue, localVars, next_nonce, dbVars, posted, chainVars>>

-----------------------------------------------------------------------------
(* submit_with_escalation and the log. *)

(* One attempt goes out to the relays, unless its auth header fails. *)
Post(o) ==
    /\ running
    /\ pc[o] = "post"
    /\ \/ posted' = [posted EXCEPT ![o] = @ \cup {attempt[o]}]
       \/ UNCHANGED posted
    /\ Goto(o, "answer")
    /\ UNCHANGED <<modeVars, queue, localVars, next_nonce, dbVars, chainVars>>

Accepted(o) ==
    /\ running
    /\ pc[o] = "answer"
    /\ attempt[o] \in posted[o]
    /\ included' = [included EXCEPT ![o] = TRUE]
    /\ Goto(o, "log")
    /\ UNCHANGED <<modeVars, queue, block, fee, gross, nonce, attempt, next_nonce,
                   dbVars, posted, chainVars>>

(* Mutant of NotAccepted: attempts are not counted. *)
NotAcceptedAgain(o) ==
    /\ running
    /\ pc[o] = "answer"
    /\ Goto(o, "post")
    /\ UNCHANGED <<modeVars, queue, localVars, next_nonce, dbVars, posted, chainVars>>

(* Every relay refused or failed: the next attempt, signed again with the  *)
(* same nonce and block, or the end when that fails or was the last.       *)
NotAccepted(o) ==
    /\ running
    /\ pc[o] = "answer"
    /\ \/ /\ attempt[o] + 1 < MaxAttempts
          /\ attempt' = [attempt EXCEPT ![o] = @ + 1]
          /\ Goto(o, "post")
       \/ UNCHANGED attempt /\ Goto(o, "log")
    /\ UNCHANGED <<modeVars, queue, block, fee, gross, nonce, included, next_nonce,
                   dbVars, posted, chainVars>>

(* Mutant of LoggedNet: the reward is deducted twice, without saturation. *)
NetPaidTwice(o) == gross[o] - 2 * Bid(o).miner_reward - GasUsed * fee[o]

(* gross.saturating_sub(bid.miner_reward).saturating_sub(gas_cost) *)
LoggedNet(o) ==
    Higher(Higher(gross[o] - Bid(o).miner_reward, 0) - GasUsed * fee[o], 0)

(* Both amounts fit to::<u128>(). *)
Convertible(o) == Bid(o).miner_reward < 2 * I128 /\ LoggedNet(o) < 2 * I128

(* log_bundle: an insert that fails is only traced. *)
Log(o) ==
    /\ running
    /\ pc[o] = "log" /\ Convertible(o)
    /\ \/ /\ rows' = [rows EXCEPT ![o] =
                        [status |-> IF included[o] THEN "INCLUDED" ELSE "SUBMITTED",
                         reward |-> Bid(o).miner_reward,
                         net |-> Signed(LoggedNet(o))]]
          /\ totals' = Append(totals, totals[Len(totals)] + Cast(Signed(LoggedNet(o))))
       \/ UNCHANGED <<rows, totals>>
    /\ Goto(o, "done")
    /\ UNCHANGED <<modeVars, queue, localVars, next_nonce, oldest, posted, chainVars>>

(* to::<u128>() panics before anything is logged. *)
LogPanics(o) ==
    /\ running
    /\ pc[o] = "log" /\ ~Convertible(o)
    /\ running' = FALSE
    /\ UNCHANGED <<kill, dry_run, max_loss, late, queue, pc, localVars, next_nonce, dbVars,
                   posted, chainVars>>

-----------------------------------------------------------------------------
(* The circuit breaker task and the sliding of its window. *)

(* What the main loop has not taken off the channel yet. *)
Untaken == {o \in Opps : pc[o] \in {"new", "queued"}}

(* Mutant of Breaker: the comparison is turned round. *)
BreakerReversed ==
    /\ running
    /\ kill' = (kill \/ rolling_pnl > Signed(-max_loss))
    /\ late' = (IF kill' = kill THEN late ELSE Untaken)
    /\ UNCHANGED <<running, dry_run, max_loss, queue, pc, localVars, next_nonce, dbVars, posted,
                   chainVars>>

(* if pnl < -(max_loss_wei as i128) { KILL_SWITCH.store(true) } *)
Breaker ==
    /\ running
    /\ kill' = (kill \/ rolling_pnl < Signed(-max_loss))
    /\ late' = (IF kill' = kill THEN late ELSE Untaken)
    /\ UNCHANGED <<running, dry_run, max_loss, queue, pc, localVars, next_nonce, dbVars, posted,
                   chainVars>>

WindowSlides ==
    /\ running
    /\ oldest + 1 < Len(totals)
    /\ oldest' = oldest + 1
    /\ UNCHANGED <<modeVars, queue, pc, localVars, next_nonce, rows, totals, posted, chainVars>>

-----------------------------------------------------------------------------
(* External: the block under construction may hold a posted version whose  *)
(* nonce is next.  The contract reverts below min_profit, and only there:  *)
(* the trade may make more than was simulated and its gas may cost less.   *)
Land(o) ==
    /\ landed[o] = NoVersion
    /\ block[o] = head + 1
    /\ nonce[o] = count
    /\ \E v \in posted[o], extra \in Extras, cost \in GasCosts :
          /\ landed' = [landed EXCEPT ![o] = v]
          /\ realised' = [realised EXCEPT ![o] =
                Bid(o).min_profit + extra - EscalatedReward(Bid(o).miner_reward, v) - cost]
    /\ count' = count + 1
    /\ UNCHANGED <<modeVars, queue, pc, localVars, next_nonce, dbVars, posted, head>>

Seal ==
    /\ head < MaxHead
    /\ head' = head + 1
    /\ UNCHANGED <<modeVars, queue, pc, localVars, next_nonce, dbVars, posted, count, landed,
                   realised>>

(* A process that has ended stays so. *)
Halted == ~running /\ UNCHANGED vars

-----------------------------------------------------------------------------
(* What a task does by itself, and what it asks the graph and the node.    *)
Work(o) ==
    Simulate(o) \/ TakeNonce(o) \/ Sign(o) \/ Post(o) \/ Accepted(o) \/ NotAccepted(o)
        \/ Log(o) \/ LogPanics(o)
Ask(o) == FindRoute(o) \/ ReadChain(o)

Next ==
    \/ Recv \/ Breaker \/ WindowSlides \/ Seal \/ Halted
    \/ \E o \in Opps : Arrive(o) \/ Ask(o) \/ Work(o) \/ Land(o)

Spec == Init /\ [][Next]_vars

(* The loop and the spawned tasks are scheduled, the relays answer or time *)
(* out, the breaker's timer ticks.  Nothing says that a search of the      *)
(* graph ends, or that the node, asked without a timeout, answers.  Each   *)
(* subscript is what every step of the action changes.                     *)
FairSpec ==
    /\ Spec
    /\ WF_queue(Recv)
    /\ WF_kill(Breaker)
    /\ \A o \in Opps : WF_<<running, pc>>(Work(o))

-----------------------------------------------------------------------------
(* Properties *)

(* The types of all variables. *)
TypeOK ==
    /\ running \in BOOLEAN
    /\ kill \in BOOLEAN
    /\ dry_run \in BOOLEAN
    /\ max_loss \in MaxLosses
    /\ late \subseteq Opps
    /\ queue \in Seq(Opps)
    /\ pc \in [Opps -> {"new", "queued", "routes", "chain", "simulate", "nonce", "sign",
                        "post", "answer", "log"} \cup Ended]
    /\ block \in [Opps -> Nat]
    /\ fee \in [Opps -> Nat]
    /\ gross \in [Opps -> Nat]
    /\ nonce \in [Opps -> Nat]
    /\ attempt \in [Opps -> 0 .. MaxAttempts - 1]
    /\ included \in [Opps -> BOOLEAN]
    /\ next_nonce \in Nat
    /\ rows \in [Opps -> {NoRow} \cup
                    [status : {"INCLUDED", "SUBMITTED"}, reward : Nat, net : Int]]
    /\ totals \in Seq(Int) /\ totals # <<>>
    /\ oldest \in 0 .. Len(totals) - 1
    /\ posted \in [Opps -> SUBSET (0 .. MaxAttempts - 1)]
    /\ head \in Nat
    /\ count \in Nat
    /\ landed \in [Opps -> 0 .. MaxAttempts - 1 \cup {NoVersion}]
    /\ realised \in [Opps -> Int]

(* In a dry run, and for every opportunity that was still to be taken off  *)
(* the channel when the kill switch was set, at the start or by the        *)
(* breaker while other tasks were under way, nothing is sent to a relay,   *)
(* no nonce of the wallet is used on chain, no row is logged.              *)
SilentWhenTold ==
    \A o \in Opps :
        dry_run \/ o \in late =>
            posted[o] = {} /\ landed[o] = NoVersion /\ rows[o] = NoRow

(* The reward that is logged is the opening one, whatever was paid, so the *)
(* row of a mined bundle is off from what the simulated profit left after  *)
(* the miner by the raises, and by nothing else, as long as the profit     *)
(* fits an i128.                                                           *)
LogOffByRaises ==
    \A o \in Opps :
        (rows[o] # NoRow /\ landed[o] # NoVersion /\ gross[o] < I128) =>
            LET reward == Bid(o).miner_reward
                left == gross[o] - Paid(o) - GasUsed * fee[o]
            IN  rows[o].net - left
                    \in 0 .. EscalatedReward(reward, MaxAttempts - 1) - reward

(* The circuit breaker does not trip on losses.  It takes a conversion     *)
(* that wrapped: that of the loss limit, or that of a logged profit.       *)
BreakerTripsOnWraps ==
    [][kill' # kill =>
          max_loss > I128 \/ \E o \in Opps : rows[o] # NoRow /\ rows[o].net < 0]_vars

(* If searches of the graph end (one that does not keeps a worker thread)  *)
(* and the node answers its task, every opportunity that enters the        *)
(* channel is finished with, unless a panic ends the process: no other     *)
(* task that waits for the node can hold it up.                            *)
OpportunitiesEnd ==
    \A o \in Opps :
        []<>(pc[o] # "chain" /\ \A q \in Opps : pc[q] # "routes")
            => []<>(pc[o] \in {"new"} \cup Ended \/ ~running)

-----------------------------------------------------------------------------
(* Claims of the documentation.  TLC refutes them: see the README. *)

(* security.md: "An automatic monitor halts execution if rolling PnL drops *)
(* below a safe threshold."  Here for one logged trade that lost more.     *)
LossTripsBreaker ==
    \A o \in Opps :
        (rows[o] # NoRow /\ landed[o] # NoVersion /\ realised[o] < -max_loss)
            ~> (kill \/ ~running)

(* main.rs: "Live chain state - no hardcoding." *)
TargetsNextBlock ==
    [][\A o \in Opps : block'[o] # block[o] => block'[o] = head + 1]_vars

(* .env.example: "65% hard ceiling on miner reward" *)
RewardWithinCeiling ==
    \A o \in Opps :
        landed[o] # NoVersion =>
            Paid(o) * 10000 <= NetProfit(gross[o], fee[o], GasUsed) * MaxRewardBps

(* main.rs: "Log to DB with real block + net profit."  The reward that is  *)
(* deducted is the one the mined version paid.                             *)
LoggedRewardIsPaid ==
    \A o \in Opps :
        (rows[o] # NoRow /\ rows[o].status = "INCLUDED" /\ landed[o] # NoVersion)
            => rows[o].reward = Paid(o)

=============================================================================
