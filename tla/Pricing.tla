------------------------------ MODULE Pricing ------------------------------
(***************************************************************************)
(* From a route to a priced bundle: simulate_math of src/simulator/evm.rs  *)
(* tries a grid of loan sizes on the route's chain of swaps, then a few    *)
(* sizes around the best one so far; BiddingEngine of                      *)
(* src/executor/bidding.rs turns its profit and gas into the miner's       *)
(* reward and the minimum profit the contract is to insist on.  The floor  *)
(* of what competitors pay is shared and observed by another task.         *)
(*                                                                         *)
(* Shares of 10_000 in pools and loans are shares of Basis, gas is counted *)
(* in small units, and amounts are small.                                  *)
(***************************************************************************)
EXTENDS PoolMath, BidMath

CONSTANTS
    Routes,         \* sequences of legs that close a loop
    Premium,        \* flash_loan_premium_bps
    Candidates,     \* CANDIDATES
    Factors,        \* of the local search, in Basis
    GasOverhead, GasPerLeg, GasPerTick,     \* 120_000, 85_000, 15_000
    BaseRewardBps,  \* base_miner_reward_bps
    ObservedBps,    \* floors a competitor may be observed to pay
    BaseFees        \* base fees the node may report

ASSUME PricingAssumption ==
    /\ Premium \in Nat
    /\ Candidates \in Seq(Nat \ {0}) /\ Candidates # <<>>
    /\ Factors \in Seq(Nat) /\ Factors # <<>>
    /\ {GasOverhead, GasPerLeg, GasPerTick, BaseRewardBps} \subseteq Nat
    /\ ObservedBps \subseteq Nat /\ BaseFees \subseteq Nat
ASSUME RouteAssumption ==
    \A r \in Routes :
        /\ Len(r) \in Nat \ {0} /\ DOMAIN r = 1 .. Len(r)
        /\ \A n \in DOMAIN r : IsPair(r[n]) \/ IsConcentrated(r[n]) \/ IsStable(r[n])

VARIABLES
    route,
    best_profit, best_loan, best_gas,
    k,              \* the candidate or factor that is next
    pc,
    competitor_floor_bps,
    base_fee, bid   \* what compute was called with and what it returned

searchVars == <<route, best_profit, best_loan, best_gas, k>>
vars == <<searchVars, pc, competitor_floor_bps, base_fee, bid>>

-----------------------------------------------------------------------------
(* execute_chain: what is left of the loan after each leg, and the gas.    *)
(* A leg that returns nothing ends it.                                     *)
Traded(leg, before) ==
    LET swap == simulate_swap(leg, before.amount)
    IN  IF before.amount = 0 THEN before
        ELSE [amount |-> swap.out,
              gas |-> before.gas + GasPerLeg + swap.ticks * GasPerTick]

Chain(legs, loan) ==
    LET at[n \in 0 .. Len(legs)] ==
            IF n = 0 THEN [amount |-> loan, gas |-> GasOverhead]
            ELSE Traded(legs[n], at[n - 1])
    IN  at

AmountAfter(legs, n, loan) == Chain(legs, loan)[n].amount
final_amount(loan) == AmountAfter(route, Len(route), loan)

(* Mutant of premium: the loan is free. *)
NoPremium(loan) == 0

premium(loan) == (loan * Premium) \div Basis

(* Negative where the code goes on without an error. *)
net(loan) == final_amount(loan) - loan - premium(loan)

-----------------------------------------------------------------------------
Init ==
    /\ route \in Routes
    /\ best_profit = 0 /\ best_loan = 0 /\ best_gas = 0
    /\ k = 1
    /\ pc = "candidates"
    /\ competitor_floor_bps = BaseRewardBps
    /\ base_fee = 0
    /\ bid = NoBid

(* Mutant of Try: any profit replaces the best. *)
TryLast(loan) ==
    IF loan > 0 /\ net(loan) > 0
    THEN /\ best_profit' = net(loan) /\ best_loan' = loan
         /\ best_gas' = Chain(route, loan)[Len(route)].gas
    ELSE UNCHANGED <<best_profit, best_loan, best_gas>>

Try(loan) ==
    IF loan > 0 /\ net(loan) > best_profit
    THEN /\ best_profit' = net(loan) /\ best_loan' = loan
         /\ best_gas' = Chain(route, loan)[Len(route)].gas
    ELSE UNCHANGED <<best_profit, best_loan, best_gas>>

TryCandidate ==
    /\ pc = "candidates"
    /\ Try(Candidates[k])
    /\ IF k < Len(Candidates) THEN k' = k + 1 /\ UNCHANGED pc
       ELSE k' = 1 /\ pc' = IF best_loan' = 0 THEN "none" ELSE "around"
    /\ UNCHANGED <<route, competitor_floor_bps, base_fee, bid>>

(* The factor applies to the best loan so far, not to the best candidate. *)
TryAround ==
    /\ pc = "around"
    /\ Try((best_loan * Factors[k]) \div Basis)
    /\ IF k < Len(Factors) THEN k' = k + 1 /\ UNCHANGED pc
       ELSE pc' = "found" /\ UNCHANGED k
    /\ UNCHANGED <<route, competitor_floor_bps, base_fee, bid>>

(* Exponential moving average, 8 parts old and 2 parts observed.  It may   *)
(* come at any time; only compute reads it, so it is taken just before.    *)
update_competitor_floor(observed) ==
    /\ pc = "found"
    /\ competitor_floor_bps' = (competitor_floor_bps * 8 + observed * 2) \div 10
    /\ UNCHANGED <<searchVars, pc, base_fee, bid>>

compute(fee) ==
    /\ pc = "found"
    /\ base_fee' = fee
    /\ bid' = Decide(competitor_floor_bps, best_profit, fee, best_gas)
    /\ pc' = "bid"
    /\ UNCHANGED <<searchVars, competitor_floor_bps>>

Next ==
    \/ TryCandidate \/ TryAround
    \/ \E o \in ObservedBps : update_competitor_floor(o)
    \/ \E fee \in BaseFees : compute(fee)

Spec == Init /\ [][Next]_vars

-----------------------------------------------------------------------------
(* Properties *)

(* The loan found can be paid back from what its chain of swaps returns,   *)
(* premium and promised profit included, and no candidate does better,     *)
(* wherever the steps around the best one have led.                        *)
FoundIsBest ==
    pc = "found" =>
        /\ final_amount(best_loan) >= best_loan + premium(best_loan) + best_profit
        /\ \A c \in DOMAIN Candidates : net(Candidates[c]) <= best_profit

(* Swaps whose output is rounded down from the exact one: through a pair;  *)
(* of token1 into a concentrated pool, if the step ends before its target  *)
(* and the product it divides by does not wrap.  Of the other swaps see    *)
(* ConcentratedIsExact.                                                    *)
Conservative(leg, in) ==
    \/ leg.kind = "v2"
    \/ LET after == leg.sqrt_price + Raise(leg, remaining_less_fee(leg, in))
       IN  /\ leg.kind = "v3" /\ ~leg.zero_for_one
           /\ in_to_target(leg) > remaining_less_fee(leg, in)
           /\ leg.sqrt_price * after < Word

(* A loan is only found where trading a little, with every fee paid, would *)
(* gain: a route the router was wrong about is turned down, whatever the   *)
(* roundings add up to, as long as each swap's is in the pool's favour.    *)
Received(leg) ==
    IF leg.kind = "v2" THEN leg.res_out * (Basis - leg.fee) ELSE Q * Q * (Pips - leg.fee)
Paid(leg) ==
    IF leg.kind = "v2" THEN leg.res_in * Basis ELSE leg.sqrt_price * leg.sqrt_price * Pips
Product(factors) ==
    LET upTo[n \in 0 .. Len(factors)] == IF n = 0 THEN 1 ELSE upTo[n - 1] * factors[n]
    IN  upTo[Len(factors)]
GainsNeedAnEdge ==
    best_loan > 0
    /\ (\A n \in DOMAIN route : Conservative(route[n], AmountAfter(route, n - 1, best_loan))) =>
        Product([n \in DOMAIN route |-> Received(route[n])])
            > Product([n \in DOMAIN route |-> Paid(route[n])])

(* pool.rs: "Exact pool math".  A pair accepts a swap if the product of    *)
(* its balances, the fee taken off, does not fall; a concentrated pool     *)
(* moves its price by the amount over the liquidity.                       *)
Accepts(leg, in, out) ==
    IF leg.kind = "v2"
    THEN out < leg.res_out /\
         (leg.res_in * Basis + in * (Basis - leg.fee)) * (leg.res_out - out)
             >= leg.res_in * Basis * leg.res_out
    ELSE LET p == leg.sqrt_price  l == leg.liquidity
         IN  IF leg.zero_for_one
             THEN out * Q * (l * Q + in * p) <= l * in * p * p
             ELSE out * p * (p * l + in * Q) <= in * Q * Q * l

(* Every swap of a loan that is found and rounded down is one its pool     *)
(* accepts: the steps that lead to it, whose products may wrap, understate *)
(* the amount.  A pair accepts no larger one.                              *)
SwapsAreExact ==
    best_loan > 0 =>
        \A n \in DOMAIN route :
            LET in == AmountAfter(route, n - 1, best_loan)
                out == AmountAfter(route, n, best_loan)
            IN  /\ Conservative(route[n], in) => Accepts(route[n], in, out)
                /\ route[n].kind = "v2" => ~Accepts(route[n], in, out + 1)

(* A step through a concentrated pool takes no more than it is given, also *)
(* when liquidity * delta * 2^96 wraps: the subtraction that follows it    *)
(* cannot, and send the loop round with an enormous remainder.             *)
ConcentratedTakesNoMore ==
    best_loan > 0 =>
        \A n \in DOMAIN route :
            LET in == AmountAfter(route, n - 1, best_loan)
            IN  route[n].kind = "v3" /\ in > 0 =>
                    LET step == compute_swap_step(route[n], in)
                    IN  step.in + step.fee <= in

(* The gas, the miner's reward and the profit asked of the contract fit    *)
(* together in the profit found when the two fractions fit in the net one, *)
(* whatever floor was observed and whether or not a cast wrapped.          *)
MinimumAndRewardFit ==
    pc = "bid" /\ MinProfitBps + MaxRewardBps <= 10000 =>
        bid.miner_reward + bid.min_profit + best_gas * base_fee
            <= Higher(best_profit, best_gas * base_fee)

(* The bundle built from a bid passes the contract's check when the pools  *)
(* are as simulated, whichever way the lending pool rounds its premium:    *)
(* ArbitrageExecutor.sol asks for the premium and min_profit on top of     *)
(* what it held with the loan.                                             *)
BidPassesCheck ==
    pc = "bid" /\ bid # NoBid =>
        LET gained == final_amount(best_loan) - best_loan
            charged == (best_loan * Premium + Basis - 1) \div Basis
        IN  gained >= charged + bid.min_profit

-----------------------------------------------------------------------------
(* Claims of the documentation.  TLC refutes them: see the README. *)

(* KNOWN_LIMITATIONS.md: "Curve/Balancer legs simulate correctly".  No     *)
(* swap of a loan that is found pays out more than the pool holds.         *)
PaysFromBalances ==
    best_loan > 0 =>
        \A n \in DOMAIN route :
            route[n].kind = "curve" =>
                AmountAfter(route, n, best_loan) <= route[n].balances[2]

(* pool.rs: "Exact pool math for UniswapV2, UniswapV3".  A concentrated    *)
(* pool never returns more than its liquidity pays for.                    *)
ConcentratedIsExact ==
    best_loan > 0 =>
        \A n \in DOMAIN route :
            route[n].kind = "v3" =>
                Accepts(route[n], AmountAfter(route, n - 1, best_loan),
                        AmountAfter(route, n, best_loan))

=============================================================================
