------------------------------- MODULE BidMath -------------------------------
(***************************************************************************)
(* The arithmetic of the executor: BiddingEngine::compute of               *)
(* src/executor/bidding.rs and the escalated rewards of                    *)
(* src/executor/relayer.rs.  Amounts are in wei; WeiPerCentigwei is 10^7   *)
(* and U32 is 2^32 in the code, smaller numbers stand for them in TLC's    *)
(* runs, whose integers have 32 bits.                                      *)
(***************************************************************************)
EXTENDS Integers

CONSTANTS
    MinProfitBps,       \* min_profit_bps
    MaxRewardBps,       \* max_miner_reward_bps
    ReferenceGwei,      \* reference_gas_price_gwei
    WeiPerCentigwei,    \* 10_000_000
    U32,                \* 2^32: u32 casts wrap here
    IncrementBps        \* ESCALATION_INCREMENT_BPS

ASSUME BpsAssumption ==
    /\ MinProfitBps \in Nat
    /\ MaxRewardBps \in Nat
    /\ ReferenceGwei \in Nat
    /\ IncrementBps \in Nat
ASSUME WidthAssumption == WeiPerCentigwei \in Nat \ {0} /\ U32 \in Nat \ {0}

NoBid == [miner_reward |-> 0, min_profit |-> 0, effective_bps |-> 0]

Lower(a, b) == IF a < b THEN a ELSE b
Higher(a, b) == IF a < b THEN b ELSE a

(* base_fee over the reference price in bps, cast to u32 *)
PressureBps(base_fee) ==
    IF ReferenceGwei = 0 THEN 10000
    ELSE (((base_fee \div WeiPerCentigwei) * 10000) \div (ReferenceGwei * 100)) % U32

(* Mutant of EffectiveBps: the ceiling is applied before the floor. *)
EffectiveUncapped(floor, base_fee) ==
    Higher(Lower((floor * PressureBps(base_fee)) \div 10000, MaxRewardBps), floor)

(* The floor scaled by the gas pressure (cast to u32), never below the *)
(* floor, never above the ceiling.                                     *)
EffectiveBps(floor, base_fee) ==
    LET scaled == ((floor * PressureBps(base_fee)) \div 10000) % U32
    IN  Lower(Higher(scaled, floor), MaxRewardBps)

NetProfit(gross, base_fee, gas) == Higher(gross - gas * base_fee, 0)

Decide(floor, gross, base_fee, gas) ==
    LET net == NetProfit(gross, base_fee, gas)
        bps == EffectiveBps(floor, base_fee)
    IN  IF net = 0 THEN NoBid
        ELSE [miner_reward |-> (net * bps) \div 10000,
              min_profit |-> (net * MinProfitBps) \div 10000,
              effective_bps |-> bps]

-----------------------------------------------------------------------------
(* Mutant of EscalatedReward: increments compound. *)
CompoundReward(original, k) ==
    original + (original * IncrementBps * k * k) \div 10000

(* Attempt k offers k increments of the opening bid, rounded down. *)
EscalatedReward(original, k) ==
    original + (original * (IncrementBps * k)) \div 10000

=============================================================================
