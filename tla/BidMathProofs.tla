---------------------------- MODULE BidMathProofs ----------------------------
(***************************************************************************)
(* Facts about the executor's arithmetic for all amounts, fees and         *)
(* configured fractions.                                                   *)
(***************************************************************************)
EXTENDS BidMath, TLAPS

(* Multiplication by a natural number is monotone. *)
LEMMA TimesMonotone ==
  ASSUME NEW a \in Nat, NEW b \in Nat, NEW c \in Nat, a <= b
  PROVE  c * a <= c * b
  <1>1. PICK d \in Nat : b = a + d
    <2>1. b - a \in Nat /\ b = a + (b - a)
      OBVIOUS
    <2>2. QED
      BY <2>1
  <1>2. c * b = c * a + c * d
    BY <1>1
  <1>3. c * a \in Nat /\ c * d \in Nat
    BY <1>1
  <1>4. QED
    BY <1>2, <1>3

(* An escalated reward lies between the opening bid and the last step. *)
LEMMA RewardBounds ==
  ASSUME NEW o \in Nat, NEW last \in Nat, NEW k \in 0 .. last
  PROVE  /\ EscalatedReward(o, k) \in Nat
         /\ EscalatedReward(o, k) >= o
         /\ EscalatedReward(o, k) * 10000 <= o * (10000 + IncrementBps * last)
  <1> DEFINE added == o * (IncrementBps * k)
  <1>1. k \in Nat /\ k <= last /\ IncrementBps \in Nat
    BY BpsAssumption
  <1>2. IncrementBps * k \in Nat /\ IncrementBps * last \in Nat /\ added \in Nat
    BY <1>1
  <1>3. added <= o * (IncrementBps * last)
    <2>1. IncrementBps * k <= IncrementBps * last
      BY <1>1, TimesMonotone
    <2>2. QED
      BY <1>2, <2>1, TimesMonotone
  <1> HIDE DEF added
  <1>4. added \div 10000 \in Nat /\ (added \div 10000) * 10000 <= added
    BY <1>2
  <1>5. o * (10000 + IncrementBps * last) = o * 10000 + o * (IncrementBps * last)
    BY <1>2
  <1>6. o * (IncrementBps * last) \in Nat
    BY <1>2
  <1>7. EscalatedReward(o, k) = o + added \div 10000
    BY DEF EscalatedReward, added
  <1>8. ASSUME NEW q \in Nat, NEW bound \in Nat, q * 10000 <= bound
        PROVE  /\ o + q \in Nat /\ o + q >= o
               /\ (o + q) * 10000 <= o * 10000 + bound
    BY <1>8
  <1>9. (added \div 10000) * 10000 <= o * (IncrementBps * last)
    BY <1>2, <1>3, <1>4, <1>6
  <1>10. QED
    BY <1>4, <1>5, <1>6, <1>7, <1>8, <1>9

(* A later attempt offers no less. *)
LEMMA RewardGrows ==
  ASSUME NEW o \in Nat, NEW last \in Nat, NEW k \in 0 .. last
  PROVE  EscalatedReward(o, k) <= EscalatedReward(o, last)
  <1> DEFINE now == o * (IncrementBps * k)
             then == o * (IncrementBps * last)
  <1>1. k \in Nat /\ k <= last /\ IncrementBps \in Nat
    BY BpsAssumption
  <1>2. IncrementBps * k \in Nat /\ IncrementBps * last \in Nat /\ now \in Nat /\ then \in Nat
    BY <1>1
  <1>3. now <= then
    <2>1. IncrementBps * k <= IncrementBps * last
      BY <1>1, TimesMonotone
    <2>2. QED
      BY <1>2, <2>1, TimesMonotone
  <1>4. EscalatedReward(o, k) = o + now \div 10000 /\ EscalatedReward(o, last) = o + then \div 10000
    BY DEF EscalatedReward
  <1> HIDE DEF now, then
  <1>5. now \div 10000 <= then \div 10000 /\ now \div 10000 \in Int /\ then \div 10000 \in Int
    BY <1>2, <1>3
  <1>6. QED
    BY <1>4, <1>5

(* The same in one piece. *)
LEMMA RewardRange ==
  ASSUME NEW o \in Nat, NEW last \in Nat, NEW k \in 0 .. last
  PROVE  /\ EscalatedReward(o, k) \in Nat
         /\ EscalatedReward(o, k) - o \in 0 .. EscalatedReward(o, last) - o
  <1>1. ASSUME NEW j \in 0 .. last
        PROVE  EscalatedReward(o, j) \in Nat /\ EscalatedReward(o, j) >= o
    BY RewardBounds
  <1>2. last \in 0 .. last
    OBVIOUS
  <1>3. EscalatedReward(o, last) \in Nat
    BY <1>1, <1>2
  <1>4. EscalatedReward(o, k) <= EscalatedReward(o, last)
    BY RewardGrows
  <1>5. QED
    BY <1>1, <1>3, <1>4

(* A share of at most 10000 rounds down to no more than the whole. *)
LEMMA ShareBounds ==
  ASSUME NEW whole \in Nat, NEW bps \in Nat
  PROVE  LET share == (whole * bps) \div 10000
         IN  share \in Nat /\ share * 10000 <= whole * bps
  <1>1. whole * bps \in Nat
    OBVIOUS
  <1>2. ASSUME NEW n \in Nat PROVE n \div 10000 \in Nat /\ (n \div 10000) * 10000 <= n
    OBVIOUS
  <1>3. QED
    BY <1>1, <1>2

(* Whatever the casts do, the fraction stays below the ceiling. *)
LEMMA EffectiveBounds ==
  ASSUME NEW floor \in Nat, NEW base_fee \in Nat
  PROVE  /\ EffectiveBps(floor, base_fee) \in Nat
         /\ EffectiveBps(floor, base_fee) <= MaxRewardBps
  <1>1. PressureBps(base_fee) \in Nat
    <2>1. CASE ReferenceGwei = 0
      BY <2>1 DEF PressureBps
    <2>2. CASE ReferenceGwei # 0
      <3>1. ReferenceGwei * 100 \in Nat \ {0} /\ base_fee \div WeiPerCentigwei \in Nat
        BY <2>2, BpsAssumption, WidthAssumption
      <3>2. ((base_fee \div WeiPerCentigwei) * 10000) \div (ReferenceGwei * 100) \in Nat
        BY <3>1
      <3>3. QED
        BY <2>2, <3>2, WidthAssumption DEF PressureBps
    <2>3. QED
      BY <2>1, <2>2
  <1>2. ((floor * PressureBps(base_fee)) \div 10000) % U32 \in Nat
    <2>1. (floor * PressureBps(base_fee)) \div 10000 \in Nat
      BY <1>1, ShareBounds
    <2>2. QED
      BY <2>1, WidthAssumption
  <1>3. QED
    BY <1>2, BpsAssumption DEF EffectiveBps, Lower, Higher

(* What is left after the gas is no more than the gross profit. *)
LEMMA NetBounds ==
  ASSUME NEW gross \in Nat, NEW fee \in Nat, NEW gas \in Nat
  PROVE  NetProfit(gross, fee, gas) \in Nat /\ NetProfit(gross, fee, gas) <= gross
  <1>1. gas * fee \in Nat
    OBVIOUS
  <1>2. QED
    BY <1>1 DEF NetProfit, Higher

(* Amounts of a bid are natural numbers. *)
LEMMA BidTypes ==
  ASSUME NEW floor \in Nat, NEW gross \in Nat, NEW fee \in Nat, NEW gas \in Nat
  PROVE  /\ Decide(floor, gross, fee, gas).miner_reward \in Nat
         /\ Decide(floor, gross, fee, gas).min_profit \in Nat
  <1> DEFINE net == NetProfit(gross, fee, gas)
             bps == EffectiveBps(floor, fee)
  <1>1. net \in Nat
    BY NetBounds
  <1>2. bps \in Nat
    BY EffectiveBounds
  <1>3. CASE net = 0
    BY <1>1, <1>3 DEF Decide, NoBid
  <1>4. CASE net # 0
    <2>1. Decide(floor, gross, fee, gas) =
            [miner_reward |-> (net * bps) \div 10000,
             min_profit |-> (net * MinProfitBps) \div 10000,
             effective_bps |-> bps]
      BY <1>4 DEF Decide
    <2>2. (net * bps) \div 10000 \in Nat /\ (net * MinProfitBps) \div 10000 \in Nat
      BY <1>1, <1>2, ShareBounds, BpsAssumption
    <2> HIDE DEF net
    <2>3. QED
      BY <2>1, <2>2
  <1>5. QED
    BY <1>3, <1>4

(* bidding.rs promises the miner and the contract fractions of what is     *)
(* left after the gas: if these fractions fit in the whole, gas, reward    *)
(* and minimum profit together never exceed the gross profit, whatever the *)
(* roundings and casts do.                                                 *)
THEOREM BidFits ==
  ASSUME NEW floor \in Nat, NEW gross \in Nat, NEW fee \in Nat, NEW gas \in Nat,
         MinProfitBps + MaxRewardBps <= 10000
  PROVE  LET bid == Decide(floor, gross, fee, gas)
         IN  bid.miner_reward + bid.min_profit + gas * fee <= Higher(gross, gas * fee)
  <1> DEFINE net == NetProfit(gross, fee, gas)
             bps == EffectiveBps(floor, fee)
             cost == gas * fee
  <1>1. cost \in Nat
    OBVIOUS
  <1>2. net \in Nat /\ net = Higher(gross - cost, 0)
    BY <1>1 DEF NetProfit, Higher
  <1>3. bps \in Nat /\ bps <= MaxRewardBps
    BY EffectiveBounds, BpsAssumption
  <1> HIDE DEF net, bps, cost
  <1>4. CASE net = 0
    BY <1>1, <1>4 DEF Decide, NoBid, Higher, net, cost
  <1>5. CASE net # 0
    <2> DEFINE reward == (net * bps) \div 10000
               least == (net * MinProfitBps) \div 10000
    <2>1. /\ Decide(floor, gross, fee, gas).miner_reward = reward
          /\ Decide(floor, gross, fee, gas).min_profit = least
      BY <1>5 DEF Decide, net, bps
    <2>2. /\ reward \in Nat /\ reward * 10000 <= net * bps
          /\ least \in Nat /\ least * 10000 <= net * MinProfitBps
      BY <1>2, <1>3, BpsAssumption, ShareBounds
    <2>3. net * bps + net * MinProfitBps <= net * 10000
      <3>1. net * (bps + MinProfitBps) <= net * 10000
        BY <1>2, <1>3, BpsAssumption, TimesMonotone
      <3>2. net * (bps + MinProfitBps) = net * bps + net * MinProfitBps
        BY <1>2, <1>3, BpsAssumption
      <3>3. QED
        BY <3>1, <3>2
    <2>4. net * bps \in Nat /\ net * MinProfitBps \in Nat
      BY <1>2, <1>3, BpsAssumption
    <2> HIDE DEF reward, least
    <2>5. reward + least <= net
      BY <1>2, <2>2, <2>3, <2>4
    <2>6. net = gross - cost /\ gross > cost
      BY <1>1, <1>2, <1>5 DEF Higher
    <2>7. reward + least + cost <= Higher(gross, cost)
      BY <1>1, <2>2, <2>5, <2>6 DEF Higher
    <2>8. QED
      BY <2>1, <2>7 DEF cost
  <1>6. QED
    BY <1>4, <1>5

=============================================================================
