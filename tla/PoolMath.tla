------------------------------ MODULE PoolMath ------------------------------
(***************************************************************************)
(* src/router/pool.rs: what a swap is simulated to return.  A leg is a     *)
(* pool taken in the direction of the leg:                                 *)
(*   constant product   [kind |-> "v2", res_in, res_out, fee]              *)
(*   concentrated       [kind |-> "v3", zero_for_one, sqrt_price,          *)
(*                       liquidity, fee]                                   *)
(*   stable             [kind |-> "curve", balances, amp, fee]             *)
(* Balances are 256-bit numbers whose sums, differences and products wrap  *)
(* at Word.  Those of a constant-product pool never reach it: reserves     *)
(* have at most 112 bits on chain and loans less than 66.                  *)
(*                                                                         *)
(* A swap that fails gives 0, like one that rounds down to nothing: both   *)
(* end the chain.  No code of the repository fills the ticks of a          *)
(* concentrated pool, so its loop stops at the first tick it looks for.    *)
(* Weighted pools are computed in f64 and left out.                        *)
(***************************************************************************)
EXTENDS Integers, SequencesExt

CONSTANTS
    Basis,          \* 10_000
    Pips,           \* 1_000_000, unit of a concentrated pool's fee
    Q,              \* q96: 2^96
    Word,           \* 2^256
    MaxSqrt,        \* MAX_SQRT_RATIO: 2^232 - 1
    Rounds          \* 255, Newton iterations

MinSqrt == 1        \* MIN_SQRT_RATIO

ASSUME PoolMathAssumption ==
    /\ Basis \in Nat \ {0} /\ Pips \in Nat \ {0} /\ Q \in Nat \ {0}
    /\ Word \in Nat \ {0} /\ MaxSqrt \in 1 .. Word - 1 /\ Rounds \in Nat

Add(a, b) == (a + b) % Word
Sub(a, b) == (a - b) % Word
Mul(a, b) == (a * b) % Word

Distance(a, b) == IF a < b THEN b - a ELSE a - b

(* What legs are made of.  The router takes no concentrated pool whose     *)
(* price is 0, as it has no exchange rate; a price has 160 bits on chain   *)
(* and MAX_SQRT_RATIO 232.                                                 *)
IsPair(leg) ==
    /\ leg.kind = "v2"
    /\ leg.res_in \in Nat /\ leg.res_out \in Nat /\ leg.fee \in 0 .. Basis
IsConcentrated(leg) ==
    /\ leg.kind = "v3"
    /\ leg.zero_for_one \in BOOLEAN
    /\ leg.sqrt_price \in 1 .. MaxSqrt /\ leg.liquidity \in Nat /\ leg.fee \in 0 .. Pips - 1
IsStable(leg) ==
    /\ leg.kind = "curve"
    /\ leg.balances \in Seq(0 .. Word - 1) /\ leg.amp \in Nat /\ leg.fee \in Nat

-----------------------------------------------------------------------------
(* Mutants of uniswap_v2_swap: no price impact; no fee. *)
SwapAtSpot(leg, amount_in) ==
    IF leg.res_in = 0 \/ leg.res_out = 0 \/ amount_in = 0 THEN 0
    ELSE (amount_in * (Basis - leg.fee) * leg.res_out) \div (leg.res_in * Basis)
SwapFree(leg, amount_in) ==
    IF leg.res_in = 0 \/ leg.res_out = 0 \/ amount_in = 0 THEN 0
    ELSE (amount_in * leg.res_out) \div (leg.res_in + amount_in)

uniswap_v2_swap(leg, amount_in) ==
    IF leg.res_in = 0 \/ leg.res_out = 0 \/ amount_in = 0 THEN 0
    ELSE LET with_fee == amount_in * (Basis - leg.fee)
         IN  (with_fee * leg.res_out) \div (leg.res_in * Basis + with_fee)

-----------------------------------------------------------------------------
(* Concentrated liquidity *)

target(leg) == IF leg.zero_for_one THEN MinSqrt ELSE MaxSqrt

(* The amounts of either token between two prices. *)
Amount1(leg, moved) == Mul(leg.liquidity, moved) \div Q
Amount0(leg, moved, to) ==
    Mul(Mul(leg.liquidity, moved), Q) \div Mul(leg.sqrt_price, to)

(* How far an amount of token1 raises the price. *)
Raise(leg, in) == Mul(in, Q) \div leg.liquidity

remaining_less_fee(leg, remaining) == Mul(remaining, Pips - leg.fee) \div Pips
in_to_target(leg) ==
    LET moved == Distance(leg.sqrt_price, target(leg))
    IN  IF leg.zero_for_one THEN Amount0(leg, moved, target(leg)) ELSE Amount1(leg, moved)

(* The amount reaches its target: the fee comes on top. *)
Reach(leg, in) ==
    LET moved == Distance(leg.sqrt_price, target(leg))
    IN  [in |-> in,
         out |-> IF leg.zero_for_one THEN Amount1(leg, moved)
                 ELSE Amount0(leg, moved, target(leg)),
         fee |-> Mul(in, leg.fee) \div (Pips - leg.fee)]

(* Everything is consumed before the target. *)
Consume(leg, in, remaining) ==
    [in |-> in,
     out |-> IF leg.zero_for_one
             THEN LET paid == Mul(in, leg.sqrt_price)
                  IN  Amount1(leg, Mul(paid, Q) \div Add(Mul(leg.liquidity, Q), paid))
             ELSE Amount0(leg, Raise(leg, in), Add(leg.sqrt_price, Raise(leg, in))),
     fee |-> remaining - in]

(* Mutant of compute_swap_step: whether the target is reached is asked of  *)
(* the amount with the fee.                                                *)
compute_swap_step_gross(leg, remaining) ==
    IF in_to_target(leg) <= remaining THEN Reach(leg, in_to_target(leg))
    ELSE Consume(leg, remaining_less_fee(leg, remaining), remaining)

compute_swap_step(leg, remaining) ==
    IF in_to_target(leg) <= remaining_less_fee(leg, remaining) THEN Reach(leg, in_to_target(leg))
    ELSE Consume(leg, remaining_less_fee(leg, remaining), remaining)

(* One step, and a tick counted if it leaves something. *)
uniswap_v3_swap(leg, amount_in) ==
    IF amount_in = 0 \/ leg.sqrt_price = target(leg) THEN [out |-> 0, ticks |-> 0]
    ELSE LET step == compute_swap_step(leg, amount_in)
         IN  [out |-> step.out,
              ticks |-> IF Sub(amount_in, Add(step.in, step.fee)) > 0 THEN 1 ELSE 0]

-----------------------------------------------------------------------------
(* Stable pools *)

Sum(xs) == FoldLeft(Add, 0, xs)

(* At most Rounds rounds, until two values are no more than 1 apart;       *)
(* -1 if they never are.                                                   *)
Newton(round(_), start) ==
    LET end == FoldLeft(
            LAMBDA s, n : IF s.done THEN s
                          ELSE LET next == round(s.at)
                               IN  [at |-> next, done |-> Distance(next, s.at) <= 1],
            [at |-> start, done |-> FALSE], [n \in 1 .. Rounds |-> n])
    IN  IF end.done THEN end.at ELSE -1

get_d(xp, amp) ==
    LET n == Len(xp)
        ann == Mul(amp, n)
        s == Sum(xp)
        d_p(d) == FoldLeft(LAMBDA p, x : Mul(p, d) \div Mul(x, n), d, xp)
        round(d) == Mul(d, Add(Mul(ann, s), Mul(d_p(d), n)))
                        \div Add(Mul(d, ann - 1), Mul(d_p(d), n + 1))
    IN  IF s = 0 THEN 0 ELSE Newton(round, s)

(* For the first two tokens of the pool.  The sum is of the tokens that    *)
(* are neither given nor taken.                                            *)
get_y(xp, amp, d) ==
    LET n == Len(xp)
        ann == Mul(amp, n)
        others == SubSeq(xp, 3, n)
        shared == FoldLeft(LAMBDA c, x : Mul(c, d) \div Mul(x, n), d, others)
        c == Mul(Mul(shared, d) \div Mul(xp[1], n), d) \div Mul(ann, n)
        b == Add(Sum(others), d \div ann)
    IN  Newton(LAMBDA y : Add(Mul(y, y), c) \div Sub(Add(Mul(y, 2), b), d), d)

(* simulate_swap always goes from the first token to the second. *)
curve_swap(leg, amount_in) ==
    LET less_fee == amount_in - Mul(amount_in, leg.fee) \div Basis
        d == get_d(leg.balances, leg.amp)
        xp == [leg.balances EXCEPT ![1] = Add(@, less_fee)]
        y == get_y(xp, leg.amp, d)
    IN  IF Len(xp) < 2 \/ d = -1 \/ y = -1 THEN 0 ELSE Sub(xp[2], y)

-----------------------------------------------------------------------------
simulate_swap(leg, amount_in) ==
    CASE leg.kind = "v2" -> [out |-> uniswap_v2_swap(leg, amount_in), ticks |-> 0]
      [] leg.kind = "v3" -> uniswap_v3_swap(leg, amount_in)
      [] leg.kind = "curve" -> [out |-> curve_swap(leg, amount_in), ticks |-> 0]

=============================================================================
