---------------------------- MODULE PricingProofs ----------------------------
(***************************************************************************)
(* Proofs about Pricing for all routes, loans, fees and fractions.         *)
(*                                                                         *)
(* A swap that divides by zero ends the program, so what is said is said   *)
(* of the behaviours in which none does (SwapsDefined); with pairs alone   *)
(* there are no others (PairsNeverPanic).  The inductive invariant says    *)
(* that the best loan's chain really makes the best profit, and that every *)
(* candidate tried so far makes no more.                                   *)
(***************************************************************************)
EXTENDS Pricing, BidMathProofs, SequenceTheorems, WellFoundedInduction

(* Induction over the naturals, for sets: the library's induction theorems *)
(* are about operators.  A set of naturals has a least element.            *)
LEMMA LeastElement ==
  ASSUME NEW S, S \subseteq Nat, S # {}
  PROVE  \E x \in S : \A y \in S : x <= y
  <1> DEFINE R == {ss \in Nat \X Nat : ss[1] < ss[2]}
  <1>1. IsWellFoundedOn(R, Nat)
    <2>1. R = OpToRel(<, Nat)
      BY Zenon DEF OpToRel
    <2>2. QED
      BY ONLY <2>1, NatLessThanWellFounded, Zenon
  <1>2. PICK x \in S : \A y \in S : ~ (<<y, x>> \in R)
    BY <1>1, WFMin
  <1>3. ASSUME NEW y \in S PROVE x <= y
    <2>1. <<y, x>> \notin R
      BY <1>2
    <2>2. x \in Nat /\ y \in Nat
      OBVIOUS
    <2>3. <<y, x>>[1] = y /\ <<y, x>>[2] = x /\ <<y, x>> \in Nat \X Nat
      BY <2>2
    <2>4. ~ (y < x)
      BY ONLY <2>1, <2>3, Zenon
    <2>5. QED
      BY <2>2, <2>4
  <1>4. QED
    BY <1>3

(* A set with 0 and the successors of its members has every natural. *)
LEMMA SetInduction ==
  ASSUME NEW S, 0 \in S, \A n \in Nat : n \in S => n + 1 \in S
  PROVE  \A n \in Nat : n \in S
  <1> SUFFICES ASSUME NEW m \in Nat, m \notin S PROVE FALSE
    OBVIOUS
  <1>1. PICK x \in Nat \ S : \A y \in Nat \ S : x <= y
    <2>1. Nat \ S # {} /\ Nat \ S \subseteq Nat
      OBVIOUS
    <2>2. QED
      BY <2>1, LeastElement
  <1>2. x # 0 /\ x - 1 \in Nat /\ x - 1 < x
    BY <1>1
  <1>3. x - 1 \in S
    BY <1>1, <1>2
  <1>4. QED
    BY <1>1, <1>2, <1>3

(* The same up to m. *)
LEMMA BoundedInduction ==
  ASSUME NEW m \in Nat, NEW S, 0 \in S, \A j \in 1 .. m : j - 1 \in S => j \in S
  PROVE  \A j \in 0 .. m : j \in S
  <1> DEFINE R == {n \in Nat : n <= m => n \in S}
  <1>1. 0 \in R
    OBVIOUS
  <1>2. ASSUME NEW n \in Nat, n \in R PROVE n + 1 \in R
    <2> SUFFICES ASSUME n + 1 <= m PROVE n + 1 \in S
      OBVIOUS
    <2>1. n \in S /\ n + 1 \in 1 .. m /\ (n + 1) - 1 = n
      BY <1>2
    <2>2. QED
      BY <2>1
  <1> HIDE DEF R
  <1>3. \A n \in Nat : n \in R
    BY <1>1, <1>2, SetInduction
  <1>4. QED
    BY <1>3 DEF R

-----------------------------------------------------------------------------
(* The arithmetic of pools. *)

(* Integer division rounds down. *)
LEMMA Quotient ==
  ASSUME NEW a \in Nat, NEW d \in Nat \ {0}
  PROVE  /\ a \div d \in Nat
         /\ d * (a \div d) <= a
         /\ a < d * (a \div d) + d
  <1> DEFINE q == a \div d
  <1>1. q \in Int /\ a = d * q + (a % d) /\ a % d \in 0 .. d - 1
    OBVIOUS
  <1>2. d * q \in Int /\ a % d \in Nat /\ a % d < d
    BY <1>1
  <1> HIDE DEF q
  <1>3. q >= 0
    <2> SUFFICES ASSUME q < 0 PROVE FALSE
      BY <1>1
    <2>1. -q - 1 \in Nat /\ d * (-q - 1) \in Nat
      BY <1>1
    <2>2. d * (-q - 1) = -(d * q) - d
      BY <1>1
    <2>3. QED
      BY <1>1, <1>2, <2>1, <2>2
  <1>4. QED
    BY <1>1, <1>2, <1>3 DEF q

(* Products distribute. *)
LEMMA Differences ==
  ASSUME NEW a \in Int, NEW b \in Int, NEW c \in Int
  PROVE  a * (b - c) = a * b - a * c /\ a * (b + c) = a * b + a * c /\ (b + c) * a = a * b + a * c
  OBVIOUS

(* What uniswap_v2_swap returns is a natural number: nothing divides by 0. *)
LEMMA PairOut ==
  ASSUME NEW leg, IsPair(leg), NEW in \in Nat
  PROVE  uniswap_v2_swap(leg, in) \in Nat
  <1> DEFINE w == in * (Basis - leg.fee)
  <1>1. /\ leg.res_in \in Nat /\ leg.res_out \in Nat /\ Basis - leg.fee \in Nat
        /\ Basis \in Nat \ {0}
    BY PoolMathAssumption DEF IsPair
  <1>2. CASE leg.res_in = 0 \/ leg.res_out = 0 \/ in = 0
    BY <1>2 DEF uniswap_v2_swap
  <1>3. CASE ~ (leg.res_in = 0 \/ leg.res_out = 0 \/ in = 0)
    <2>1. w \in Nat /\ leg.res_in * Basis \in Nat \ {0}
      BY <1>1, <1>3
    <2>2. w * leg.res_out \in Nat /\ leg.res_in * Basis + w \in Nat \ {0}
      BY <1>1, <2>1
    <2>3. uniswap_v2_swap(leg, in) = (w * leg.res_out) \div (leg.res_in * Basis + w)
      BY <1>3 DEF uniswap_v2_swap
    <2> HIDE DEF w
    <2>4. QED
      BY <2>2, <2>3, Quotient
  <1>4. QED
    BY <1>2, <1>3

(* uniswap_v2_swap rounds the exact amount down: the pair accepts what it  *)
(* returns and not one more, and the price it gives is below the spot      *)
(* price with the fee taken off.                                           *)
LEMMA PairFacts ==
  ASSUME NEW leg, IsPair(leg), NEW in \in Nat, uniswap_v2_swap(leg, in) # 0
  PROVE  LET out == uniswap_v2_swap(leg, in)
         IN  /\ Accepts(leg, in, out)
             /\ ~ Accepts(leg, in, out + 1)
             /\ Paid(leg) \in Nat /\ Paid(leg) > 0 /\ Received(leg) \in Nat
             /\ out * Paid(leg) <= in * Received(leg)
  <1> DEFINE out == uniswap_v2_swap(leg, in)
             ri == leg.res_in
             ro == leg.res_out
             s == Basis - leg.fee
             x == ri * Basis
             w == in * s
             d == x + w
  <1>1. /\ ri \in Nat /\ ro \in Nat /\ s \in Nat /\ Basis \in Nat \ {0} /\ leg.kind = "v2"
    BY PoolMathAssumption DEF IsPair
  <1>2. ri # 0 /\ ro # 0 /\ in # 0
    BY DEF uniswap_v2_swap
  <1>3. out = (w * ro) \div d
    BY <1>2 DEF uniswap_v2_swap
  <1>4. w \in Nat /\ x \in Nat /\ x > 0
    BY <1>1, <1>2
  <1>5. d \in Nat /\ d > 0 /\ w * ro \in Nat
    BY <1>1, <1>4
  <1>6. /\ Paid(leg) = x /\ Received(leg) = ro * s
        /\ \A o : Accepts(leg, in, o) <=> o < ro /\ d * (ro - o) >= x * ro
    BY <1>1 DEF Paid, Received, Accepts
  <1> HIDE DEF ri, ro, s, x, w, out
  <1> DEFINE y == w * ro
  <1>7. out \in Nat /\ d * out <= y /\ y < d * out + d
    <2> HIDE DEF d
    <2>1. QED
      BY <1>3, <1>5, Quotient
  <1>8. d * (ro - out) = d * ro - d * out /\ d * (ro - (out + 1)) = d * ro - d * out - d
    BY <1>1, <1>5, <1>7
  <1>9. d * ro = x * ro + y
    BY <1>1, <1>4
  <1>10. d * ro \in Nat /\ x * ro \in Nat /\ y \in Nat /\ d * out \in Nat /\ x * ro > 0
    BY <1>1, <1>2, <1>4, <1>5, <1>7
  <1>11. d * (ro - out) >= x * ro
    <2> HIDE DEF d, y
    <2>1. QED
      BY <1>7, <1>8, <1>9, <1>10
  <1>12. ~ (d * (ro - (out + 1)) >= x * ro)
    <2> HIDE DEF d, y
    <2>1. QED
      BY <1>5, <1>7, <1>8, <1>9, <1>10
  <1>13. out < ro
    <2> SUFFICES ASSUME ro <= out PROVE FALSE
      BY <1>1, <1>7
    <2>1. d * ro <= d * out
      <3> HIDE DEF d
      <3>1. QED
        BY <1>1, <1>5, <1>7, TimesMonotone
    <2> HIDE DEF d, y
    <2>2. QED
      BY <1>7, <1>9, <1>10, <2>1
  <1>14. out * x <= in * (ro * s)
    <2>1. d * out = x * out + w * out /\ w * out \in Nat /\ x * out \in Nat
      BY <1>4, <1>7
    <2>2. out * x = x * out
      BY <1>4, <1>7
    <2>3. in * (ro * s) = y
      BY <1>1 DEF w
    <2> HIDE DEF d, y
    <2>4. QED
      BY <1>7, <1>10, <2>1, <2>2, <2>3
  <1>15. ro * s \in Nat
    BY <1>1
  <1>16. QED
    BY <1>4, <1>6, <1>11, <1>12, <1>13, <1>14, <1>15 DEF out

(* A wrapped product is no larger than the product. *)
LEMMA WrappedProduct ==
  ASSUME NEW a \in Nat, NEW b \in Nat
  PROVE  Mul(a, b) \in Nat /\ Mul(a, b) <= a * b
  <1>1. a * b \in Nat /\ Word \in Nat \ {0}
    BY PoolMathAssumption
  <1>2. ASSUME NEW n \in Nat, NEW d \in Nat \ {0} PROVE n % d \in Nat /\ n % d <= n
    <2>1. n \div d \in Nat /\ d * (n \div d) \in Nat
      BY Quotient
    <2>2. n % d \in Nat /\ n = d * (n \div d) + (n % d)
      OBVIOUS
    <2>3. QED
      BY <2>1, <2>2
  <1>3. QED
    BY <1>1, <1>2 DEF Mul

(* A positive factor cancels. *)
LEMMA CancelFactor ==
  ASSUME NEW a \in Nat, NEW b \in Nat, NEW c \in Nat, c > 0, c * a <= c * b
  PROVE  a <= b
  <1> SUFFICES ASSUME b + 1 <= a PROVE FALSE
    OBVIOUS
  <1>1. c * (b + 1) <= c * a
    BY TimesMonotone
  <1>2. c * (b + 1) = c * b + c /\ c * a \in Nat /\ c * b \in Nat
    OBVIOUS
  <1>3. QED
    BY <1>1, <1>2

(* The fee is taken off and the rest rounded down. *)
LEMMA LessFeeFacts ==
  ASSUME NEW leg, IsConcentrated(leg), NEW in \in Nat
  PROVE  /\ remaining_less_fee(leg, in) \in Nat
         /\ Pips * remaining_less_fee(leg, in) <= in * (Pips - leg.fee)
  <1> DEFINE c == Pips - leg.fee
             less == Mul(in, c) \div Pips
  <1>1. Pips \in Nat \ {0} /\ c \in Nat
    BY PoolMathAssumption DEF IsConcentrated
  <1>2. Mul(in, c) \in Nat /\ Mul(in, c) <= in * c /\ in * c \in Nat
    <2> HIDE DEF c
    <2>1. in * c \in Nat
      BY <1>1
    <2>2. QED
      BY <1>1, <2>1, WrappedProduct
  <1>3. less \in Nat /\ Pips * less <= Mul(in, c)
    BY <1>1, <1>2, Quotient
  <1>4. Pips * less \in Nat
    BY <1>1, <1>3
  <1>5. Pips * less <= in * c
    BY <1>2, <1>3, <1>4
  <1>6. QED
    BY <1>3, <1>5 DEF remaining_less_fee

(* Whether or not the products wrap, compute_swap_step takes no more than  *)
(* it is given: what it takes is at most the amount with the fee taken     *)
(* off, and the fee that comes on top of it rounds down.                   *)
LEMMA StepTakesNoMore ==
  ASSUME NEW leg, IsConcentrated(leg), NEW in \in Nat
  PROVE  LET step == compute_swap_step(leg, in) IN step.in + step.fee <= in
  <1> DEFINE less == remaining_less_fee(leg, in)
             moved == Distance(leg.sqrt_price, target(leg))
             t == in_to_target(leg)
             f == leg.fee
             c == Pips - leg.fee
  <1>1. /\ Pips \in Nat \ {0} /\ Q \in Nat \ {0} /\ Word \in Nat \ {0} /\ MaxSqrt \in 1 .. Word - 1
        /\ f \in Nat /\ c \in Nat /\ c > 0 /\ c + f = Pips
        /\ leg.liquidity \in Nat /\ leg.sqrt_price \in 1 .. MaxSqrt
    BY PoolMathAssumption DEF IsConcentrated
  <1>2. moved \in Nat
    BY <1>1 DEF Distance, target, MinSqrt
  <1>3. t \in Nat
    <2>1. CASE leg.zero_for_one
      <3>1. Mul(leg.sqrt_price, target(leg)) = leg.sqrt_price
        <4>1. target(leg) = 1
          BY <2>1 DEF target, MinSqrt
        <4>2. Mul(leg.sqrt_price, 1) = leg.sqrt_price % Word
          BY <1>1 DEF Mul
        <4>3. leg.sqrt_price % Word = leg.sqrt_price
          BY <1>1
        <4>4. QED
          BY <4>1, <4>2, <4>3
      <3>2. Mul(Mul(leg.liquidity, moved), Q) \in Nat
        <4> HIDE DEF moved
        <4>1. QED
          BY <1>1, <1>2, WrappedProduct
      <3>3. t = Mul(Mul(leg.liquidity, moved), Q) \div leg.sqrt_price
        BY <2>1, <3>1 DEF Amount0, in_to_target
      <3>4. leg.sqrt_price \in Nat \ {0}
        BY <1>1
      <3> HIDE DEF moved
      <3>5. QED
        BY <3>2, <3>3, <3>4, Quotient
    <2>2. CASE ~ leg.zero_for_one
      <3>1. t = Mul(leg.liquidity, moved) \div Q
        BY <2>2 DEF Amount1, in_to_target
      <3> HIDE DEF moved
      <3>2. Mul(leg.liquidity, moved) \in Nat
        BY <1>1, <1>2, WrappedProduct
      <3>3. QED
        BY <1>1, <3>1, <3>2, Quotient
    <2>3. QED
      BY <2>1, <2>2
  <1> HIDE DEF moved
  <1>4. less \in Nat /\ Pips * less <= in * c
    BY LessFeeFacts
  <1>5. compute_swap_step(leg, in) = IF t <= less THEN Reach(leg, t) ELSE Consume(leg, less, in)
    BY DEF compute_swap_step
  <1> HIDE DEF less, t
  <1>6. CASE t <= less
    <2> DEFINE g == Mul(t, f) \div c
    <2>1. Reach(leg, t).in = t /\ Reach(leg, t).fee = g
      BY DEF Reach
    <2>2. g \in Nat /\ c * g <= t * f
      <3>1. Mul(t, f) \in Nat /\ Mul(t, f) <= t * f /\ t * f \in Nat
        <4> HIDE DEF f
        <4>1. t * f \in Nat
          BY <1>1, <1>3
        <4>2. QED
          BY <1>1, <1>3, <4>1, WrappedProduct
      <3>2. g \in Nat /\ c * g <= Mul(t, f)
        <4>1. c \in Nat \ {0}
          BY <1>1
        <4> HIDE DEF c, f
        <4>2. QED
          BY <3>1, <4>1, Quotient
      <3>3. c * g \in Nat
        BY <1>1, <3>2
      <3>4. QED
        BY <3>1, <3>2, <3>3
    <2> HIDE DEF g, f, c
    <2>3. c * (t + g) = t * c + c * g /\ t * c + t * f = Pips * t
      BY <1>1, <1>3, <2>2
    <2>4. Pips * t <= Pips * less
      BY <1>1, <1>3, <1>4, <1>6, TimesMonotone
    <2>5. /\ c * g \in Nat /\ t * c \in Nat /\ t * f \in Nat /\ Pips * t \in Nat
          /\ Pips * less \in Nat /\ in * c \in Nat /\ t + g \in Nat /\ in * c = c * in
      BY <1>1, <1>3, <1>4, <2>2
    <2>6. c * (t + g) <= c * in
      BY <1>4, <2>2, <2>3, <2>4, <2>5
    <2>7. t + g <= in
      BY <1>1, <2>5, <2>6, CancelFactor
    <2>8. QED
      BY <1>5, <1>6, <2>1, <2>7
  <1>7. CASE ~ (t <= less)
    <2>1. Consume(leg, less, in).in = less /\ Consume(leg, less, in).fee = in - less
      BY DEF Consume
    <2>2. QED
      BY <1>4, <1>5, <1>7, <2>1
  <1>8. QED
    BY <1>6, <1>7

(* Raising the price by token1, the divisor not wrapping, pays no more     *)
(* than the liquidity between the two prices and the amount allow.         *)
LEMMA RaiseFacts ==
  ASSUME NEW leg, IsConcentrated(leg), leg.liquidity > 0, NEW a \in Nat,
         leg.sqrt_price * (leg.sqrt_price + Raise(leg, a)) < Word
  PROVE  LET p == leg.sqrt_price
             m == Raise(leg, a)
             out == Amount0(leg, m, Add(p, m))
         IN  /\ m \in Nat /\ out \in Nat
             /\ leg.liquidity * m <= a * Q
             /\ (p * (p + m)) * out <= (leg.liquidity * m) * Q
  <1> DEFINE p == leg.sqrt_price
             l == leg.liquidity
             m == Raise(leg, a)
             d == p * (p + m)
             n == Mul(Mul(l, m), Q)
             out == Amount0(leg, m, Add(p, m))
  <1>1. /\ p \in Nat \ {0} /\ l \in Nat \ {0} /\ Q \in Nat \ {0} /\ Word \in Nat \ {0}
    BY PoolMathAssumption DEF IsConcentrated
  <1>2. Mul(a, Q) \in Nat /\ Mul(a, Q) <= a * Q
    BY <1>1, WrappedProduct
  <1>3. m \in Nat /\ l * m <= Mul(a, Q)
    <2>1. m = Mul(a, Q) \div l
      BY DEF Raise
    <2>2. QED
      BY <1>1, <1>2, <2>1, Quotient
  <1> HIDE DEF m, p, l
  <1>4. l * m <= a * Q /\ l * m \in Nat
    <2>1. l * m \in Nat /\ a * Q \in Nat
      BY <1>1, <1>3
    <2>2. QED
      BY <1>2, <1>3, <2>1
  <1>5. d \in Nat \ {0} /\ d < Word /\ p + m < Word
    <2>1. p + m \in Nat \ {0} /\ 1 <= p
      BY <1>1, <1>3
    <2>2. (p + m) * 1 <= (p + m) * p
      BY <1>1, <2>1, TimesMonotone
    <2>3. (p + m) * 1 = p + m /\ (p + m) * p = d /\ d \in Nat
      BY <1>1, <2>1
    <2>4. d < Word
      BY DEF p, m
    <2>5. QED
      BY <1>1, <2>1, <2>2, <2>3, <2>4
  <1>6. Add(p, m) = p + m /\ Mul(p, p + m) = d
    <2>1. \A x, w \in Nat : x < w => x % w = x
      OBVIOUS
    <2>2. p + m \in Nat /\ Word \in Nat
      BY <1>1, <1>3
    <2> HIDE DEF d
    <2>3. (p + m) % Word = p + m /\ d % Word = d
      BY <1>5, <2>1, <2>2
    <2>4. QED
      BY <2>3 DEF Add, Mul, d
  <1>7. out = n \div d
    BY <1>6 DEF Amount0, p, l
  <1>8. n \in Nat /\ n <= (l * m) * Q
    <2>1. Mul(l, m) \in Nat /\ Mul(l, m) <= l * m
      BY <1>1, <1>3, WrappedProduct
    <2>2. n \in Nat /\ n <= Mul(l, m) * Q
      BY <1>1, <2>1, WrappedProduct
    <2>3. Q * Mul(l, m) <= Q * (l * m)
      BY <1>1, <1>4, <2>1, TimesMonotone
    <2>4. /\ Q * Mul(l, m) = Mul(l, m) * Q /\ Q * (l * m) = (l * m) * Q
          /\ Mul(l, m) * Q \in Nat /\ (l * m) * Q \in Nat
      BY <1>1, <1>4, <2>1
    <2>5. QED
      BY <2>2, <2>3, <2>4
  <1> HIDE DEF n, d, out
  <1>9. out \in Nat /\ d * out <= n
    BY <1>5, <1>7, <1>8, Quotient
  <1>10. d * out \in Nat /\ (l * m) * Q \in Nat
    BY <1>1, <1>4, <1>5, <1>9
  <1>11. d * out <= (l * m) * Q
    BY <1>8, <1>9, <1>10
  <1>12. QED
    BY <1>3, <1>4, <1>9, <1>11 DEF p, l, m, d, out

(* The arithmetic of a swap of token1: x is the output times the price,    *)
(* pl the liquidity times it; raising the price a little less than the     *)
(* amount allows pays less than the whole amount does.                     *)
LEMMA WholeAmountPays ==
  ASSUME NEW x \in Nat, NEW y \in Nat, NEW pl \in Nat, NEW a \in Nat, NEW b \in Nat,
         a > 0, a <= b, x * (pl + a) <= y * a
  PROVE  x * (pl + b) <= y * b
  <1>1. PICK e \in Nat : b = a + e
    <2>1. b - a \in Nat /\ b = a + (b - a)
      OBVIOUS
    <2>2. QED
      BY <2>1
  <1>2. x * (pl + a) = x * pl + x * a /\ x * pl \in Nat /\ x * a \in Nat /\ y * a \in Nat
    OBVIOUS
  <1>3. x <= y
    <2>1. a * x <= a * y
      <3>1. a * x = x * a /\ a * y = y * a
        OBVIOUS
      <3>2. QED
        BY <1>2, <3>1
    <2>2. QED
      BY <2>1, CancelFactor
  <1>4. e * x <= e * y
    BY <1>3, TimesMonotone
  <1>5. /\ x * (pl + b) = x * (pl + a) + e * x
        /\ y * b = y * a + e * y
        /\ e * x \in Nat /\ e * y \in Nat /\ x * (pl + a) \in Nat
    BY <1>1
  <1>6. QED
    BY <1>2, <1>4, <1>5

(* A step that consumes token1 before its target, dividing by a product    *)
(* that does not wrap: the pool accepts what it returns, and the price it  *)
(* gives is below the spot price with the fee taken off.                   *)
LEMMA ConcentratedFacts ==
  ASSUME NEW leg, IsConcentrated(leg), NEW in \in Nat, Conservative(leg, in),
         uniswap_v3_swap(leg, in).out \in Nat \ {0}
  PROVE  LET out == uniswap_v3_swap(leg, in).out
         IN  /\ Accepts(leg, in, out)
             /\ Paid(leg) \in Nat /\ Paid(leg) > 0 /\ Received(leg) \in Nat
             /\ out * Paid(leg) <= in * Received(leg)
  <1> DEFINE out == uniswap_v3_swap(leg, in).out
             a == remaining_less_fee(leg, in)
             p == leg.sqrt_price
             l == leg.liquidity
             m == Raise(leg, a)
             c == Pips - leg.fee
             b == in * Q
  <1>1. /\ p \in Nat /\ p > 0 /\ l \in Nat /\ Q \in Nat /\ Q > 0 /\ Pips \in Nat /\ Pips > 0
        /\ c \in Nat /\ c <= Pips /\ leg.kind = "v3"
    BY PoolMathAssumption DEF IsConcentrated
  <1>2. /\ ~leg.zero_for_one /\ in_to_target(leg) > a /\ p * (p + m) < Word
    BY <1>1 DEF Conservative
  <1>3. a \in Nat /\ Pips * a <= in * c
    BY LessFeeFacts
  <1>4. l > 0
    <2> SUFFICES ASSUME l = 0 PROVE FALSE
      BY <1>1
    <2> DEFINE moved == Distance(leg.sqrt_price, target(leg))
    <2>1. moved \in Nat
      BY PoolMathAssumption DEF IsConcentrated, Distance, target, MinSqrt
    <2>2. in_to_target(leg) = Mul(0, moved) \div Q
      BY <1>2 DEF in_to_target, Amount1
    <2> HIDE DEF moved
    <2>3. Mul(0, moved) = 0
      BY <2>1, PoolMathAssumption DEF Mul
    <2>4. 0 \div Q = 0
      BY <1>1
    <2>5. QED
      BY <1>2, <1>3, <2>2, <2>3, <2>4
  <1>5. out = Amount0(leg, m, Add(p, m))
    <2>1. out = compute_swap_step(leg, in).out
      <3>1. ~ (in = 0 \/ leg.sqrt_price = target(leg))
        BY DEF uniswap_v3_swap
      <3>2. QED
        BY <3>1 DEF uniswap_v3_swap
    <2>2. ~ (in_to_target(leg) <= a)
      <3>1. in_to_target(leg) \in Int
        <4> DEFINE moved == Distance(leg.sqrt_price, target(leg))
        <4>1. moved \in Nat
          BY PoolMathAssumption DEF IsConcentrated, Distance, target, MinSqrt
        <4>2. in_to_target(leg) = Mul(l, moved) \div Q
          BY <1>2 DEF in_to_target, Amount1
        <4> HIDE DEF moved, l
        <4>3. Mul(l, moved) \in Nat
          BY <1>1, <4>1, WrappedProduct
        <4>4. QED
          BY <1>1, <4>2, <4>3, Quotient
      <3>2. QED
        BY <1>2, <1>3, <3>1
    <2>3. compute_swap_step(leg, in) = Consume(leg, a, in)
      BY <2>2 DEF compute_swap_step
    <2>4. Consume(leg, a, in).out = Amount0(leg, m, Add(p, m))
      BY <1>2 DEF Consume
    <2>5. QED
      BY <2>1, <2>3, <2>4
  <1>6. /\ m \in Nat /\ out \in Nat /\ out > 0
        /\ l * m <= a * Q /\ (p * (p + m)) * out <= (l * m) * Q
    <2>1. /\ m \in Nat /\ l * m <= a * Q
          /\ (p * (p + m)) * Amount0(leg, m, Add(p, m)) <= (l * m) * Q
      BY <1>2, <1>3, <1>4, RaiseFacts
    <2>2. out \in Nat /\ out > 0
      OBVIOUS
    <2>3. QED
      BY <1>5, <2>1, <2>2
  <1>7. /\ Paid(leg) = p * p * Pips /\ Received(leg) = Q * Q * c
        /\ Accepts(leg, in, out) <=> out * p * (p * l + b) <= b * Q * l
    BY <1>1, <1>2 DEF Paid, Received, Accepts
  <1> HIDE DEF out, a, p, l, m, c, b
  <1>8. a <= in
    <2>1. in * c <= in * Pips
      BY <1>1, TimesMonotone
    <2>2. Pips * in = in * Pips /\ in * c \in Nat /\ in * Pips \in Nat /\ Pips * a \in Nat
      BY <1>1, <1>3
    <2>3. Pips * a <= Pips * in
      BY <1>3, <2>1, <2>2
    <2>4. QED
      BY <1>1, <1>3, <2>3, CancelFactor
  <1>9. l * m \in Nat /\ b \in Nat /\ l * m <= b /\ a * Q \in Nat
    <2>1. Q * a <= Q * in
      BY <1>1, <1>3, <1>8, TimesMonotone
    <2>2. Q * a = a * Q /\ Q * in = b /\ l * m \in Nat /\ a * Q \in Nat /\ b \in Nat
      BY <1>1, <1>3, <1>6 DEF b
    <2>3. QED
      BY <1>6, <2>1, <2>2
  <1>10. l * m > 0
    <2> SUFFICES ASSUME l * m = 0 PROVE FALSE
      BY <1>9
    <2>1. (l * m) * Q = 0
      BY <1>1
    <2>2. p + m > 0 /\ p + m \in Nat
      BY <1>1, <1>6
    <2>3. p * (p + m) > 0 /\ p * (p + m) \in Nat
      BY <1>1, <2>2
    <2> DEFINE u == (p * (p + m)) * out
               v == (l * m) * Q
    <2>4. u > 0 /\ u \in Nat
      BY <1>6, <2>3
    <2>5. v = 0 /\ u <= v
      BY <1>6, <2>1
    <2> HIDE DEF u, v
    <2>6. QED
      BY <2>4, <2>5
  <1>11. Accepts(leg, in, out)
    <2> DEFINE x == out * p
               y == l * Q
    <2>1. x \in Nat /\ y \in Nat /\ p * l \in Nat
      BY <1>1, <1>6
    <2>2. x * (p + m) <= (l * m) * Q
      <3>1. x * (p + m) = (p * (p + m)) * out
        BY <1>1, <1>6
      <3>2. QED
        BY <1>6, <3>1
    <2>3. l * (x * (p + m)) <= l * ((l * m) * Q)
      <3>1. x * (p + m) \in Nat /\ (l * m) * Q \in Nat
        BY <1>1, <1>6, <1>9, <2>1
      <3>2. QED
        BY <1>1, <2>2, <3>1, TimesMonotone
    <2>4. l * (x * (p + m)) = x * (p * l + l * m) /\ l * ((l * m) * Q) = y * (l * m)
      BY <1>1, <1>6, <2>1
    <2>5. x * (p * l + l * m) <= y * (l * m)
      BY <2>3, <2>4
    <2> HIDE DEF x, y
    <2>6. x * (p * l + b) <= y * b
      BY <1>9, <1>10, <2>1, <2>5, WholeAmountPays
    <2>7. y * b = b * Q * l
      BY <1>1, <1>9 DEF y
    <2>8. QED
      BY <1>7, <2>6, <2>7 DEF x
  <1>12. out * Paid(leg) <= in * Received(leg)
    <2>1. (p * p) * out <= (a * Q) * Q
      <3>1. (p * p) * out <= (p * (p + m)) * out
        <4>1. p * p \in Nat /\ p * m \in Nat /\ p * (p + m) = p * p + p * m
          BY <1>1, <1>6
        <4>2. p * p <= p * (p + m) /\ p * (p + m) \in Nat
          BY <4>1
        <4>3. out * (p * p) <= out * (p * (p + m))
          BY <1>6, <4>1, <4>2, TimesMonotone
        <4>4. out * (p * p) = (p * p) * out /\ out * (p * (p + m)) = (p * (p + m)) * out
          BY <1>6, <4>1, <4>2
        <4>5. QED
          BY <4>3, <4>4
      <3>2. (l * m) * Q <= (a * Q) * Q
        <4>1. Q * (l * m) <= Q * (a * Q)
          BY <1>1, <1>6, <1>9, TimesMonotone
        <4>2. Q * (l * m) = (l * m) * Q /\ Q * (a * Q) = (a * Q) * Q
          BY <1>1, <1>9
        <4>3. QED
          BY <4>1, <4>2
      <3>3. /\ (p * p) * out \in Nat /\ (p * (p + m)) * out \in Nat
            /\ (l * m) * Q \in Nat /\ (a * Q) * Q \in Nat
        <4>1. p * p \in Nat /\ p + m \in Nat
          BY <1>1, <1>6
        <4>2. p * (p + m) \in Nat
          BY <1>1, <4>1
        <4>3. QED
          BY <1>1, <1>6, <1>9, <4>1, <4>2
      <3>4. QED
        BY <1>6, <3>1, <3>2, <3>3
    <2>2. Pips * ((p * p) * out) <= Pips * ((a * Q) * Q)
      <3>1. (p * p) * out \in Nat /\ (a * Q) * Q \in Nat
        <4>1. p * p \in Nat
          BY <1>1
        <4>2. QED
          BY <1>1, <1>6, <1>9, <4>1
      <3>2. QED
        BY <1>1, <2>1, <3>1, TimesMonotone
    <2>3. (Q * Q) * (Pips * a) <= (Q * Q) * (in * c)
      <3>1. Q * Q \in Nat /\ Pips * a \in Nat /\ in * c \in Nat
        BY <1>1, <1>3
      <3>2. QED
        BY <1>3, <3>1, TimesMonotone
    <2>4. /\ Pips * ((p * p) * out) = out * (p * p * Pips)
          /\ Pips * ((a * Q) * Q) = (Q * Q) * (Pips * a)
          /\ (Q * Q) * (in * c) = in * (Q * Q * c)
      BY <1>1, <1>3, <1>6
    <2>5. /\ out * (p * p * Pips) \in Nat /\ (Q * Q) * (Pips * a) \in Nat
          /\ in * (Q * Q * c) \in Nat
      <3>1. p * p \in Nat /\ Q * Q \in Nat /\ Pips * a \in Nat
        BY <1>1, <1>3
      <3>2. p * p * Pips \in Nat /\ Q * Q * c \in Nat
        BY <1>1, <3>1
      <3>3. QED
        BY <1>6, <3>1, <3>2
    <2>6. QED
      BY <1>7, <2>2, <2>3, <2>4, <2>5
  <1>13. Paid(leg) \in Nat /\ Paid(leg) > 0 /\ Received(leg) \in Nat
    <2>1. p * p \in Nat /\ p * p > 0 /\ Q * Q \in Nat
      BY <1>1
    <2>2. p * p * Pips \in Nat /\ p * p * Pips > 0 /\ Q * Q * c \in Nat
      BY <1>1, <2>1
    <2>3. QED
      BY <1>7, <2>2
  <1>14. QED
    BY <1>11, <1>12, <1>13 DEF out

-----------------------------------------------------------------------------
(* The chain of swaps, leg by leg. *)

(* at is what the first n legs make of the loan. *)
Traces(at, legs, loan, n) ==
    /\ at = [i \in 0 .. n |-> at[i]]
    /\ at[0] = [amount |-> loan, gas |-> GasOverhead]
    /\ \A i \in 1 .. n : at[i] = Traded(legs[i], at[i - 1])

(* There is such a function for every number of legs. *)
LEMMA TraceExists ==
  ASSUME NEW legs, NEW loan, NEW n \in Nat
  PROVE  \E at : Traces(at, legs, loan, n)
  <1> DEFINE S == {i \in Nat : \E at : Traces(at, legs, loan, i)}
  <1>1. 0 \in S
    <2> DEFINE at == [i \in 0 .. 0 |-> [amount |-> loan, gas |-> GasOverhead]]
    <2>1. Traces(at, legs, loan, 0)
      BY DEF Traces
    <2>2. QED
      BY <2>1
  <1>2. ASSUME NEW i \in Nat, i \in S PROVE i + 1 \in S
    <2>1. PICK at : Traces(at, legs, loan, i)
      BY <1>2
    <2> DEFINE next == [j \in 0 .. i + 1 |-> IF j = i + 1 THEN Traded(legs[i + 1], at[i]) ELSE at[j]]
    <2>2. /\ next = [j \in 0 .. i + 1 |-> next[j]]
          /\ next[i + 1] = Traded(legs[i + 1], at[i]) /\ next[0] = at[0] /\ next[i] = at[i]
          /\ \A j \in 1 .. i : next[j] = at[j] /\ next[j - 1] = at[j - 1]
      OBVIOUS
    <2> HIDE DEF next
    <2>3. ASSUME NEW j \in 1 .. i + 1 PROVE next[j] = Traded(legs[j], next[j - 1])
      <3>1. CASE j = i + 1
        BY <2>2, <3>1
      <3>2. CASE j \in 1 .. i
        BY <2>1, <2>2, <3>2 DEF Traces
      <3>3. QED
        BY <3>1, <3>2
    <2>4. Traces(next, legs, loan, i + 1)
      BY <2>1, <2>2, <2>3 DEF Traces
    <2>5. QED
      BY <2>4
  <1> HIDE DEF S
  <1>3. n \in S
    BY <1>1, <1>2, SetInduction
  <1>4. QED
    BY <1>3 DEF S

(* execute_chain starts with the loan and trades leg after leg. *)
LEMMA ChainSteps ==
  ASSUME NEW r \in Routes, NEW loan
  PROVE  /\ Chain(r, loan)[0] = [amount |-> loan, gas |-> GasOverhead]
         /\ \A n \in 1 .. Len(r) : Chain(r, loan)[n] = Traded(r[n], Chain(r, loan)[n - 1])
  <1> DEFINE Defines(at) == at = [n \in 0 .. Len(r) |->
                  IF n = 0 THEN [amount |-> loan, gas |-> GasOverhead]
                  ELSE Traded(r[n], at[n - 1])]
  <1>1. Len(r) \in Nat
    BY RouteAssumption
  <1>2. PICK at : Traces(at, r, loan, Len(r))
    BY <1>1, TraceExists
  <1>3. Defines(at)
    <2>1. ASSUME NEW n \in 0 .. Len(r)
          PROVE  at[n] = IF n = 0 THEN [amount |-> loan, gas |-> GasOverhead]
                         ELSE Traded(r[n], at[n - 1])
      <3>1. CASE n = 0
        BY <1>2, <3>1 DEF Traces
      <3>2. CASE n \in 1 .. Len(r)
        <4>1. n # 0
          BY <1>1, <3>2
        <4>2. QED
          BY <1>2, <3>2, <4>1 DEF Traces
      <3>3. QED
        BY <1>1, <3>1, <3>2
    <2>2. at = [n \in 0 .. Len(r) |-> at[n]]
      BY <1>2 DEF Traces
    <2>3. QED
      BY ONLY <2>1, <2>2, Zenon
  <1>4. Chain(r, loan) = CHOOSE f : Defines(f)
    BY DEF Chain
  <1> HIDE DEF Defines
  <1>5. Defines(Chain(r, loan))
    BY <1>3, <1>4
  <1> DEFINE c == Chain(r, loan)
  <1>6. c = [n \in 0 .. Len(r) |->
                  IF n = 0 THEN [amount |-> loan, gas |-> GasOverhead]
                  ELSE Traded(r[n], c[n - 1])]
    BY <1>5 DEF Defines
  <1> HIDE DEF c
  <1>7. /\ c[0] = [amount |-> loan, gas |-> GasOverhead]
        /\ \A n \in 1 .. Len(r) : c[n] = Traded(r[n], c[n - 1])
    BY <1>1, <1>6
  <1>8. QED
    BY <1>7 DEF c

(* What execute_chain has after each leg. *)
Steps == [amount : Nat, gas : Nat]

(* The swap does not divide by zero. *)
Defined(leg, in) == simulate_swap(leg, in).out \in Nat /\ simulate_swap(leg, in).ticks \in Nat

(* No swap of the loan's chain does. *)
ChainDefined(r, loan) ==
    \A n \in 1 .. Len(r) :
        Chain(r, loan)[n - 1].amount \in Nat \ {0} =>
            Defined(r[n], Chain(r, loan)[n - 1].amount)

(* Every leg has left natural numbers. *)
ChainTyped(r, loan) == \A n \in 0 .. Len(r) : Chain(r, loan)[n] \in Steps

(* What net says of the route in hand. *)
Net(r, loan) == AmountAfter(r, Len(r), loan) - loan - premium(loan)

(* A pair never divides by zero. *)
LEMMA PairDefined ==
  ASSUME NEW leg, IsPair(leg), NEW in \in Nat
  PROVE  Defined(leg, in)
  <1>1. simulate_swap(leg, in) = [out |-> uniswap_v2_swap(leg, in), ticks |-> 0]
    BY DEF simulate_swap, IsPair
  <1>2. QED
    BY <1>1, PairOut DEF Defined

(* One leg. *)
LEMMA TradedType ==
  ASSUME NEW leg, NEW before \in Steps,
         before.amount \in Nat \ {0} => Defined(leg, before.amount)
  PROVE  Traded(leg, before) \in Steps
  <1>1. CASE before.amount = 0
    BY <1>1 DEF Traded
  <1>2. CASE before.amount # 0
    <2> DEFINE swap == simulate_swap(leg, before.amount)
    <2>1. before.amount \in Nat \ {0} /\ before.gas \in Nat
      BY <1>2 DEF Steps
    <2>2. swap.out \in Nat /\ swap.ticks \in Nat
      BY <2>1 DEF Defined
    <2>3. Traded(leg, before) = [amount |-> swap.out,
                                 gas |-> before.gas + GasPerLeg + swap.ticks * GasPerTick]
      BY <1>2 DEF Traded
    <2> HIDE DEF swap
    <2>4. GasPerLeg \in Nat /\ GasPerTick \in Nat
      BY PricingAssumption
    <2>5. before.gas + GasPerLeg + swap.ticks * GasPerTick \in Nat
      BY <2>1, <2>2, <2>4
    <2>6. QED
      BY <2>2, <2>3, <2>5 DEF Steps
  <1>3. QED
    BY <1>1, <1>2

(* A chain whose swaps are defined consists of natural numbers. *)
LEMMA ChainTypes ==
  ASSUME NEW r \in Routes, NEW loan \in Nat, ChainDefined(r, loan)
  PROVE  ChainTyped(r, loan)
  <1> DEFINE c == Chain(r, loan)
             m == Len(r)
             S == {n \in 0 .. m : c[n] \in Steps}
  <1>1. /\ m \in Nat /\ c[0] = [amount |-> loan, gas |-> GasOverhead]
        /\ \A n \in 1 .. m : c[n] = Traded(r[n], c[n - 1])
    BY ChainSteps, RouteAssumption
  <1>2. \A n \in 1 .. m : c[n - 1].amount \in Nat \ {0} => Defined(r[n], c[n - 1].amount)
    BY DEF ChainDefined
  <1> HIDE DEF c, m
  <1>3. 0 \in S
    <2>1. GasOverhead \in Nat
      BY PricingAssumption
    <2>2. QED
      BY <1>1, <2>1 DEF Steps
  <1>4. ASSUME NEW n \in 1 .. m, n - 1 \in S PROVE n \in S
    <2>1. c[n - 1] \in Steps
      BY <1>4
    <2>2. Traded(r[n], c[n - 1]) \in Steps
      BY <1>2, <2>1, TradedType
    <2>3. n \in 0 .. m
      BY <1>1
    <2>4. QED
      BY <1>1, <2>2, <2>3
  <1> HIDE DEF S
  <1>5. \A n \in 0 .. m : n \in S
    BY <1>1, <1>3, <1>4, BoundedInduction
  <1>6. QED
    BY <1>5 DEF S, ChainTyped, c, m

(* What ends with something had something all along. *)
LEMMA ChainPositive ==
  ASSUME NEW r \in Routes, NEW loan, AmountAfter(r, Len(r), loan) # 0
  PROVE  \A n \in 0 .. Len(r) : AmountAfter(r, n, loan) # 0
  <1> DEFINE c == Chain(r, loan)
             m == Len(r)
             S == {n \in 0 .. m : c[n].amount # 0 => \A i \in 0 .. n : c[i].amount # 0}
  <1>1. m \in Nat /\ \A n \in 1 .. m : c[n] = Traded(r[n], c[n - 1])
    BY ChainSteps, RouteAssumption
  <1> HIDE DEF c, m
  <1>2. 0 \in S
    BY <1>1
  <1>3. ASSUME NEW n \in 1 .. m, n - 1 \in S PROVE n \in S
    <2> SUFFICES ASSUME c[n].amount # 0 PROVE \A i \in 0 .. n : c[i].amount # 0
      BY <1>1
    <2>1. c[n - 1].amount # 0
      <3> SUFFICES ASSUME c[n - 1].amount = 0 PROVE FALSE
        OBVIOUS
      <3>1. c[n] = c[n - 1]
        BY <1>1 DEF Traded
      <3>2. QED
        BY <3>1
    <2>2. \A i \in 0 .. n - 1 : c[i].amount # 0
      BY <1>3, <2>1
    <2>3. QED
      BY <2>2
  <1> HIDE DEF S
  <1>4. \A n \in 0 .. m : n \in S
    BY <1>1, <1>2, <1>3, BoundedInduction
  <1>5. m \in S /\ c[m].amount # 0
    BY <1>1, <1>4 DEF AmountAfter, c, m
  <1>6. QED
    BY <1>5 DEF S, AmountAfter, c, m

(* The premium is rounded down. *)
LEMMA PremiumType ==
  ASSUME NEW loan \in Nat
  PROVE  premium(loan) \in Nat /\ Basis * premium(loan) <= loan * Premium
                               /\ loan * Premium < Basis * premium(loan) + Basis
  <1>1. loan * Premium \in Nat /\ Basis \in Nat \ {0}
    BY PricingAssumption, PoolMathAssumption
  <1>2. QED
    BY <1>1, Quotient DEF premium

(* A loan's profit or loss is an integer. *)
LEMMA NetType ==
  ASSUME NEW r \in Routes, NEW loan \in Nat, ChainTyped(r, loan)
  PROVE  /\ AmountAfter(r, Len(r), loan) \in Nat
         /\ Chain(r, loan)[Len(r)].gas \in Nat
         /\ Net(r, loan) \in Int
  <1>1. Len(r) \in 0 .. Len(r)
    BY RouteAssumption
  <1>2. Chain(r, loan)[Len(r)] \in Steps
    BY <1>1 DEF ChainTyped
  <1>3. premium(loan) \in Nat
    BY PremiumType
  <1>4. QED
    BY <1>2, <1>3 DEF AmountAfter, Net, Steps

-----------------------------------------------------------------------------
(* The search and the bid. *)

(* The loan that is tried next. *)
Loan == IF pc = "candidates" THEN Candidates[k] ELSE (best_loan * Factors[k]) \div Basis

(* No swap of the loan that is tried divides by zero: U256's division      *)
(* panics, and TLC reports it.                                             *)
SwapsDefined == pc \in {"candidates", "around"} => ChainDefined(route, Loan)

(* The types of the variables; k is a place of the sequence it runs over. *)
TypeInv ==
    /\ route \in Routes
    /\ best_profit \in Nat /\ best_loan \in Nat /\ best_gas \in Nat
    /\ competitor_floor_bps \in Nat /\ base_fee \in Nat
    /\ pc \in {"candidates", "around", "none", "found", "bid"}
    /\ pc = "candidates" => k \in DOMAIN Candidates
    /\ pc = "around" => k \in DOMAIN Factors

(* The best loan makes the best profit. *)
BestInv ==
    /\ best_loan = 0 => best_profit = 0
    /\ best_loan # 0 => /\ ChainTyped(route, best_loan)
                        /\ best_profit > 0 /\ best_profit = Net(route, best_loan)
    /\ pc \in {"around", "found", "bid"} => best_loan # 0

(* No candidate tried so far makes more. *)
TriedInv ==
    \A c \in DOMAIN Candidates :
        (pc = "candidates" => c < k) =>
            Net(route, Candidates[c]) \in Int /\ Net(route, Candidates[c]) <= best_profit

(* The bid is for the profit that was found. *)
BidInv ==
    pc = "bid" => bid = Decide(competitor_floor_bps, best_profit, base_fee, best_gas)

IInv == TypeInv /\ BestInv /\ TriedInv /\ BidInv

(* The grid and the factors around the best loan. *)
LEMMA CandidateFacts ==
  /\ Len(Candidates) \in Nat /\ Len(Candidates) > 0 /\ DOMAIN Candidates = 1 .. Len(Candidates)
  /\ \A c \in DOMAIN Candidates : Candidates[c] \in Nat /\ Candidates[c] > 0
  /\ Len(Factors) \in Nat /\ Len(Factors) > 0 /\ DOMAIN Factors = 1 .. Len(Factors)
  /\ \A c \in DOMAIN Factors : Factors[c] \in Nat
  <1>1. Candidates \in Seq(Nat \ {0}) /\ Candidates # <<>>
    BY PricingAssumption
  <1>2. Factors \in Seq(Nat) /\ Factors # <<>>
    BY PricingAssumption
  <1>3. /\ Len(Candidates) \in Nat /\ Len(Candidates) > 0 /\ DOMAIN Candidates = 1 .. Len(Candidates)
        /\ \A c \in DOMAIN Candidates : Candidates[c] \in Nat /\ Candidates[c] > 0
    <2>1. Candidates \in [1 .. Len(Candidates) -> Nat \ {0}] /\ Len(Candidates) \in Nat
      BY <1>1, LenProperties
    <2>2. Len(Candidates) # 0
      BY <1>1, EmptySeq
    <2>3. QED
      BY <2>1, <2>2
  <1>4. /\ Len(Factors) \in Nat /\ Len(Factors) > 0 /\ DOMAIN Factors = 1 .. Len(Factors)
        /\ \A c \in DOMAIN Factors : Factors[c] \in Nat
    <2>1. Factors \in [1 .. Len(Factors) -> Nat] /\ Len(Factors) \in Nat
      BY <1>2, LenProperties
    <2>2. Len(Factors) # 0
      BY <1>2, EmptySeq
    <2>3. QED
      BY <2>1, <2>2
  <1>5. QED
    BY <1>3, <1>4

(* What is tried next is a natural number. *)
LEMMA LoanType ==
  ASSUME TypeInv, pc \in {"candidates", "around"}
  PROVE  Loan \in Nat
  <1>1. CASE pc = "candidates"
    BY <1>1, CandidateFacts DEF Loan, TypeInv
  <1>2. CASE pc = "around"
    <2>1. best_loan * Factors[k] \in Nat /\ Basis \in Nat \ {0}
      BY <1>2, CandidateFacts, PoolMathAssumption DEF TypeInv
    <2>2. QED
      BY <1>2, <2>1, Quotient DEF Loan
  <1>3. QED
    BY <1>1, <1>2

(* A loan that is tried replaces the best if it is better. *)
LEMMA TryFacts ==
  ASSUME TypeInv, BestInv, NEW loan \in Nat, ChainDefined(route, loan), Try(loan), route' = route
  PROVE  /\ best_profit' \in Nat /\ best_loan' \in Nat /\ best_gas' \in Nat
         /\ best_profit' >= best_profit
         /\ best_loan # 0 => best_loan' # 0
         /\ best_loan' = 0 => best_profit' = 0
         /\ best_loan' # 0 => /\ ChainTyped(route', best_loan')
                              /\ best_profit' > 0 /\ best_profit' = Net(route', best_loan')
         /\ Net(route, loan) \in Int /\ (loan > 0 => Net(route, loan) <= best_profit')
  <1>1. route \in Routes /\ best_profit \in Nat /\ best_loan \in Nat /\ best_gas \in Nat
    BY DEF TypeInv
  <1>2. ChainTyped(route, loan)
    BY <1>1, ChainTypes
  <1>3. Net(route, loan) \in Int /\ Chain(route, loan)[Len(route)].gas \in Nat
    BY <1>1, <1>2, NetType
  <1>4. net(loan) = Net(route, loan)
    BY DEF net, final_amount, Net
  <1>5. CASE loan > 0 /\ net(loan) > best_profit
    <2>1. /\ best_profit' = Net(route, loan) /\ best_loan' = loan
          /\ best_gas' = Chain(route, loan)[Len(route)].gas
      BY <1>4, <1>5 DEF Try
    <2>2. Net(route, loan) > best_profit /\ Net(route, loan) \in Nat /\ Net(route, loan) > 0
      BY <1>1, <1>3, <1>4, <1>5
    <2>3. QED
      BY <1>1, <1>2, <1>3, <1>5, <2>1, <2>2
  <1>6. CASE ~ (loan > 0 /\ net(loan) > best_profit)
    <2>1. UNCHANGED <<best_profit, best_loan, best_gas>>
      BY <1>6 DEF Try
    <2>2. loan > 0 => Net(route, loan) <= best_profit
      BY <1>1, <1>3, <1>4, <1>6
    <2>3. QED
      BY <1>1, <1>3, <2>1, <2>2 DEF BestInv
  <1>7. QED
    BY <1>5, <1>6

(* Nothing is tried yet. *)
LEMMA InitInv == Init => IInv
  <1> SUFFICES ASSUME Init PROVE IInv
    OBVIOUS
  <1>1. BaseRewardBps \in Nat
    BY PricingAssumption
  <1>2. TypeInv
    BY <1>1, CandidateFacts DEF Init, TypeInv
  <1>3. BestInv /\ BidInv
    BY DEF Init, BestInv, BidInv
  <1>4. TriedInv
    BY CandidateFacts DEF Init, TriedInv
  <1>5. QED
    BY <1>2, <1>3, <1>4 DEF IInv

(* Another candidate has been tried. *)
LEMMA CandidateStep ==
  ASSUME IInv, SwapsDefined, TryCandidate
  PROVE  IInv'
  <1>1. /\ pc = "candidates" /\ Try(Candidates[k]) /\ route' = route
        /\ competitor_floor_bps' = competitor_floor_bps /\ base_fee' = base_fee /\ bid' = bid
    BY DEF TryCandidate
  <1>2. TypeInv /\ BestInv /\ TriedInv /\ route \in Routes /\ best_profit \in Nat
    BY DEF IInv, TypeInv
  <1>3. k \in 1 .. Len(Candidates) /\ Candidates[k] \in Nat /\ Candidates[k] > 0
    BY <1>1, <1>2, CandidateFacts DEF TypeInv
  <1>4. ChainDefined(route, Candidates[k])
    BY <1>1 DEF SwapsDefined, Loan
  <1>5. /\ best_profit' \in Nat /\ best_loan' \in Nat /\ best_gas' \in Nat
        /\ best_profit' >= best_profit
        /\ best_loan' = 0 => best_profit' = 0
        /\ best_loan' # 0 => /\ ChainTyped(route', best_loan')
                             /\ best_profit' > 0 /\ best_profit' = Net(route', best_loan')
        /\ Net(route, Candidates[k]) \in Int /\ Net(route, Candidates[k]) <= best_profit'
    BY <1>1, <1>2, <1>3, <1>4, TryFacts
  <1>6. ASSUME NEW c \in DOMAIN Candidates, c <= k
        PROVE  Net(route', Candidates[c]) \in Int /\ Net(route', Candidates[c]) <= best_profit'
    <2>1. CASE c = k
      BY <1>1, <1>5, <2>1
    <2>2. CASE c < k
      <3>1. Net(route, Candidates[c]) \in Int /\ Net(route, Candidates[c]) <= best_profit
        BY <1>2, <2>2 DEF TriedInv
      <3>2. QED
        BY <1>1, <1>2, <1>5, <3>1
    <2>3. QED
      BY <1>3, <1>6, <2>1, <2>2, CandidateFacts
  <1>7. CASE k < Len(Candidates)
    <2>1. k' = k + 1 /\ pc' = pc
      BY <1>7 DEF TryCandidate
    <2>2. TypeInv'
      BY <1>1, <1>2, <1>3, <1>5, <1>7, <2>1, CandidateFacts DEF TypeInv
    <2>3. BestInv' /\ BidInv'
      BY <1>1, <1>5, <2>1 DEF BestInv, BidInv
    <2>4. TriedInv'
      <3>1. \A c \in DOMAIN Candidates : c < k + 1 => c <= k
        BY <1>3, CandidateFacts
      <3>2. QED
        BY <1>1, <1>6, <2>1, <3>1 DEF TriedInv
    <2>5. QED
      BY <2>2, <2>3, <2>4 DEF IInv
  <1>8. CASE ~ (k < Len(Candidates))
    <2>1. k' = 1 /\ pc' = IF best_loan' = 0 THEN "none" ELSE "around"
      BY <1>8 DEF TryCandidate
    <2>2. TypeInv'
      BY <1>1, <1>2, <1>5, <2>1, CandidateFacts DEF TypeInv
    <2>3. BestInv' /\ BidInv'
      BY <1>5, <2>1 DEF BestInv, BidInv
    <2>4. TriedInv'
      <3>1. \A c \in DOMAIN Candidates : c <= k
        BY <1>3, <1>8, CandidateFacts
      <3>2. QED
        BY <1>6, <3>1 DEF TriedInv
    <2>5. QED
      BY <2>2, <2>3, <2>4 DEF IInv
  <1>9. QED
    BY <1>7, <1>8

(* Another loan around the best one has been tried. *)
LEMMA AroundStep ==
  ASSUME IInv, SwapsDefined, TryAround
  PROVE  IInv'
  <1>1. /\ pc = "around" /\ Try(Loan) /\ route' = route
        /\ competitor_floor_bps' = competitor_floor_bps /\ base_fee' = base_fee /\ bid' = bid
    BY DEF TryAround, Loan
  <1>2. TypeInv /\ BestInv /\ TriedInv /\ route \in Routes /\ best_profit \in Nat
    BY DEF IInv, TypeInv
  <1>3. Loan \in Nat
    BY <1>1, <1>2, LoanType
  <1>4. ChainDefined(route, Loan)
    BY <1>1 DEF SwapsDefined
  <1>5. /\ best_profit' \in Nat /\ best_loan' \in Nat /\ best_gas' \in Nat
        /\ best_profit' >= best_profit
        /\ best_loan # 0 => best_loan' # 0
        /\ best_loan' = 0 => best_profit' = 0
        /\ best_loan' # 0 => /\ ChainTyped(route', best_loan')
                             /\ best_profit' > 0 /\ best_profit' = Net(route', best_loan')
    <2> HIDE DEF Loan
    <2>1. QED
      BY <1>1, <1>2, <1>3, <1>4, TryFacts
  <1>6. best_loan' # 0
    BY <1>1, <1>2, <1>5 DEF BestInv
  <1>7. pc' \in {"around", "found"} /\ (pc' = "around" => k' = k + 1 /\ k < Len(Factors))
    BY <1>1 DEF TryAround
  <1>8. k \in DOMAIN Factors
    BY <1>1, <1>2 DEF TypeInv
  <1>9. TypeInv'
    <2>1. pc' = "around" => k' \in DOMAIN Factors
      BY <1>7, <1>8, CandidateFacts
    <2>2. QED
      BY <1>1, <1>2, <1>5, <1>7, <2>1 DEF TypeInv
  <1>10. BestInv' /\ BidInv'
    BY <1>5, <1>6, <1>7 DEF BestInv, BidInv
  <1>11. TriedInv'
    <2>1. ASSUME NEW c \in DOMAIN Candidates
          PROVE  Net(route', Candidates[c]) \in Int /\ Net(route', Candidates[c]) <= best_profit'
      <3>1. Net(route, Candidates[c]) \in Int /\ Net(route, Candidates[c]) <= best_profit
        BY <1>1, <1>2 DEF TriedInv
      <3>2. QED
        BY <1>1, <1>2, <1>5, <3>1
    <2>2. QED
      BY <2>1 DEF TriedInv
  <1>12. QED
    BY <1>9, <1>10, <1>11 DEF IInv

(* Every step keeps the invariant, as long as no swap divides by zero. *)
LEMMA NextInv == IInv /\ SwapsDefined /\ [Next]_vars => IInv'
  <1> SUFFICES ASSUME IInv, SwapsDefined, [Next]_vars PROVE IInv'
    OBVIOUS
  <1>1. CASE TryCandidate
    BY <1>1, CandidateStep
  <1>2. CASE TryAround
    BY <1>2, AroundStep
  <1>3. ASSUME NEW o \in ObservedBps, update_competitor_floor(o) PROVE IInv'
    <2>1. competitor_floor_bps' \in Nat
      <3>1. competitor_floor_bps \in Nat /\ o \in Nat
        BY PricingAssumption DEF IInv, TypeInv
      <3>2. competitor_floor_bps' = (competitor_floor_bps * 8 + o * 2) \div 10
        BY <1>3 DEF update_competitor_floor
      <3>3. QED
        BY <3>1, <3>2
    <2>2. /\ UNCHANGED <<route, best_profit, best_loan, best_gas, k, pc, base_fee, bid>>
          /\ pc = "found"
      BY <1>3 DEF update_competitor_floor, searchVars
    <2>3. TypeInv' /\ BestInv' /\ TriedInv' /\ BidInv'
      BY <2>1, <2>2 DEF IInv, TypeInv, BestInv, TriedInv, BidInv
    <2>4. QED
      BY <2>3 DEF IInv
  <1>4. ASSUME NEW fee \in BaseFees, compute(fee) PROVE IInv'
    <2>1. fee \in Nat
      BY PricingAssumption
    <2>2. /\ UNCHANGED <<route, best_profit, best_loan, best_gas, k, competitor_floor_bps>>
          /\ pc = "found" /\ pc' = "bid" /\ base_fee' = fee
          /\ bid' = Decide(competitor_floor_bps, best_profit, fee, best_gas)
      BY <1>4 DEF compute, searchVars
    <2>3. TypeInv' /\ BestInv' /\ TriedInv'
      BY <2>1, <2>2 DEF IInv, TypeInv, BestInv, TriedInv
    <2>4. BidInv'
      BY <2>2 DEF BidInv
    <2>5. QED
      BY <2>3, <2>4 DEF IInv
  <1>5. CASE UNCHANGED vars
    BY <1>5 DEF vars, searchVars, IInv, TypeInv, BestInv, TriedInv, BidInv
  <1>6. QED
    BY <1>1, <1>2, <1>3, <1>4, <1>5 DEF Next

(* The invariant holds in every state of such a behaviour. *)
LEMMA Invariance == Spec /\ []SwapsDefined => []IInv
  BY InitInv, NextInv, PTL DEF Spec

-----------------------------------------------------------------------------
(* simulate_math returns the loan whose chain really leaves the profit it  *)
(* reports, and none of CANDIDATES leaves more, wherever the steps around  *)
(* the best one have led.                                                  *)
THEOREM BestIsFound == Spec /\ []SwapsDefined => []FoundIsBest
  <1>1. IInv => FoundIsBest
    <2> SUFFICES ASSUME IInv, pc = "found"
                 PROVE  /\ final_amount(best_loan) >= best_loan + premium(best_loan) + best_profit
                        /\ \A c \in DOMAIN Candidates : net(Candidates[c]) <= best_profit
      BY DEF FoundIsBest
    <2>1. /\ route \in Routes /\ best_loan \in Nat /\ best_profit \in Nat
          /\ best_loan # 0 /\ ChainTyped(route, best_loan) /\ best_profit = Net(route, best_loan)
      BY DEF IInv, TypeInv, BestInv
    <2>2. final_amount(best_loan) \in Nat /\ premium(best_loan) \in Nat
      BY <2>1, NetType, PremiumType DEF final_amount
    <2>3. best_profit = final_amount(best_loan) - best_loan - premium(best_loan)
      BY <2>1 DEF Net, final_amount
    <2>4. final_amount(best_loan) >= best_loan + premium(best_loan) + best_profit
      BY <2>1, <2>2, <2>3
    <2>5. \A c \in DOMAIN Candidates : net(Candidates[c]) <= best_profit
      BY DEF IInv, TriedInv, net, Net, final_amount
    <2>6. QED
      BY <2>4, <2>5
  <1>2. QED
    BY <1>1, Invariance, PTL

(* BiddingEngine::compute on what simulate_math found: gas, the miner's    *)
(* reward and the minimum asked of the contract fit together in the        *)
(* profit, whatever competitor floor was observed before.                  *)
THEOREM BidFitsProfit == Spec /\ []SwapsDefined => []MinimumAndRewardFit
  <1>1. IInv => MinimumAndRewardFit
    <2> SUFFICES ASSUME IInv, pc = "bid", MinProfitBps + MaxRewardBps <= 10000
                 PROVE  bid.miner_reward + bid.min_profit + best_gas * base_fee
                            <= Higher(best_profit, best_gas * base_fee)
      BY DEF MinimumAndRewardFit
    <2>1. /\ competitor_floor_bps \in Nat /\ best_profit \in Nat /\ base_fee \in Nat
          /\ best_gas \in Nat
          /\ bid = Decide(competitor_floor_bps, best_profit, base_fee, best_gas)
      BY DEF IInv, TypeInv, BidInv
    <2>2. ASSUME NEW floor \in Nat, NEW gross \in Nat, NEW fee \in Nat, NEW gas \in Nat
          PROVE  Decide(floor, gross, fee, gas).miner_reward
                   + Decide(floor, gross, fee, gas).min_profit + gas * fee
                     <= Higher(gross, gas * fee)
      BY BidFits
    <2> DEFINE b == Decide(competitor_floor_bps, best_profit, base_fee, best_gas)
    <2>3. b.miner_reward + b.min_profit + best_gas * base_fee
            <= Higher(best_profit, best_gas * base_fee)
      BY ONLY <2>1, <2>2, Zenon
    <2>4. QED
      BY ONLY <2>1, <2>3, Zenon
  <1>2. QED
    BY <1>1, Invariance, PTL

(* A minimum that is less than all of what is left leaves a wei. *)
LEMMA MinimumBelowProfit ==
  ASSUME NEW floor \in Nat, NEW gross \in Nat, NEW fee \in Nat, NEW gas \in Nat,
         MinProfitBps < 10000, Decide(floor, gross, fee, gas) # NoBid
  PROVE  /\ Decide(floor, gross, fee, gas).min_profit \in Nat
         /\ Decide(floor, gross, fee, gas).min_profit < gross
  <1> DEFINE n == NetProfit(gross, fee, gas)
             least == (n * MinProfitBps) \div 10000
  <1>1. n \in Nat /\ n <= gross
    BY NetBounds
  <1>2. n # 0
    BY DEF Decide
  <1>3. Decide(floor, gross, fee, gas).min_profit = least
    BY <1>2 DEF Decide
  <1> HIDE DEF n
  <1>4. MinProfitBps \in Nat
    BY BpsAssumption
  <1>5. least \in Nat /\ least * 10000 <= n * MinProfitBps
    BY <1>1, <1>4, ShareBounds
  <1>6. n * MinProfitBps < n * 10000
    <2>1. n * (MinProfitBps + 1) <= n * 10000
      BY <1>1, <1>4, TimesMonotone
    <2>2. n * (MinProfitBps + 1) = n * MinProfitBps + n /\ n * MinProfitBps \in Nat
      BY <1>1, <1>4
    <2>3. QED
      BY <1>1, <1>2, <2>1, <2>2
  <1>7. n * MinProfitBps \in Nat
    BY <1>1, <1>4
  <1> HIDE DEF least
  <1>8. ASSUME NEW part \in Nat, NEW times \in Nat, NEW whole \in Nat, NEW all \in Nat,
               part * 10000 <= times, times < whole * 10000, whole <= all
        PROVE  part < all
    BY <1>8
  <1>9. QED
    BY <1>1, <1>3, <1>5, <1>6, <1>7, <1>8

(* A bundle built from a bid passes the contract's check when the pools    *)
(* are as simulated: simulate_math rounds the premium down and the lending *)
(* pool may round it up, and the minimum leaves the wei that makes the     *)
(* difference, as it is never all of the profit.                           *)
THEOREM BidsPassCheck ==
  ASSUME MinProfitBps < 10000
  PROVE  Spec /\ []SwapsDefined => []BidPassesCheck
  <1>1. IInv => BidPassesCheck
    <2> DEFINE x == best_loan * Premium
               charged == (x + Basis - 1) \div Basis
               pre == premium(best_loan)
               gained == final_amount(best_loan) - best_loan
    <2> SUFFICES ASSUME IInv, pc = "bid", bid # NoBid
                 PROVE  gained >= charged + bid.min_profit
      BY DEF BidPassesCheck
    <2>1. /\ route \in Routes /\ best_loan \in Nat /\ best_profit \in Nat
          /\ best_loan # 0 /\ ChainTyped(route, best_loan) /\ best_profit = Net(route, best_loan)
      BY DEF IInv, TypeInv, BestInv
    <2>2. /\ final_amount(best_loan) \in Nat
          /\ pre \in Nat /\ Basis * pre <= x /\ x < Basis * pre + Basis
      BY <2>1, NetType, PremiumType DEF final_amount
    <2>3. best_profit = gained - pre /\ gained \in Int
      BY <2>1, <2>2 DEF Net, final_amount
    <2>4. bid.min_profit \in Nat /\ bid.min_profit < best_profit
      <3>1. /\ competitor_floor_bps \in Nat /\ base_fee \in Nat /\ best_gas \in Nat
            /\ bid = Decide(competitor_floor_bps, best_profit, base_fee, best_gas)
        BY DEF IInv, TypeInv, BidInv
      <3>2. QED
        BY <2>1, <3>1, MinimumBelowProfit
    <2>5. x \in Nat /\ Basis \in Nat \ {0}
      BY <2>1, PricingAssumption, PoolMathAssumption
    <2> HIDE DEF x, pre, gained
    <2>6. charged \in Nat /\ charged <= pre + 1
      <3>1. x + Basis - 1 \in Nat
        BY <2>5
      <3>2. charged \in Nat /\ Basis * charged <= x + Basis - 1
        BY <2>5, <3>1, Quotient
      <3> HIDE DEF charged
      <3>3. SUFFICES ASSUME pre + 2 <= charged PROVE FALSE
        BY <2>2, <3>2
      <3>4. Basis * (pre + 2) <= Basis * charged
        BY <2>2, <2>5, <3>2, <3>3, TimesMonotone
      <3>5. Basis * (pre + 2) = Basis * pre + Basis + Basis /\ Basis * pre \in Nat
            /\ Basis * charged \in Nat
        BY <2>2, <2>5, <3>2
      <3>6. QED
        BY <2>2, <2>5, <3>2, <3>4, <3>5
    <2> HIDE DEF charged
    <2>7. QED
      BY <2>1, <2>2, <2>3, <2>4, <2>6
  <1>2. QED
    BY <1>1, Invariance, PTL

(* On the chain of a loan that is found no step of uniswap_v3_swap takes   *)
(* more than it is given, so that the subtraction that follows it cannot   *)
(* wrap, for any prices, liquidity and fees and any width of the products. *)
THEOREM StepsTakeNoMore == Spec /\ []SwapsDefined => []ConcentratedTakesNoMore
  <1>1. IInv => ConcentratedTakesNoMore
    <2> SUFFICES ASSUME IInv, best_loan > 0, NEW n \in DOMAIN route, route[n].kind = "v3"
                 PROVE  LET in == AmountAfter(route, n - 1, best_loan)
                            step == compute_swap_step(route[n], in)
                        IN  step.in + step.fee <= in
      BY DEF ConcentratedTakesNoMore
    <2>1. route \in Routes /\ ChainTyped(route, best_loan)
      BY DEF IInv, TypeInv, BestInv
    <2>2. IsConcentrated(route[n]) /\ n \in 1 .. Len(route) /\ Len(route) \in Nat
      BY <2>1, RouteAssumption DEF IsPair, IsStable
    <2>3. n - 1 \in 0 .. Len(route)
      BY <2>2
    <2>4. AmountAfter(route, n - 1, best_loan) \in Nat
      BY <2>1, <2>3 DEF ChainTyped, AmountAfter, Steps
    <2>5. QED
      BY <2>2, <2>4, StepTakesNoMore
  <1>2. QED
    BY <1>1, Invariance, PTL

(* A chain through pairs never divides by zero. *)
LEMMA PairRoutesDefined ==
  ASSUME \A r \in Routes : \A n \in DOMAIN r : r[n].kind = "v2",
         TypeInv
  PROVE  SwapsDefined
  <1>1. ASSUME NEW n \in 1 .. Len(route), Chain(route, Loan)[n - 1].amount \in Nat \ {0}
        PROVE  Defined(route[n], Chain(route, Loan)[n - 1].amount)
    <2>1. IsPair(route[n])
      BY RouteAssumption DEF TypeInv, IsPair, IsConcentrated, IsStable
    <2>2. QED
      BY <1>1, <2>1, PairDefined
  <1>2. QED
    BY <1>1 DEF SwapsDefined, ChainDefined

(* simulate_math on routes of pairs never divides by zero, whatever their  *)
(* reserves and fees: for them the theorems above hold of every behaviour. *)
THEOREM PairsNeverPanic ==
  ASSUME \A r \in Routes : \A n \in DOMAIN r : r[n].kind = "v2"
  PROVE  Spec => []SwapsDefined
  <1>1. IInv => SwapsDefined
    BY PairRoutesDefined DEF IInv
  <1>2. QED
    BY <1>1, InitInv, NextInv, PTL DEF Spec

-----------------------------------------------------------------------------
(* What is found is exact, and found for a reason. *)

(* A leg on the chain of a loan that ends with something, rounded down. *)
LEMMA LegOnChain ==
  ASSUME NEW r \in Routes, NEW loan \in Nat, ChainTyped(r, loan), AmountAfter(r, Len(r), loan) # 0,
         NEW n \in 1 .. Len(r), Conservative(r[n], AmountAfter(r, n - 1, loan))
  PROVE  /\ AmountAfter(r, n - 1, loan) \in Nat /\ AmountAfter(r, n, loan) \in Nat
         /\ Accepts(r[n], AmountAfter(r, n - 1, loan), AmountAfter(r, n, loan))
         /\ r[n].kind = "v2" =>
               ~ Accepts(r[n], AmountAfter(r, n - 1, loan), AmountAfter(r, n, loan) + 1)
         /\ Paid(r[n]) \in Nat /\ Paid(r[n]) > 0 /\ Received(r[n]) \in Nat
         /\ AmountAfter(r, n, loan) * Paid(r[n])
              <= AmountAfter(r, n - 1, loan) * Received(r[n])
  <1> DEFINE in == AmountAfter(r, n - 1, loan)
             out == AmountAfter(r, n, loan)
  <1>1. n - 1 \in 0 .. Len(r) /\ n \in 0 .. Len(r) /\ n \in DOMAIN r
    BY RouteAssumption
  <1>2. in \in Nat /\ out \in Nat
    BY <1>1 DEF ChainTyped, AmountAfter, Steps
  <1>3. in # 0 /\ out # 0
    BY <1>1, ChainPositive
  <1>4. out = simulate_swap(r[n], in).out
    <2>1. Chain(r, loan)[n] = Traded(r[n], Chain(r, loan)[n - 1])
      BY ChainSteps
    <2>2. QED
      BY <1>3, <2>1 DEF Traded, AmountAfter
  <1>5. Conservative(r[n], in)
    OBVIOUS
  <1> HIDE DEF in, out
  <1>6. CASE r[n].kind = "v2"
    <2>1. IsPair(r[n])
      BY <1>1, <1>6, RouteAssumption DEF IsConcentrated, IsStable
    <2>2. out = uniswap_v2_swap(r[n], in)
      <3>1. simulate_swap(r[n], in) = [out |-> uniswap_v2_swap(r[n], in), ticks |-> 0]
        BY <1>6 DEF simulate_swap
      <3>2. QED
        BY <1>4, <3>1
    <2>3. /\ Accepts(r[n], in, out) /\ ~ Accepts(r[n], in, out + 1)
          /\ Paid(r[n]) \in Nat /\ Paid(r[n]) > 0 /\ Received(r[n]) \in Nat
          /\ out * Paid(r[n]) <= in * Received(r[n])
      BY <1>2, <1>3, <2>1, <2>2, PairFacts
    <2>4. QED
      BY <1>2, <2>3 DEF in, out
  <1>7. CASE r[n].kind # "v2"
    <2>1. r[n].kind = "v3"
      BY <1>5, <1>7 DEF Conservative
    <2>2. IsConcentrated(r[n])
      BY <1>1, <2>1, RouteAssumption DEF IsPair, IsStable
    <2>3. out = uniswap_v3_swap(r[n], in).out
      <3>1. simulate_swap(r[n], in) = uniswap_v3_swap(r[n], in)
        BY <2>1 DEF simulate_swap
      <3>2. QED
        BY <1>4, <3>1
    <2>4. /\ Accepts(r[n], in, out)
          /\ Paid(r[n]) \in Nat /\ Paid(r[n]) > 0 /\ Received(r[n]) \in Nat
          /\ out * Paid(r[n]) <= in * Received(r[n])
      BY <1>2, <1>3, <1>5, <2>2, <2>3, ConcentratedFacts
    <2>5. QED
      BY <1>2, <1>7, <2>4 DEF in, out
  <1>8. QED
    BY <1>6, <1>7

(* A found loan's chain returns more than the loan. *)
LEMMA FoundFacts ==
  ASSUME IInv, best_loan > 0
  PROVE  /\ route \in Routes /\ best_loan \in Nat /\ ChainTyped(route, best_loan)
         /\ AmountAfter(route, Len(route), best_loan) \in Nat
         /\ AmountAfter(route, Len(route), best_loan) > best_loan
         /\ AmountAfter(route, Len(route), best_loan) # 0
  <1>1. /\ route \in Routes /\ best_loan \in Nat /\ ChainTyped(route, best_loan)
        /\ best_profit > 0 /\ best_profit = Net(route, best_loan)
    BY DEF IInv, TypeInv, BestInv
  <1>2. AmountAfter(route, Len(route), best_loan) \in Nat /\ premium(best_loan) \in Nat
    BY <1>1, NetType, PremiumType
  <1>3. QED
    BY <1>1, <1>2 DEF Net

(* Every swap of a loan that is found is one its pool accepts, if it is    *)
(* through a pair, or of token1 into a concentrated pool by a step that    *)
(* ends before its target and divides by a product that does not wrap; and *)
(* a pair accepts no larger one.  For any reserves, prices, liquidity and  *)
(* fees, and any width of the products.                                    *)
THEOREM RoundedSwapsAreExact == Spec /\ []SwapsDefined => []SwapsAreExact
  <1>1. IInv => SwapsAreExact
    <2> SUFFICES ASSUME IInv, best_loan > 0, NEW n \in DOMAIN route
                 PROVE  LET in == AmountAfter(route, n - 1, best_loan)
                            out == AmountAfter(route, n, best_loan)
                        IN  /\ Conservative(route[n], in) => Accepts(route[n], in, out)
                            /\ route[n].kind = "v2" => ~Accepts(route[n], in, out + 1)
      BY DEF SwapsAreExact
    <2>1. /\ route \in Routes /\ best_loan \in Nat /\ ChainTyped(route, best_loan)
          /\ AmountAfter(route, Len(route), best_loan) # 0
      BY FoundFacts
    <2>2. n \in 1 .. Len(route)
      BY <2>1, RouteAssumption
    <2>3. route[n].kind = "v2" => Conservative(route[n], AmountAfter(route, n - 1, best_loan))
      BY DEF Conservative
    <2>4. QED
      BY <2>1, <2>2, <2>3, LegOnChain
  <1>2. QED
    BY <1>1, Invariance, PTL

(* f[j] is the product of the first j factors. *)
Multiplies(f, xs, n) == f[0] = 1 /\ \A j \in 1 .. n : f[j] = f[j - 1] * xs[j]

(* Product is the last of these products. *)
LEMMA ProductFacts ==
  ASSUME NEW m \in Nat, NEW xs \in [1 .. m -> Nat]
  PROVE  \E f \in [0 .. m -> Nat] : Multiplies(f, xs, m) /\ Product(xs) = f[m]
  <1>1. xs \in Seq(Nat) /\ Len(xs) = m
    <2>1. xs \in Seq(Nat)
      BY SeqDef
    <2>2. Len(xs) \in Nat /\ 1 .. m = 1 .. Len(xs)
      BY <2>1, LenProperties
    <2>3. QED
      BY <2>1, <2>2
  <1> DEFINE Defines(f) == f = [j \in 0 .. Len(xs) |-> IF j = 0 THEN 1 ELSE f[j - 1] * xs[j]]
             S == {i \in Nat : i <= m => \E g \in [0 .. i -> Nat] : Multiplies(g, xs, i)}
  <1>2. 0 \in S
    <2> DEFINE g == [j \in 0 .. 0 |-> 1]
    <2>1. g \in [0 .. 0 -> Nat] /\ Multiplies(g, xs, 0)
      BY DEF Multiplies
    <2>2. QED
      BY <2>1
  <1>3. ASSUME NEW i \in Nat, i \in S PROVE i + 1 \in S
    <2> SUFFICES ASSUME i + 1 <= m
                 PROVE  \E g \in [0 .. i + 1 -> Nat] : Multiplies(g, xs, i + 1)
      OBVIOUS
    <2>1. PICK g \in [0 .. i -> Nat] : Multiplies(g, xs, i)
      BY <1>3
    <2> DEFINE h == [j \in 0 .. i + 1 |-> IF j = i + 1 THEN g[i] * xs[i + 1] ELSE g[j]]
    <2>2. g[i] \in Nat /\ xs[i + 1] \in Nat /\ g[i] * xs[i + 1] \in Nat
      BY <2>1
    <2>3. h \in [0 .. i + 1 -> Nat]
      BY <2>1, <2>2
    <2>4. /\ h[i + 1] = g[i] * xs[i + 1] /\ h[i] = g[i] /\ h[0] = g[0]
          /\ \A j \in 1 .. i : h[j] = g[j] /\ h[j - 1] = g[j - 1]
      OBVIOUS
    <2> HIDE DEF h
    <2>5. ASSUME NEW j \in 1 .. i + 1 PROVE h[j] = h[j - 1] * xs[j]
      <3>1. CASE j = i + 1
        BY <2>4, <3>1
      <3>2. CASE j \in 1 .. i
        BY <2>1, <2>4, <3>2 DEF Multiplies
      <3>3. QED
        BY <3>1, <3>2
    <2>6. Multiplies(h, xs, i + 1)
      BY <2>1, <2>4, <2>5 DEF Multiplies
    <2>7. QED
      BY <2>3, <2>6
  <1> HIDE DEF S
  <1>4. m \in S
    BY <1>2, <1>3, SetInduction
  <1>5. PICK g \in [0 .. m -> Nat] : Multiplies(g, xs, m)
    BY <1>4 DEF S
  <1>6. Defines(g)
    BY <1>1, <1>5 DEF Multiplies
  <1>7. Product(xs) = (CHOOSE f : Defines(f))[m]
    BY <1>1 DEF Product
  <1> DEFINE f == CHOOSE f : Defines(f)
  <1>8. Defines(f)
    <2> HIDE DEF Defines
    <2>1. QED
      BY <1>6
  <1> HIDE DEF f
  <1>9. f[0] = 1 /\ \A j \in 1 .. m : f[j] = f[j - 1] * xs[j]
    BY <1>1, <1>8
  <1>10. f \in [0 .. m -> Nat]
    <2> DEFINE R == {j \in 0 .. m : f[j] \in Nat}
    <2>1. 0 \in R
      BY <1>9
    <2>2. ASSUME NEW j \in 1 .. m, j - 1 \in R PROVE j \in R
      <3>1. f[j - 1] \in Nat /\ xs[j] \in Nat /\ j \in 0 .. m
        BY <2>2
      <3>2. QED
        BY <1>9, <3>1
    <2> HIDE DEF R
    <2>3. \A j \in 0 .. m : j \in R
      BY <2>1, <2>2, BoundedInduction
    <2>4. QED
      BY <1>1, <1>8, <2>3 DEF R
  <1>11. QED
    BY <1>1, <1>7, <1>9, <1>10 DEF f, Multiplies

(* One more leg of the argument below. *)
LEMMA OneMoreLeg ==
  ASSUME NEW loan \in Nat, NEW in \in Nat, NEW out \in Nat, NEW paid \in Nat, NEW received \in Nat,
         NEW p \in Nat, NEW q \in Nat,
         in * p <= loan * q, out * paid <= in * received
  PROVE  out * (p * paid) <= loan * (q * received)
  <1>1. p * (out * paid) <= p * (in * received)
    <2>1. out * paid \in Nat /\ in * received \in Nat
      OBVIOUS
    <2>2. QED
      BY <2>1, TimesMonotone
  <1>2. received * (in * p) <= received * (loan * q)
    <2>1. in * p \in Nat /\ loan * q \in Nat
      OBVIOUS
    <2>2. QED
      BY <2>1, TimesMonotone
  <1>3. /\ out * (p * paid) = p * (out * paid)
        /\ p * (in * received) = received * (in * p)
        /\ loan * (q * received) = received * (loan * q)
    OBVIOUS
  <1>4. /\ p * (out * paid) \in Nat /\ p * (in * received) \in Nat
        /\ received * (loan * q) \in Nat
    <2>1. out * paid \in Nat /\ in * received \in Nat /\ loan * q \in Nat
      OBVIOUS
    <2>2. QED
      BY <2>1
  <1>5. QED
    BY <1>1, <1>2, <1>3, <1>4

(* A loan is only found where trading a little, with every fee paid, would *)
(* gain: along the chain the amount is never above the loan times the      *)
(* product of the spot prices with the fees taken off, if every swap is    *)
(* rounded down as in RoundedSwapsAreExact.                                *)
THEOREM RoundedGainsNeedAnEdge == Spec /\ []SwapsDefined => []GainsNeedAnEdge
  <1>1. IInv => GainsNeedAnEdge
    <2> DEFINE in == [n \in DOMAIN route |-> Received(route[n])]
               out == [n \in DOMAIN route |-> Paid(route[n])]
               m == Len(route)
               a == [n \in 0 .. m |-> AmountAfter(route, n, best_loan)]
    <2> SUFFICES ASSUME IInv, best_loan > 0,
                        \A n \in DOMAIN route :
                            Conservative(route[n], AmountAfter(route, n - 1, best_loan))
                 PROVE  Product(in) > Product(out)
      BY DEF GainsNeedAnEdge
    <2>1. /\ route \in Routes /\ best_loan \in Nat /\ ChainTyped(route, best_loan)
          /\ AmountAfter(route, m, best_loan) \in Nat
          /\ AmountAfter(route, m, best_loan) > best_loan
          /\ AmountAfter(route, m, best_loan) # 0
      BY FoundFacts
    <2>2. m \in Nat /\ DOMAIN route = 1 .. m
      BY <2>1, RouteAssumption
    <2>3. \A n \in 1 .. m : Conservative(route[n], AmountAfter(route, n - 1, best_loan))
      BY <2>2
    <2>4. ASSUME NEW n \in 1 .. m
          PROVE  /\ a[n - 1] \in Nat /\ a[n] \in Nat
                 /\ out[n] \in Nat /\ out[n] > 0 /\ in[n] \in Nat
                 /\ a[n] * out[n] <= a[n - 1] * in[n]
      <3>1. /\ a[n - 1] = AmountAfter(route, n - 1, best_loan) /\ a[n] = AmountAfter(route, n, best_loan)
            /\ in[n] = Received(route[n]) /\ out[n] = Paid(route[n])
        BY <2>2
      <3>2. QED
        BY <2>1, <2>3, <3>1, LegOnChain
    <2>5. a[0] = best_loan /\ a[m] > best_loan /\ a[m] \in Nat
      <3>1. AmountAfter(route, 0, best_loan) = best_loan
        <4>1. Chain(route, best_loan)[0] = [amount |-> best_loan, gas |-> GasOverhead]
          BY <2>1, ChainSteps
        <4>2. QED
          BY <4>1 DEF AmountAfter
      <3>2. QED
        BY <2>1, <2>2, <3>1
    <2>6. in \in [1 .. m -> Nat] /\ out \in [1 .. m -> Nat]
      BY <2>2, <2>4
    <2> HIDE DEF in, out, m, a
    <2>7. PICK f \in [0 .. m -> Nat] : Multiplies(f, in, m) /\ Product(in) = f[m]
      BY <2>2, <2>6, ProductFacts
    <2>8. PICK g \in [0 .. m -> Nat] : Multiplies(g, out, m) /\ Product(out) = g[m]
      BY <2>2, <2>6, ProductFacts
    <2>9. /\ f[0] = 1 /\ \A j \in 1 .. m : f[j] = f[j - 1] * in[j]
          /\ g[0] = 1 /\ \A j \in 1 .. m : g[j] = g[j - 1] * out[j]
      BY <2>7, <2>8 DEF Multiplies
    <2> DEFINE S == {n \in 0 .. m : g[n] > 0 /\ a[n] * g[n] <= best_loan * f[n]}
    <2>10. 0 \in S
      BY <2>1, <2>2, <2>5, <2>9
    <2>11. ASSUME NEW n \in 1 .. m, n - 1 \in S PROVE n \in S
      <3>1. /\ n \in 0 .. m /\ n - 1 \in 0 .. m /\ g[n - 1] \in Nat /\ f[n - 1] \in Nat
            /\ g[n - 1] > 0 /\ a[n - 1] * g[n - 1] <= best_loan * f[n - 1]
        BY <2>2, <2>7, <2>8, <2>11
      <3>2. /\ a[n - 1] \in Nat /\ a[n] \in Nat /\ out[n] \in Nat /\ out[n] > 0 /\ in[n] \in Nat
            /\ a[n] * out[n] <= a[n - 1] * in[n]
        BY <2>4
      <3>3. a[n] * (g[n - 1] * out[n]) <= best_loan * (f[n - 1] * in[n])
        BY <2>1, <3>1, <3>2, OneMoreLeg
      <3>4. g[n - 1] * out[n] > 0
        BY <3>1, <3>2
      <3>5. f[n] = f[n - 1] * in[n] /\ g[n] = g[n - 1] * out[n]
        BY <2>9
      <3>6. g[n] > 0 /\ a[n] * g[n] <= best_loan * f[n]
        BY ONLY <3>3, <3>4, <3>5, Zenon
      <3>7. QED
        BY ONLY <3>1, <3>6, Zenon
    <2> HIDE DEF S
    <2>12. m \in S
      <3>1. \A n \in 0 .. m : n \in S
        BY <2>2, <2>10, <2>11, BoundedInduction
      <3>2. QED
        BY <2>2, <3>1
    <2>13. g[m] > 0 /\ a[m] * g[m] <= best_loan * f[m] /\ g[m] \in Nat /\ f[m] \in Nat
      BY <2>2, <2>7, <2>8, <2>12 DEF S
    <2>14. f[m] > g[m]
      <3> SUFFICES ASSUME f[m] <= g[m] PROVE FALSE
        BY <2>13
      <3>1. best_loan * f[m] <= best_loan * g[m]
        BY <2>1, <2>13, TimesMonotone
      <3>2. g[m] * (best_loan + 1) <= g[m] * a[m]
        <4>1. best_loan + 1 \in Nat /\ best_loan + 1 <= a[m]
          BY <2>1, <2>5
        <4>2. QED
          BY <2>5, <2>13, <4>1, TimesMonotone
      <3>3. /\ g[m] * (best_loan + 1) = g[m] * best_loan + g[m]
            /\ g[m] * best_loan = best_loan * g[m] /\ g[m] * a[m] = a[m] * g[m]
            /\ g[m] * best_loan \in Nat /\ g[m] * a[m] \in Nat /\ best_loan * f[m] \in Nat
        BY <2>1, <2>5, <2>13
      <3>4. QED
        BY <2>13, <3>1, <3>2, <3>3
    <2>15. QED
      BY <2>7, <2>8, <2>14
  <1>2. QED
    BY <1>1, Invariance, PTL

=============================================================================
