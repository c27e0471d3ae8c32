----------------------------- MODULE MCPricing -----------------------------
(* Small routes for TLC. *)
EXTENDS Pricing

(* Round trips through pairs and concentrated pools; shares of 20 in pairs *)
(* and of 10 in concentrated pools.  Where the code's numbers have 96, 128,*)
(* 160, 232 and 256 bits, those here have 6, 8, 10, 14 and 16.             *)
Pair(reserves, fees) == [kind : {"v2"}, res_in : reserves, res_out : reserves, fee : fees]
Concentrated ==
    [kind : {"v3"}, zero_for_one : BOOLEAN, sqrt_price : {30, 66, 215, 246}, liquidity : {20, 200},
     fee : {0, 1}]
TwoPairs == [1 .. 2 -> Pair({0, 7, 1000, 1250, 2000}, {0, 1, 4})]
ThreePairs == [1 .. 3 -> Pair({9, 14, 40}, {0, 1})]
Mixed == [1 .. 2 -> Concentrated \cup Pair({40, 1000}, {1})]
RoundTrips == TwoPairs \cup ThreePairs \cup Mixed
Grid == <<1, 8, 60, 300>>
Around == <<15, 25, 18, 22>>

(* Through a stable pool and back through a pair. *)
Stable == {<<[kind |-> "curve", balances |-> <<b, c>>, amp |-> amp, fee |-> 1],
             [kind |-> "v2", res_in |-> 100, res_out |-> 100, fee |-> 1]>> :
                 b \in {20, 50}, c \in {20, 50}, amp \in {1, 10, 100}}
=============================================================================
