------------------------- MODULE MCArbitrageExecutor -------------------------
(* Small instances of ArbitrageExecutor for TLC: requests as bundle.rs     *)
(* builds them, the first leg approving the loan, the others everything.   *)
EXTENDS ArbitrageExecutor

CONSTANTS weth, dai, p1, p2

RoundTrip(amount) ==
    <<[target |-> p1, approveToken |-> weth, approveAmount |-> amount],
      [target |-> p2, approveToken |-> dai, approveAmount |-> 0]>>
Unapproved == <<[target |-> p1, approveToken |-> NoToken, approveAmount |-> 0]>>

Request(amount, profit, reward, actions) ==
    [asset |-> weth, amount |-> amount, minProfit |-> profit, minerReward |-> reward,
     actions |-> actions]

Trades ==
    {Request(2, profit, reward, RoundTrip(2)) : profit \in {0, 1}, reward \in {0, 1}}
        \cup {Request(1, 1, 2, Unapproved), Request(0, 0, 0, Unapproved), Request(1, 0, 0, <<>>)}

Drains == {Request(2, 0, 3, Unapproved)}
=============================================================================
